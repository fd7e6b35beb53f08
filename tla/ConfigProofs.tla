---------------------------- MODULE ConfigProofs ----------------------------
(***************************************************************************)
(* What the operations on the configuration in memory change and what they *)
(* leave alone, for any ingress, configuration and key.  They are loops    *)
(* over rules, paths and servers; each loop has its invariant here (the    *)
(* Kept of an instance of FoldLemmas) and a lemma about its result.        *)
(***************************************************************************)
EXTENDS IngressConfig, WellFoundedInduction, TLAPS

\* u is the name of an upstream of the ingress.
OfIngress(ing, u) == u # Unavailable /\ u[1] = ing

LEMMA NamesOfUpstreams ==
    ASSUME NEW ing, NEW svc, NEW q
    PROVE  /\ OfIngress(ing, getProxyPass(ing, svc, q))
           /\ \A i : OfIngress(i, getProxyPass(ing, svc, q)) => i = ing
           /\ ~OfIngress(ing, Unavailable)
BY DEF OfIngress, getProxyPass, Unavailable

\* A map with one more entry, one map over another, and a map with fewer keys.
LEMMA OneMore ==
    ASSUME NEW x, NEW y, NEW f
    PROVE  /\ DOMAIN With(f, x, y) = {x} \cup DOMAIN f
           /\ With(f, x, y)[x] = y
           /\ \A z \in DOMAIN f : z # x => With(f, x, y)[z] = f[z]
BY DEF With

LEMMA Laid ==
    ASSUME NEW f, NEW g
    PROVE  /\ DOMAIN Over(f, g) = DOMAIN f \cup DOMAIN g
           /\ \A z \in DOMAIN f : Over(f, g)[z] = f[z]
           /\ \A z \in DOMAIN g : z \notin DOMAIN f => Over(f, g)[z] = g[z]
BY DEF Over

LEMMA Fewer ==
    ASSUME NEW f, NEW S
    PROVE  /\ DOMAIN Without(f, S) = DOMAIN f \ S
           /\ \A z \in DOMAIN f \ S : Without(f, S)[z] = f[z]
BY DEF Without, Restrict

LEMMA NoServersIsEmpty == DOMAIN NoServers = {}
BY DEF NoServers

\* Induction, over a set in place of a predicate.
LEMMA Induction ==
    ASSUME NEW S, 0 \in S, \A n \in Nat : n \in S => n + 1 \in S
    PROVE  Nat \subseteq S
<1> DEFINE R == {p \in Nat \X Nat : p[1] < p[2]}
<1>1. IsWellFoundedOn(R, Nat)
  BY NatLessThanWellFounded DEF OpToRel
<1> SUFFICES ASSUME Nat \ S # {} PROVE FALSE
  OBVIOUS
<1>2. PICK x \in Nat \ S : \A y \in Nat \ S : ~(<<y, x>> \in R)
  <2> HIDE DEF R
  <2> QED BY <1>1, WFMin
<1>3. x # 0 /\ x - 1 \in Nat /\ x - 1 < x
  OBVIOUS
<1>4. <<x - 1, x>> \in R
  BY <1>3
<1>5. x - 1 \in S
  BY <1>2, <1>3, <1>4
<1> QED BY <1>3, <1>5

\* The last position of a sequence is its greatest.
LEMMA MaxIsLast ==
    ASSUME NEW n \in Nat, NEW S \in SUBSET (1..n), n \in S
    PROVE  Max(S) = n
<1>1. \A x \in S : x \in Nat /\ n >= x
  OBVIOUS
<1>2. \A x \in S : (\A y \in S : x >= y) => x = n
  BY <1>1
<1> QED BY <1>1, <1>2 DEF Max
------------------------------------------------------------------------------
(***************************************************************************)
(* A deletion only takes away: locations and servers of the hosts its key  *)
(* names, and upstreams those locations used, also when it panics on the   *)
(* way.                                                                    *)
(***************************************************************************)
\* What a deletion at the hosts H may leave of servers and upstreams.
ShrunkAt(H, old, servers, ups) ==
    /\ DOMAIN servers \subseteq DOMAIN old.servers
    /\ \A h \in DOMAIN old.servers \ H : h \in DOMAIN servers /\ servers[h] = old.servers[h]
    /\ \A h \in DOMAIN servers : \A q \in DOMAIN servers[h] :
            q \in DOMAIN old.servers[h] /\ servers[h][q] = old.servers[h][q]
    /\ DOMAIN ups \subseteq DOMAIN old.ups
    /\ \A u \in DOMAIN old.ups :
            \/ u \in DOMAIN ups /\ ups[u] = old.ups[u]
            \/ \E h \in H \cap DOMAIN old.servers : \E q \in DOMAIN old.servers[h] :
                    u = old.servers[h][q].proxy /\ (h \in DOMAIN servers => q \notin DOMAIN servers[h])

StillShrunk(st, H, old) ==
    DOMAIN st = {"servers", "ups", "panicked"} /\ ShrunkAt(H, old, st.servers, st.ups)

PathDeleted(h, st, q) == DeleteLocation(st, h, q)
PathsShrink(h, aim, n, st) == StillShrunk(st, aim.hosts, aim.old)
PathLoop == INSTANCE FoldLemmas WITH Op <- PathDeleted, Last <- Max, Kept <- PathsShrink

\* One location goes, or nothing does.
LEMMA DeleteLocationShrinks ==
    ASSUME NEW H, NEW h \in H, NEW q, NEW old, NEW st, StillShrunk(st, H, old)
    PROVE  StillShrunk(DeleteLocation(st, h, q), H, old)
<1> DEFINE new == DeleteLocation(st, h, q)
<1>1. CASE st.panicked \/ h \notin DOMAIN st.servers \/ q \notin DOMAIN st.servers[h]
  BY <1>1 DEF DeleteLocation, StillShrunk
<1>2. CASE ~(st.panicked \/ h \notin DOMAIN st.servers \/ q \notin DOMAIN st.servers[h])
  <2>1. /\ DOMAIN new = DOMAIN st
        /\ new.servers = [st.servers EXCEPT ![h] = Without(@, {q})]
        /\ new.ups = Without(st.ups, {st.servers[h][q].proxy})
    BY <1>2 DEF DeleteLocation, StillShrunk
  <2> HIDE DEF new
  <2> DEFINE servers == new.servers
             ups     == new.ups
             before  == st.servers
             kept    == Without(st.servers[h], {q})
  <2>2. /\ DOMAIN servers = DOMAIN before /\ servers[h] = kept
        /\ \A g \in DOMAIN before : g # h => servers[g] = before[g]
    BY <1>2, <2>1
  <2>3. DOMAIN kept = DOMAIN before[h] \ {q} /\ \A p \in DOMAIN kept : kept[p] = before[h][p]
    BY DEF Without, Restrict
  <2>4. /\ DOMAIN ups = DOMAIN st.ups \ {before[h][q].proxy}
        /\ \A u \in DOMAIN ups : ups[u] = st.ups[u]
    <3>1. ups = Without(st.ups, {before[h][q].proxy})
      BY <2>1
    <3> QED BY <3>1 DEF Without, Restrict
  <2>5. h \in DOMAIN before /\ q \in DOMAIN before[h]
    BY <1>2
  <2>6. ShrunkAt(H, old, before, st.ups)
    BY DEF StillShrunk
  <2> HIDE DEF servers, ups, before, kept
  <2>7. ASSUME NEW g \in DOMAIN servers, NEW p \in DOMAIN servers[g]
        PROVE  p \in DOMAIN before[g] /\ servers[g][p] = before[g][p]
    BY <2>2, <2>3, <2>7
  <2>8. ShrunkAt(H, old, servers, ups)
    <3>1. \A g \in DOMAIN servers : \A p \in DOMAIN servers[g] :
            p \in DOMAIN old.servers[g] /\ servers[g][p] = old.servers[g][p]
      BY <2>2, <2>6, <2>7 DEF ShrunkAt
    <3>2. \A u \in DOMAIN old.ups :
            \/ u \in DOMAIN ups /\ ups[u] = old.ups[u]
            \/ \E k \in H \cap DOMAIN old.servers : \E p \in DOMAIN old.servers[k] :
                    u = old.servers[k][p].proxy /\ (k \in DOMAIN servers => p \notin DOMAIN servers[k])
      <4>1. h \in H \cap DOMAIN old.servers /\ q \in DOMAIN old.servers[h] /\ before[h][q] = old.servers[h][q]
        BY <2>5, <2>6 DEF ShrunkAt
      <4>2. q \notin DOMAIN servers[h]
        BY <2>2, <2>3
      <4>3. ASSUME NEW k, NEW p, k \in DOMAIN before => p \notin DOMAIN before[k]
            PROVE  k \in DOMAIN servers => p \notin DOMAIN servers[k]
        BY <2>2, <2>7, <4>3
      <4>4. ASSUME NEW u \in DOMAIN old.ups, ~(u \in DOMAIN ups /\ ups[u] = old.ups[u])
            PROVE  \E k \in H \cap DOMAIN old.servers : \E p \in DOMAIN old.servers[k] :
                    u = old.servers[k][p].proxy /\ (k \in DOMAIN servers => p \notin DOMAIN servers[k])
        <5>1. CASE u = before[h][q].proxy
          BY <4>1, <4>2, <5>1
        <5>2. CASE ~(u \in DOMAIN st.ups /\ st.ups[u] = old.ups[u])
          <6>1. PICK k \in H \cap DOMAIN old.servers, p \in UNION {DOMAIN old.servers[g] : g \in DOMAIN old.servers} :
                    /\ p \in DOMAIN old.servers[k] /\ u = old.servers[k][p].proxy
                    /\ k \in DOMAIN before => p \notin DOMAIN before[k]
            BY <2>6, <5>2 DEF ShrunkAt
          <6> QED BY <4>3, <6>1
        <5>3. u \in DOMAIN st.ups /\ st.ups[u] = old.ups[u] => u = before[h][q].proxy
          BY <2>4, <4>4
        <5> QED BY <5>1, <5>2, <5>3
      <4> QED BY <4>4
    <3>3. /\ DOMAIN servers \subseteq DOMAIN old.servers /\ DOMAIN ups \subseteq DOMAIN old.ups
          /\ \A k \in DOMAIN old.servers \ H : k \in DOMAIN servers /\ servers[k] = old.servers[k]
      BY <2>2, <2>4, <2>6 DEF ShrunkAt
    <3> QED BY <3>1, <3>2, <3>3 DEF ShrunkAt
  <2> QED BY <2>1, <2>8 DEF StillShrunk, servers, ups, new
<1> QED BY <1>1, <1>2

\* All paths of one host.
LEMMA PathLoopShrinks ==
    ASSUME NEW H, NEW h \in H, NEW old, NEW st, StillShrunk(st, H, old), NEW T, NEW paths \in Seq(T)
    PROVE  StillShrunk(PathLoop!Folded(h, st, paths), H, old)
<1> DEFINE aim == [hosts |-> H, old |-> old]
<1>1. PathLoop!OneByOne
  BY MaxIsLast, Induction DEF PathLoop!OneByOne
<1>2. PathsShrink(h, aim, 0, st)
  BY DEF PathsShrink
<1>3. PathLoop!EveryTurnKeeps(h, aim, paths)
  BY DeleteLocationShrinks DEF PathLoop!EveryTurnKeeps, PathsShrink, PathDeleted
<1> HIDE DEF aim
<1>4. PathsShrink(h, aim, Len(paths), PathLoop!Folded(h, st, paths))
  BY <1>1, <1>2, <1>3, PathLoop!LoopRule
<1> QED BY <1>4 DEF PathsShrink, aim

\* ... and of every host of the key.
GroupDeleted(none, st, group) == DeleteServer(st, group)
GroupsShrink(none, aim, n, st) == StillShrunk(st, aim.hosts, aim.old)
GroupLoop == INSTANCE FoldLemmas WITH Op <- GroupDeleted, Last <- Max, Kept <- GroupsShrink

LEMMA DeleteServerShrinks ==
    ASSUME NEW H, NEW group, group.host \in H, NEW T, group.paths \in Seq(T),
           NEW old, NEW st, StillShrunk(st, H, old)
    PROVE  StillShrunk(DeleteServer(st, group), H, old)
<1> DEFINE h   == group.host
           st1 == FoldLeft(LAMBDA acc, q : DeleteLocation(acc, h, q), st, group.paths)
           new == DeleteServer(st, group)
<1>0. st1 = PathLoop!Folded(h, st, group.paths)
  BY DEF FoldLeft, MapThenFoldSet, PathLoop!Folded, PathDeleted
<1> HIDE DEF st1
<1>1. StillShrunk(st1, H, old)
  BY <1>0, PathLoopShrinks
<1>2. CASE st1.panicked \/ h \notin DOMAIN st1.servers \/ DOMAIN st1.servers[h] # {}
  <2>1. DOMAIN new = DOMAIN st1 /\ new.servers = st1.servers /\ new.ups = st1.ups
    BY <1>1, <1>2 DEF DeleteServer, StillShrunk, st1
  <2> HIDE DEF new
  <2>2. StillShrunk(new, H, old)
    BY <1>1, <2>1 DEF StillShrunk
  <2> QED BY <2>2 DEF new
<1>3. CASE ~(st1.panicked \/ h \notin DOMAIN st1.servers \/ DOMAIN st1.servers[h] # {})
  <2>1. DOMAIN new = DOMAIN st1 /\ new.servers = Without(st1.servers, {h}) /\ new.ups = st1.ups
    BY <1>1, <1>3 DEF DeleteServer, StillShrunk, st1
  <2> HIDE DEF new
  <2> DEFINE before == st1.servers
             servers == new.servers
  <2>2. DOMAIN servers = DOMAIN before \ {h} /\ \A g \in DOMAIN servers : servers[g] = before[g]
    BY <2>1 DEF Without, Restrict
  <2>3. ShrunkAt(H, old, before, st1.ups)
    BY <1>1 DEF StillShrunk
  <2> HIDE DEF before, servers
  <2>4. ShrunkAt(H, old, servers, st1.ups)
    BY <2>2, <2>3 DEF ShrunkAt
  <2>5. StillShrunk(new, H, old)
    BY <1>1, <2>1, <2>4 DEF StillShrunk, servers
  <2> QED BY <2>5 DEF new
<1> QED BY <1>2, <1>3

\* The groups of a key as a sequence.
GroupsAt(H, groups) ==
    /\ groups \in Seq(ToSet(groups))
    /\ \A n \in DOMAIN groups : groups[n].host \in H /\ groups[n].paths \in Seq(ToSet(groups[n].paths))

LEMMA DeletionShrinks ==
    ASSUME NEW H, NEW groups, GroupsAt(H, groups), NEW old, {"servers", "ups"} \subseteq DOMAIN old
    PROVE  ShrunkAt(H, old, delServerAndUpstreamFromCfg(old, groups).cfg.servers,
                            delServerAndUpstreamFromCfg(old, groups).cfg.ups)
<1> DEFINE aim == [hosts |-> H, old |-> old]
           st0 == [servers |-> old.servers, ups |-> old.ups, panicked |-> FALSE]
           st  == FoldLeft(DeleteServer, st0, groups)
<1>1. GroupLoop!OneByOne
  BY MaxIsLast, Induction DEF GroupLoop!OneByOne
<1>2. GroupsShrink({}, aim, 0, st0)
  BY DEF GroupsShrink, StillShrunk, ShrunkAt
<1>3. GroupLoop!EveryTurnKeeps({}, aim, groups)
  <2>1. ASSUME NEW n \in 1..Len(groups), NEW acc, StillShrunk(acc, H, old)
        PROVE  StillShrunk(DeleteServer(acc, groups[n]), H, old)
    <3>1. groups[n].host \in H /\ groups[n].paths \in Seq(ToSet(groups[n].paths))
      BY DEF GroupsAt
    <3> QED BY <2>1, <3>1, DeleteServerShrinks
  <2> QED BY <2>1 DEF GroupLoop!EveryTurnKeeps, GroupsShrink, GroupDeleted
<1>4. GroupsShrink({}, aim, Len(groups), GroupLoop!Folded({}, st0, groups))
  <2> HIDE DEF aim, st0
  <2>1. groups \in Seq(ToSet(groups))
    BY DEF GroupsAt
  <2> QED BY <1>1, <1>2, <1>3, <2>1, GroupLoop!LoopRule
<1>5. st = GroupLoop!Folded({}, st0, groups)
  BY DEF FoldLeft, MapThenFoldSet, GroupLoop!Folded, GroupDeleted
<1>6. ShrunkAt(H, old, st.servers, st.ups)
  <2> HIDE DEF st, st0
  <2> QED BY <1>4, <1>5 DEF GroupsShrink, StillShrunk
<1>7. /\ delServerAndUpstreamFromCfg(old, groups).cfg.servers = st.servers
      /\ delServerAndUpstreamFromCfg(old, groups).cfg.ups = st.ups
  <2> HIDE DEF st
  <2>1. delServerAndUpstreamFromCfg(old, groups).cfg = [old EXCEPT !.servers = st.servers, !.ups = st.ups]
    BY DEF delServerAndUpstreamFromCfg, st
  <2> QED BY <2>1
<1> QED BY <1>6, <1>7
------------------------------------------------------------------------------
(***************************************************************************)
(* A change of endpoints adds no location and takes none away; at the      *)
(* hosts of the ingress it may lead some to the key's upstream or to 503.  *)
(***************************************************************************)
RedirectedAt(H, up, q, old, servers) ==
    /\ DOMAIN servers = DOMAIN old
    /\ \A h \in DOMAIN old \ H : servers[h] = old[h]
    /\ \A h \in DOMAIN old : DOMAIN servers[h] = DOMAIN old[h]
    /\ \A h \in DOMAIN old : \A p \in DOMAIN old[h] :
        /\ DOMAIN servers[h][p] = {"proxy", "par"}
        /\ servers[h][p].par = old[h][p].par
        /\ servers[h][p].proxy \in {old[h][p].proxy, up, Unavailable}
        /\ p # q => servers[h][p] = old[h][p]

AreLocations(servers) ==
    \A h \in DOMAIN servers : \A q \in DOMAIN servers[h] : DOMAIN servers[h][q] = {"proxy", "par"}

StillRedirected(st, H, up, q, old) ==
    DOMAIN st = {"servers", "par", "panicked"} /\ RedirectedAt(H, up, q, old, st.servers)

RedirectPath(c, st, p) ==
    IF p.svc = c.svc THEN UpdateLocation(st, c.host, p.upar, c.up, c.path, c.addresses) ELSE st
PathsRedirect(c, aim, n, st) == StillRedirected(st, aim.hosts, c.up, c.path, aim.old)
UpdateLoop == INSTANCE FoldLemmas WITH Op <- RedirectPath, Last <- Max, Kept <- PathsRedirect

\* One location of a host of the ingress, or none.
LEMMA UpdateLocationRedirects ==
    ASSUME NEW H, NEW h \in H, NEW par, NEW up, NEW q, NEW addresses, NEW old, NEW st,
           StillRedirected(st, H, up, q, old)
    PROVE  StillRedirected(UpdateLocation(st, h, par, up, q, addresses), H, up, q, old)
<1> DEFINE new     == UpdateLocation(st, h, par, up, q, addresses)
           present == h \in DOMAIN st.servers /\ q \in DOMAIN st.servers[h]
<1>1. CASE st.panicked \/ ~present
  <2>1. DOMAIN new = DOMAIN st /\ new.servers = st.servers
    BY <1>1 DEF UpdateLocation, StillRedirected
  <2> HIDE DEF new
  <2>2. StillRedirected(new, H, up, q, old)
    BY <2>1 DEF StillRedirected
  <2> QED BY <2>2 DEF new
<1>2. CASE ~st.panicked /\ present
  <2> DEFINE to == IF addresses = {} THEN Unavailable ELSE up
             before == st.servers
             servers == new.servers
  <2>1. DOMAIN new = DOMAIN st /\ servers = [before EXCEPT ![h][q].proxy = to]
    BY <1>2 DEF UpdateLocation, StillRedirected
  <2>2. RedirectedAt(H, up, q, old, before) /\ h \in DOMAIN before /\ q \in DOMAIN before[h]
    BY <1>2 DEF StillRedirected
  <2>3. to \in {up, Unavailable}
    OBVIOUS
  <2> HIDE DEF new, to, before, servers
  <2>4. /\ DOMAIN servers = DOMAIN before /\ DOMAIN servers[h] = DOMAIN before[h]
        /\ \A g \in DOMAIN before : g # h => servers[g] = before[g]
        /\ \A p \in DOMAIN before[h] : p # q => servers[h][p] = before[h][p]
        /\ servers[h][q] = [before[h][q] EXCEPT !.proxy = to]
    BY <2>1, <2>2
  <2>5. DOMAIN before[h][q] = {"proxy", "par"} /\ h \in DOMAIN old /\ q \in DOMAIN old[h]
    BY <2>2 DEF RedirectedAt
  <2>6. DOMAIN servers[h][q] = {"proxy", "par"} /\ servers[h][q].par = before[h][q].par /\ servers[h][q].proxy = to
    BY <2>4, <2>5
  <2>7. ASSUME NEW g \in DOMAIN old, NEW p \in DOMAIN old[g]
        PROVE  /\ DOMAIN servers[g][p] = {"proxy", "par"}
               /\ servers[g][p].par = old[g][p].par
               /\ servers[g][p].proxy \in {old[g][p].proxy, up, Unavailable}
               /\ p # q => servers[g][p] = old[g][p]
    <3>1. CASE g = h /\ p = q
      BY <2>2, <2>3, <2>5, <2>6, <3>1 DEF RedirectedAt
    <3>2. CASE ~(g = h /\ p = q)
      <4>1. g \in DOMAIN before /\ p \in DOMAIN before[g]
        BY <2>2 DEF RedirectedAt
      <4>2. servers[g][p] = before[g][p]
        BY <2>4, <3>2, <4>1
      <4> QED BY <2>2, <4>2 DEF RedirectedAt
    <3> QED BY <3>1, <3>2
  <2>8. RedirectedAt(H, up, q, old, servers)
    <3>1. /\ DOMAIN servers = DOMAIN old
          /\ \A g \in DOMAIN old \ H : servers[g] = old[g]
          /\ \A g \in DOMAIN old : DOMAIN servers[g] = DOMAIN old[g]
      BY <2>2, <2>4 DEF RedirectedAt
    <3> QED BY <2>7, <3>1 DEF RedirectedAt
  <2>9. StillRedirected(new, H, up, q, old)
    BY <2>1, <2>8 DEF StillRedirected, servers
  <2> QED BY <2>9 DEF new
<1> QED BY <1>1, <1>2

\* All paths of a rule ...
LEMMA UpdateLoopRedirects ==
    ASSUME NEW H, NEW c, c.host \in H, NEW old, NEW st, StillRedirected(st, H, c.up, c.path, old),
           NEW T, NEW paths \in Seq(T)
    PROVE  StillRedirected(UpdateLoop!Folded(c, st, paths), H, c.up, c.path, old)
<1> DEFINE aim == [hosts |-> H, old |-> old]
<1>1. UpdateLoop!OneByOne
  BY MaxIsLast, Induction DEF UpdateLoop!OneByOne
<1>2. PathsRedirect(c, aim, 0, st)
  BY DEF PathsRedirect
<1>3. UpdateLoop!EveryTurnKeeps(c, aim, paths)
  BY UpdateLocationRedirects DEF UpdateLoop!EveryTurnKeeps, PathsRedirect, RedirectPath
<1> HIDE DEF aim
<1>4. PathsRedirect(c, aim, Len(paths), UpdateLoop!Folded(c, st, paths))
  BY <1>1, <1>2, <1>3, UpdateLoop!LoopRule
<1> QED BY <1>4 DEF PathsRedirect, aim

\* ... and all rules of a specification.
RedirectRule(c, st, r) == UpdateRule(st, r, c.svc, c.up, c.path, c.addresses)
RulesRedirect(c, aim, n, st) == StillRedirected(st, aim.hosts, c.up, c.path, aim.old)
RuleLoop == INSTANCE FoldLemmas WITH Op <- RedirectRule, Last <- Max, Kept <- RulesRedirect

\* The rules of a specification, as a sequence.
RulesAt(H, spec) ==
    /\ spec \in Seq(ToSet(spec))
    /\ \A r \in ToSet(spec) : r.host \in H /\ r.paths \in Seq(ToSet(r.paths))

LEMMA EndpointsRedirect ==
    ASSUME NEW H, NEW spec, RulesAt(H, spec), NEW old, {"servers", "ups"} \subseteq DOMAIN old,
           AreLocations(old.servers), NEW ing, NEW svc, NEW q, NEW addresses
    PROVE  LET out == updateEndpointsToCfg(old, ing, svc, q, spec, addresses)
               up  == getProxyPass(ing, svc, q)
           IN  /\ RedirectedAt(H, up, q, old.servers, out.cfg.servers)
               /\ DOMAIN out.cfg.ups \subseteq DOMAIN old.ups \cup {up}
               /\ \A u \in DOMAIN old.ups \ {up} : u \in DOMAIN out.cfg.ups /\ out.cfg.ups[u] = old.ups[u]
<1> DEFINE up  == getProxyPass(ing, svc, q)
           c   == [svc |-> svc, up |-> up, path |-> q, addresses |-> addresses]
           aim == [hosts |-> H, old |-> old.servers]
           st0 == [servers |-> old.servers, par |-> NoParam, panicked |-> FALSE]
           st  == RuleLoop!Folded(c, st0, spec)
           out == updateEndpointsToCfg(old, ing, svc, q, spec, addresses)
           ups == IF st.panicked THEN old.ups
                  ELSE IF addresses = {} THEN Without(old.ups, {up})
                  ELSE With(old.ups, up, [eps |-> addresses, par |-> st.par])
<1>1. RuleLoop!OneByOne
  BY MaxIsLast, Induction DEF RuleLoop!OneByOne
<1>2. RulesRedirect(c, aim, 0, st0)
  BY DEF RulesRedirect, StillRedirected, RedirectedAt, AreLocations
<1>3. RuleLoop!EveryTurnKeeps(c, aim, spec)
  <2>1. ASSUME NEW n \in 1..Len(spec), NEW acc, StillRedirected(acc, H, up, q, old.servers)
        PROVE  StillRedirected(RedirectRule(c, acc, spec[n]), H, up, q, old.servers)
    <3> DEFINE rule == [svc |-> svc, host |-> spec[n].host, up |-> up, path |-> q, addresses |-> addresses]
    <3>1. spec[n].host \in H /\ spec[n].paths \in Seq(ToSet(spec[n].paths))
      <4>1. n \in DOMAIN spec
        BY DEF RulesAt
      <4> QED BY <4>1 DEF RulesAt, ToSet
    <3>2. RedirectRule(c, acc, spec[n]) = UpdateLoop!Folded(rule, acc, spec[n].paths)
      BY DEF RedirectRule, UpdateRule, FoldLeft, MapThenFoldSet, UpdateLoop!Folded, RedirectPath
    <3>3. rule.host \in H /\ rule.up = up /\ rule.path = q
      BY <3>1
    <3> HIDE DEF rule, c, up
    <3>4. StillRedirected(UpdateLoop!Folded(rule, acc, spec[n].paths), H, up, q, old.servers)
      BY <2>1, <3>1, <3>3, UpdateLoopRedirects
    <3> QED BY <3>2, <3>4
  <2>2. c.up = up /\ c.path = q
    OBVIOUS
  <2> HIDE DEF c, up
  <2> QED BY <2>1, <2>2 DEF RuleLoop!EveryTurnKeeps, RulesRedirect
<1>4. RulesRedirect(c, aim, Len(spec), st)
  <2> HIDE DEF aim, st0, c
  <2>1. spec \in Seq(ToSet(spec))
    BY DEF RulesAt
  <2> QED BY <1>1, <1>2, <1>3, <2>1, RuleLoop!LoopRule
<1>5. out.cfg = [old EXCEPT !.servers = st.servers, !.ups = ups]
  BY DEF updateEndpointsToCfg, FoldLeft, MapThenFoldSet, RuleLoop!Folded, RedirectRule
<1> HIDE DEF st
<1>6. RedirectedAt(H, up, q, old.servers, st.servers)
  <2>1. c.up = up /\ c.path = q
    OBVIOUS
  <2> QED BY <1>4, <2>1 DEF RulesRedirect, StillRedirected
<1> HIDE DEF up, out, c
<1>7. /\ DOMAIN ups \subseteq DOMAIN old.ups \cup {up}
      /\ \A u \in DOMAIN old.ups \ {up} : u \in DOMAIN ups /\ ups[u] = old.ups[u]
  BY DEF Without, Restrict, With
<1> HIDE DEF ups
<1>8. out.cfg.servers = st.servers /\ out.cfg.ups = ups
  BY <1>5
<1> QED BY <1>6, <1>7, <1>8 DEF up, out
------------------------------------------------------------------------------
(***************************************************************************)
(* Parsing an ingress: its servers are those of its rules, a location is   *)
(* that of one of the rule's paths, and the upstreams are those of the     *)
(* paths whose services have addresses.                                    *)
(***************************************************************************)
\* The paths of a specification are the paths of its rules.
MorePaths(none, ps, r) == ps \o r.paths
PathsGathered(none, spec, n, ps) ==
    /\ ps \in Seq(UNION {ToSet(r.paths) : r \in ToSet(spec)})
    /\ \A k \in 1..n : ToSet(spec[k].paths) \subseteq ToSet(ps)
PathsLoop == INSTANCE FoldLemmas WITH Op <- MorePaths, Last <- Max, Kept <- PathsGathered

AreRules(spec) == spec \in Seq(ToSet(spec)) /\ \A r \in ToSet(spec) : r.paths \in Seq(ToSet(r.paths))

LEMMA ToSetOfConcat ==
    ASSUME NEW S, NEW s \in Seq(S), NEW t \in Seq(S)
    PROVE  ToSet(s \o t) = ToSet(s) \cup ToSet(t) /\ s \o t \in Seq(S)
<1>1. /\ DOMAIN s = 1..Len(s) /\ DOMAIN t = 1..Len(t) /\ Len(s) \in Nat /\ Len(t) \in Nat
      /\ DOMAIN (s \o t) = 1..(Len(s) + Len(t))
      /\ s \o t \in Seq(S)
  OBVIOUS
<1>2. \A k \in 1..Len(s) : k \in DOMAIN (s \o t) /\ (s \o t)[k] = s[k]
  BY <1>1
<1>3. \A k \in 1..Len(t) : Len(s) + k \in DOMAIN (s \o t) /\ (s \o t)[Len(s) + k] = t[k]
  BY <1>1
<1>4. \A k \in DOMAIN (s \o t) : k \in 1..Len(s) \/ \E m \in 1..Len(t) : (s \o t)[k] = t[m]
  <2> SUFFICES ASSUME NEW k \in DOMAIN (s \o t), k \notin 1..Len(s)
               PROVE  \E m \in 1..Len(t) : (s \o t)[k] = t[m]
    OBVIOUS
  <2>1. k - Len(s) \in 1..Len(t) /\ Len(s) + (k - Len(s)) = k
    BY <1>1
  <2> QED BY <1>3, <2>1
<1>5. ToSet(s \o t) \subseteq ToSet(s) \cup ToSet(t)
  BY <1>1, <1>2, <1>4 DEF ToSet
<1>6. ToSet(s) \cup ToSet(t) \subseteq ToSet(s \o t)
  BY <1>1, <1>2, <1>3 DEF ToSet
<1> QED BY <1>1, <1>5, <1>6

LEMMA PathsOfRules ==
    ASSUME NEW spec, AreRules(spec)
    PROVE  /\ PathsOf(spec) \in Seq(ToSet(PathsOf(spec)))
           /\ ToSet(PathsOf(spec)) = UNION {ToSet(r.paths) : r \in ToSet(spec)}
<1> DEFINE T  == UNION {ToSet(r.paths) : r \in ToSet(spec)}
           ps == PathsLoop!Folded({}, <<>>, spec)
<1>1. PathsLoop!OneByOne
  BY MaxIsLast, Induction DEF PathsLoop!OneByOne
<1>2. PathsGathered({}, spec, 0, <<>>)
  BY DEF PathsGathered
<1>3. PathsLoop!EveryTurnKeeps({}, spec, spec)
  <2>1. ASSUME NEW n \in 1..Len(spec), NEW acc, PathsGathered({}, spec, n - 1, acc)
        PROVE  PathsGathered({}, spec, n, acc \o spec[n].paths)
    <3>1. n \in DOMAIN spec /\ spec[n] \in ToSet(spec) /\ n \in Nat
      <4>1. n \in DOMAIN spec
        BY DEF AreRules
      <4> QED BY <4>1 DEF ToSet, AreRules
    <3>2. spec[n].paths \in Seq(ToSet(spec[n].paths)) /\ ToSet(spec[n].paths) \subseteq T
      BY <3>1 DEF AreRules
    <3>3. acc \in Seq(T) /\ spec[n].paths \in Seq(T)
      BY <2>1, <3>2 DEF PathsGathered
    <3> HIDE DEF T
    <3>4. /\ acc \o spec[n].paths \in Seq(T)
          /\ ToSet(acc \o spec[n].paths) = ToSet(acc) \cup ToSet(spec[n].paths)
      BY <3>3, ToSetOfConcat
    <3>5. \A k \in 1..n : k = n \/ k \in 1..(n - 1)
      BY <3>1
    <3>6. \A k \in 1..n : ToSet(spec[k].paths) \subseteq ToSet(acc \o spec[n].paths)
      BY <2>1, <3>4, <3>5 DEF PathsGathered
    <3> QED BY <3>4, <3>6 DEF PathsGathered, T
  <2> QED BY <2>1 DEF PathsLoop!EveryTurnKeeps, MorePaths
<1>4. PathsGathered({}, spec, Len(spec), ps)
  <2>1. spec \in Seq(ToSet(spec))
    BY DEF AreRules
  <2> QED BY <1>1, <1>2, <1>3, <2>1, PathsLoop!LoopRule
<1>5. PathsOf(spec) = ps
  BY DEF PathsOf, FoldLeft, MapThenFoldSet, PathsLoop!Folded, MorePaths
<1> HIDE DEF ps
<1>6. ps \in Seq(T)
  BY <1>4 DEF PathsGathered
<1>7. DOMAIN ps = 1..Len(ps) /\ ps \in Seq(ToSet(ps))
  <2> HIDE DEF T
  <2>1. Len(ps) \in Nat /\ DOMAIN ps = 1..Len(ps) /\ \A k \in 1..Len(ps) : ps[k] \in ToSet(ps)
    BY <1>6 DEF ToSet
  <2>2. ps = [k \in 1..Len(ps) |-> ps[k]]
    BY <1>6
  <2> QED BY <2>1, <2>2
<1>8. ToSet(ps) \subseteq T
  <2> HIDE DEF T
  <2> QED BY <1>6, <1>7 DEF ToSet
<1>9. T \subseteq ToSet(ps)
  <2>1. ASSUME NEW r \in ToSet(spec) PROVE ToSet(r.paths) \subseteq ToSet(ps)
    <3>1. PICK k \in 1..Len(spec) : r = spec[k]
      BY DEF ToSet, AreRules
    <3> QED BY <1>4, <3>1 DEF PathsGathered
  <2> QED BY <2>1
<1> QED BY <1>5, <1>7, <1>8, <1>9

\* The locations of a rule.
PlaceLocation(c, locs, p) == With(locs, p.path, Location(c.ing, p, c.addresses))
LocationsPlaced(c, paths, n, locs) ==
    /\ DOMAIN locs = {paths[k].path : k \in 1..n}
    /\ \A q \in DOMAIN locs : \E k \in 1..n :
            paths[k].path = q /\ locs[q] = Location(c.ing, paths[k], c.addresses)
LocationLoop == INSTANCE FoldLemmas WITH Op <- PlaceLocation, Last <- Max, Kept <- LocationsPlaced

LocationsFrom(ing, paths, addresses, locs) ==
    /\ DOMAIN locs = {p.path : p \in ToSet(paths)}
    /\ \A q \in DOMAIN locs : \E p \in ToSet(paths) : p.path = q /\ locs[q] = Location(ing, p, addresses)

LEMMA LocationsOfPaths ==
    ASSUME NEW ing, NEW T, NEW paths \in Seq(T), NEW addresses
    PROVE  LocationsFrom(ing, paths, addresses, Locations(ing, paths, addresses))
<1> DEFINE c    == [ing |-> ing, addresses |-> addresses]
           locs == LocationLoop!Folded(c, NoServers, paths)
<1>1. LocationLoop!OneByOne
  BY MaxIsLast, Induction DEF LocationLoop!OneByOne
<1>2. LocationsPlaced(c, paths, 0, NoServers)
  BY NoServersIsEmpty DEF LocationsPlaced
<1>3. LocationLoop!EveryTurnKeeps(c, paths, paths)
  <2> HIDE DEF c
  <2>1. ASSUME NEW n \in 1..Len(paths), NEW acc, LocationsPlaced(c, paths, n - 1, acc)
        PROVE  LocationsPlaced(c, paths, n, PlaceLocation(c, acc, paths[n]))
    <3> DEFINE loc == Location(c.ing, paths[n], c.addresses)
               new == With(acc, paths[n].path, loc)
    <3>1. \A k \in 1..n : k = n \/ k \in 1..(n - 1)
      OBVIOUS
    <3>2. \A k \in 1..(n - 1) : k \in 1..n
      OBVIOUS
    <3> HIDE DEF loc, new
    <3>3. /\ DOMAIN new = {paths[n].path} \cup DOMAIN acc /\ new[paths[n].path] = loc
          /\ \A q \in DOMAIN acc : q # paths[n].path => new[q] = acc[q]
      BY DEF new, With
    <3>4. DOMAIN new = {paths[k].path : k \in 1..n}
      BY <2>1, <3>1, <3>2, <3>3 DEF LocationsPlaced
    <3>5. \A q \in DOMAIN new : \E k \in 1..n :
            paths[k].path = q /\ new[q] = Location(c.ing, paths[k], c.addresses)
      BY <2>1, <3>1, <3>2, <3>3 DEF LocationsPlaced, loc
    <3> QED BY <3>4, <3>5 DEF LocationsPlaced, PlaceLocation, new, loc
  <2> QED BY <2>1 DEF LocationLoop!EveryTurnKeeps
<1>4. LocationsPlaced(c, paths, Len(paths), locs)
  <2> HIDE DEF c
  <2> QED BY <1>1, <1>2, <1>3, LocationLoop!LoopRule
<1>5. Locations(ing, paths, addresses) = locs
  BY DEF Locations, FoldLeft, MapThenFoldSet, LocationLoop!Folded, PlaceLocation
<1>6. DOMAIN paths = 1..Len(paths)
  OBVIOUS
<1> HIDE DEF locs
<1>7. c.ing = ing /\ c.addresses = addresses
  OBVIOUS
<1> HIDE DEF c
<1>8. LocationsFrom(ing, paths, addresses, locs)
  BY <1>4, <1>6, <1>7 DEF LocationsPlaced, LocationsFrom, ToSet
<1> QED BY <1>5, <1>8

\* The servers: one for every rule with paths; if no two rules are for one host,
\* no two servers are, and if no host has a path twice, no path has two servers.
ServerOf(ing, r, addresses) == [host |-> r.host, locs |-> Locations(ing, r.paths, addresses)]

OneRulePerHost(spec) ==
    \A k, n \in DOMAIN spec : spec[k].host = spec[n].host => k = n

OneServerPerHost(servers) ==
    \A a, b \in DOMAIN servers : servers[a].host = servers[b].host => a = b

PathsOnce(spec) ==
    \A k, n \in DOMAIN spec : \A a \in DOMAIN spec[k].paths, b \in DOMAIN spec[n].paths :
        spec[k].host = spec[n].host /\ spec[k].paths[a].path = spec[n].paths[b].path => k = n /\ a = b

ServersApart(servers) ==
    \A a, b \in DOMAIN servers : a # b /\ servers[a].host = servers[b].host =>
        DOMAIN servers[a].locs \cap DOMAIN servers[b].locs = {}

AddServer(c, servers, r) ==
    IF r.paths = <<>> THEN servers ELSE Append(servers, ServerOf(c.ing, r, c.addresses))
ServersAdded(c, spec, n, servers) ==
    /\ servers \in Seq({ServerOf(c.ing, r, c.addresses) : r \in ToSet(spec)})
    /\ \A a \in DOMAIN servers : \E k \in 1..n : servers[a] = ServerOf(c.ing, spec[k], c.addresses)
    /\ \A k \in 1..n : spec[k].paths # <<>> =>
            \E a \in DOMAIN servers : servers[a] = ServerOf(c.ing, spec[k], c.addresses)
    /\ OneRulePerHost(spec) => OneServerPerHost(servers)
    /\ PathsOnce(spec) => ServersApart(servers)
ServerLoop == INSTANCE FoldLemmas WITH Op <- AddServer, Last <- Max, Kept <- ServersAdded

LEMMA AddServerAdds ==
    ASSUME NEW c, NEW spec, AreRules(spec), NEW n \in 1..Len(spec), NEW acc,
           ServersAdded(c, spec, n - 1, acc)
    PROVE  ServersAdded(c, spec, n, AddServer(c, acc, spec[n]))
<1> DEFINE T   == {ServerOf(c.ing, r, c.addresses) : r \in ToSet(spec)}
           new == ServerOf(c.ing, spec[n], c.addresses)
<1>1. /\ n \in Nat /\ DOMAIN spec = 1..Len(spec) /\ spec[n] \in ToSet(spec)
      /\ \A k \in 1..n : k = n \/ k \in 1..(n - 1)
      /\ \A k \in 1..(n - 1) : k \in 1..n /\ k # n /\ k \in 1..Len(spec)
  <2>1. DOMAIN spec = 1..Len(spec) /\ Len(spec) \in Nat
    BY DEF AreRules
  <2> QED BY <2>1 DEF ToSet
<1>2. CASE spec[n].paths = <<>>
  <2>1. AddServer(c, acc, spec[n]) = acc
    BY <1>2 DEF AddServer
  <2> QED BY <1>1, <1>2, <2>1 DEF ServersAdded
<1>3. CASE spec[n].paths # <<>>
  <2>1. AddServer(c, acc, spec[n]) = Append(acc, new)
    BY <1>3 DEF AddServer
  <2>2. acc \in Seq(T) /\ new \in T
    BY <1>1 DEF ServersAdded
  <2> DEFINE after == Append(acc, new)
  <2> HIDE DEF T
  <2>3. /\ after \in Seq(T) /\ Len(acc) \in Nat /\ DOMAIN acc = 1..Len(acc)
        /\ DOMAIN after = 1..(Len(acc) + 1) /\ after[Len(acc) + 1] = new
        /\ \A a \in DOMAIN acc : a \in DOMAIN after /\ after[a] = acc[a] /\ a # Len(acc) + 1
        /\ \A a \in DOMAIN after : a \in DOMAIN acc \/ a = Len(acc) + 1
    BY <2>2
  <2>4. new.host = spec[n].host
    BY DEF ServerOf
  <2> HIDE DEF after, new
  <2>5. \A a \in DOMAIN after : \E k \in 1..n : after[a] = ServerOf(c.ing, spec[k], c.addresses)
    <3>1. ASSUME NEW a \in DOMAIN acc
          PROVE  \E k \in 1..n : after[a] = ServerOf(c.ing, spec[k], c.addresses)
      <4>1. PICK k \in 1..(n - 1) : acc[a] = ServerOf(c.ing, spec[k], c.addresses)
        BY DEF ServersAdded
      <4> QED BY <1>1, <2>3, <4>1
    <3>2. after[Len(acc) + 1] = ServerOf(c.ing, spec[n], c.addresses) /\ n \in 1..n
      BY <1>1, <2>3 DEF new
    <3> QED BY <2>3, <3>1, <3>2
  <2>6. ASSUME NEW k \in 1..n, spec[k].paths # <<>>
        PROVE  \E a \in DOMAIN after : after[a] = ServerOf(c.ing, spec[k], c.addresses)
    <3>1. CASE k = n
      BY <2>3, <3>1 DEF new
    <3>2. CASE k \in 1..(n - 1)
      <4>1. PICK a \in DOMAIN acc : acc[a] = ServerOf(c.ing, spec[k], c.addresses)
        BY <2>6, <3>2 DEF ServersAdded
      <4> QED BY <2>3, <4>1
    <3> QED BY <1>1, <3>1, <3>2
  <2>7. ASSUME OneRulePerHost(spec) PROVE OneServerPerHost(after)
    <3>1. OneServerPerHost(acc)
      BY <2>7 DEF ServersAdded
    <3>2. ASSUME NEW a \in DOMAIN acc PROVE acc[a].host # new.host
      <4>1. PICK k \in 1..(n - 1) : acc[a] = ServerOf(c.ing, spec[k], c.addresses)
        BY DEF ServersAdded
      <4>2. acc[a].host = spec[k].host
        BY <4>1 DEF ServerOf
      <4> QED BY <1>1, <2>4, <2>7, <4>2 DEF OneRulePerHost
    <3> QED BY <2>3, <3>1, <3>2 DEF OneServerPerHost
  <2>8. after \in Seq({ServerOf(c.ing, r, c.addresses) : r \in ToSet(spec)})
    BY <2>3 DEF T
  <2>9. ASSUME PathsOnce(spec) PROVE ServersApart(after)
    <3>1. ServersApart(acc)
      BY <2>9 DEF ServersAdded
    <3>2. ASSUME NEW k \in 1..n, NEW q \in DOMAIN ServerOf(c.ing, spec[k], c.addresses).locs
          PROVE  \E i \in DOMAIN spec[k].paths : spec[k].paths[i].path = q
      <4>1. k \in DOMAIN spec
        BY <1>1
      <4>2. spec[k] \in ToSet(spec)
        BY <4>1 DEF ToSet
      <4>3. spec[k].paths \in Seq(ToSet(spec[k].paths))
        BY <4>2 DEF AreRules
      <4>4. LocationsFrom(c.ing, spec[k].paths, c.addresses, Locations(c.ing, spec[k].paths, c.addresses))
        BY <4>3, LocationsOfPaths
      <4>5. q \in DOMAIN Locations(c.ing, spec[k].paths, c.addresses)
        BY <3>2 DEF ServerOf
      <4> QED BY <4>4, <4>5 DEF LocationsFrom, ToSet
    <3>3. ASSUME NEW a \in DOMAIN acc, acc[a].host = new.host
          PROVE  DOMAIN acc[a].locs \cap DOMAIN new.locs = {}
      <4> SUFFICES ASSUME NEW q \in DOMAIN acc[a].locs, q \in DOMAIN new.locs PROVE FALSE
        OBVIOUS
      <4>1. PICK k \in 1..(n - 1) : acc[a] = ServerOf(c.ing, spec[k], c.addresses)
        BY DEF ServersAdded
      <4>2. acc[a].host = spec[k].host
        BY <4>1 DEF ServerOf
      <4>3. k \in DOMAIN spec /\ n \in DOMAIN spec /\ k # n /\ k \in 1..n /\ n \in 1..n
        BY <1>1
      <4>4. PICK i \in DOMAIN spec[k].paths : spec[k].paths[i].path = q
        BY <3>2, <4>1, <4>3
      <4>5. PICK j \in DOMAIN spec[n].paths : spec[n].paths[j].path = q
        BY <3>2, <4>3 DEF new
      <4>6. spec[k].host = spec[n].host /\ spec[k].paths[i].path = spec[n].paths[j].path
        BY <2>4, <3>3, <4>2, <4>4, <4>5
      <4>7. k = n
        BY <2>9, <4>3, <4>4, <4>5, <4>6 DEF PathsOnce
      <4> QED BY <4>3, <4>7
    <3> QED BY <2>3, <3>1, <3>3 DEF ServersApart
  <2>10. ServersAdded(c, spec, n, after)
    BY <2>5, <2>6, <2>7, <2>8, <2>9 DEF ServersAdded
  <2> QED BY <2>1, <2>10 DEF after
<1> QED BY <1>2, <1>3

LEMMA ServersOfRules ==
    ASSUME NEW ing, NEW spec, AreRules(spec), NEW addresses
    PROVE  ServersAdded([ing |-> ing, addresses |-> addresses], spec, Len(spec),
                        ParsedServers(ing, spec, addresses))
<1> DEFINE c       == [ing |-> ing, addresses |-> addresses]
           servers == ServerLoop!Folded(c, <<>>, spec)
<1>1. ServerLoop!OneByOne
  BY MaxIsLast, Induction DEF ServerLoop!OneByOne
<1>2. ServersAdded(c, spec, 0, <<>>)
  BY DEF ServersAdded, OneServerPerHost, ServersApart
<1>3. ServerLoop!EveryTurnKeeps(c, spec, spec)
  BY AddServerAdds DEF ServerLoop!EveryTurnKeeps
<1>4. ServersAdded(c, spec, Len(spec), servers)
  <2> HIDE DEF c
  <2>1. spec \in Seq(ToSet(spec))
    BY DEF AreRules
  <2> QED BY <1>1, <1>2, <1>3, <2>1, ServerLoop!LoopRule
<1>5. ParsedServers(ing, spec, addresses) = servers
  BY DEF ParsedServers, FoldLeft, MapThenFoldSet, ServerLoop!Folded, AddServer, ServerOf
<1> QED BY <1>4, <1>5

\* The upstreams: one for every path whose service has addresses.
UpstreamOf(ing, p) == getProxyPass(ing, p.svc, p.path)
AddUpstream(c, ups, p) ==
    IF c.addresses[p.svc] = {} THEN ups
    ELSE With(ups, getProxyPass(c.ing, p.svc, p.path), [eps |-> c.addresses[p.svc], par |-> p.upar])
UpstreamsAdded(c, paths, n, ups) ==
    /\ \A u \in DOMAIN ups : \E k \in 1..n :
        /\ c.addresses[paths[k].svc] # {} /\ u = UpstreamOf(c.ing, paths[k])
        /\ ups[u] = [eps |-> c.addresses[paths[k].svc], par |-> paths[k].upar]
    /\ \A k \in 1..n : c.addresses[paths[k].svc] # {} => UpstreamOf(c.ing, paths[k]) \in DOMAIN ups
UpstreamLoop == INSTANCE FoldLemmas WITH Op <- AddUpstream, Last <- Max, Kept <- UpstreamsAdded

LEMMA AddUpstreamAdds ==
    ASSUME NEW c, NEW paths, NEW n \in Nat, n >= 1, NEW acc, UpstreamsAdded(c, paths, n - 1, acc)
    PROVE  UpstreamsAdded(c, paths, n, AddUpstream(c, acc, paths[n]))
<1> DEFINE p == paths[n]
           u == UpstreamOf(c.ing, p)
           e == [eps |-> c.addresses[p.svc], par |-> p.upar]
<1>1. \A k \in 1..n : k = n \/ k \in 1..(n - 1)
  OBVIOUS
<1>2. n \in 1..n /\ \A k \in 1..(n - 1) : k \in 1..n
  OBVIOUS
<1>3. CASE c.addresses[p.svc] = {}
  BY <1>1, <1>2, <1>3 DEF AddUpstream, UpstreamsAdded
<1>4. CASE c.addresses[p.svc] # {}
  <2> DEFINE new == AddUpstream(c, acc, p)
  <2>1. DOMAIN new = {u} \cup DOMAIN acc /\ new[u] = e /\ \A v \in DOMAIN acc : v # u => new[v] = acc[v]
    BY <1>4 DEF AddUpstream, With, UpstreamOf
  <2> HIDE DEF u, e, new
  <2>2. ASSUME NEW v \in DOMAIN new
        PROVE  \E k \in 1..n :
                /\ c.addresses[paths[k].svc] # {} /\ v = UpstreamOf(c.ing, paths[k])
                /\ new[v] = [eps |-> c.addresses[paths[k].svc], par |-> paths[k].upar]
    <3>1. CASE v = u
      BY <1>2, <1>4, <2>1, <3>1 DEF u, e
    <3>2. CASE v # u
      <4>1. v \in DOMAIN acc /\ new[v] = acc[v]
        BY <2>1, <3>2
      <4>2. PICK k \in 1..(n - 1) :
                /\ c.addresses[paths[k].svc] # {} /\ v = UpstreamOf(c.ing, paths[k])
                /\ acc[v] = [eps |-> c.addresses[paths[k].svc], par |-> paths[k].upar]
        BY <4>1 DEF UpstreamsAdded
      <4> QED BY <1>2, <4>1, <4>2
    <3> QED BY <3>1, <3>2
  <2>3. \A k \in 1..n : c.addresses[paths[k].svc] # {} => UpstreamOf(c.ing, paths[k]) \in DOMAIN new
    BY <1>1, <2>1 DEF UpstreamsAdded, u
  <2> QED BY <2>2, <2>3 DEF UpstreamsAdded, new
<1> QED BY <1>3, <1>4

LEMMA UpstreamsOfRules ==
    ASSUME NEW ing, NEW spec, AreRules(spec), NEW addresses
    PROVE  UpstreamsAdded([ing |-> ing, addresses |-> addresses], PathsOf(spec), Len(PathsOf(spec)),
                          ParsedUpstreams(ing, spec, addresses))
<1> DEFINE c     == [ing |-> ing, addresses |-> addresses]
           paths == PathsOf(spec)
           ups   == UpstreamLoop!Folded(c, NoServers, paths)
<1>1. UpstreamLoop!OneByOne
  BY MaxIsLast, Induction DEF UpstreamLoop!OneByOne
<1>2. UpstreamsAdded(c, paths, 0, NoServers)
  BY NoServersIsEmpty DEF UpstreamsAdded
<1>3. UpstreamLoop!EveryTurnKeeps(c, paths, paths)
  BY AddUpstreamAdds DEF UpstreamLoop!EveryTurnKeeps
<1>4. UpstreamsAdded(c, paths, Len(paths), ups)
  <2>1. paths \in Seq(ToSet(paths))
    BY PathsOfRules
  <2> HIDE DEF c, paths
  <2> QED BY <1>1, <1>2, <1>3, <2>1, UpstreamLoop!LoopRule
<1>5. ParsedUpstreams(ing, spec, addresses) = ups
  BY DEF ParsedUpstreams, FoldLeft, MapThenFoldSet, UpstreamLoop!Folded, AddUpstream
<1> QED BY <1>4, <1>5

\* The map that checkIngressValid builds from the servers: it has none but
\* these, and with one server per host it has all of them.
AddHost(none, m, s) == With(m, s.host, s.locs)
HostsMapped(none, servers, n, m) ==
    /\ \A h \in DOMAIN m : \E a \in 1..n : servers[a].host = h /\ m[h] = servers[a].locs
    /\ OneServerPerHost(servers) =>
        \A a \in 1..n : servers[a].host \in DOMAIN m /\ m[servers[a].host] = servers[a].locs
HostLoop == INSTANCE FoldLemmas WITH Op <- AddHost, Last <- Max, Kept <- HostsMapped

ServersByHost(servers) == HostLoop!Folded({}, NoServers, servers)

LEMMA ServersMapped ==
    ASSUME NEW T, NEW servers \in Seq(T)
    PROVE  HostsMapped({}, servers, Len(servers), ServersByHost(servers))
<1>1. HostLoop!OneByOne
  BY MaxIsLast, Induction DEF HostLoop!OneByOne
<1>2. HostsMapped({}, servers, 0, NoServers)
  BY NoServersIsEmpty DEF HostsMapped
<1>3. HostLoop!EveryTurnKeeps({}, servers, servers)
  <2>1. ASSUME NEW n \in 1..Len(servers), NEW acc, HostsMapped({}, servers, n - 1, acc)
        PROVE  HostsMapped({}, servers, n, AddHost({}, acc, servers[n]))
    <3> DEFINE h   == servers[n].host
               new == AddHost({}, acc, servers[n])
    <3>1. DOMAIN new = {h} \cup DOMAIN acc /\ new[h] = servers[n].locs /\ \A g \in DOMAIN acc : g # h => new[g] = acc[g]
      BY DEF AddHost, With
    <3>2. \A a \in 1..n : a = n \/ a \in 1..(n - 1)
      OBVIOUS
    <3>3. \A a \in 1..(n - 1) : a \in 1..n /\ a \in DOMAIN servers /\ a # n
      OBVIOUS
    <3>4. n \in DOMAIN servers /\ n \in 1..n
      OBVIOUS
    <3> HIDE DEF new
    <3>5. \A g \in DOMAIN new : \E a \in 1..n : servers[a].host = g /\ new[g] = servers[a].locs
      BY <2>1, <3>1, <3>3, <3>4 DEF HostsMapped
    <3>6. ASSUME OneServerPerHost(servers)
          PROVE  \A a \in 1..n : servers[a].host \in DOMAIN new /\ new[servers[a].host] = servers[a].locs
      <4>1. \A a \in 1..(n - 1) : servers[a].host # h
        BY <3>3, <3>4, <3>6 DEF OneServerPerHost
      <4> QED BY <2>1, <3>1, <3>2, <3>6, <4>1 DEF HostsMapped
    <3> QED BY <3>5, <3>6 DEF HostsMapped, new
  <2> QED BY <2>1 DEF HostLoop!EveryTurnKeeps
<1> QED BY <1>1, <1>2, <1>3, HostLoop!LoopRule DEF ServersByHost

\* What nginx accepted has no refused parameter: with one rule per host, every
\* location that will be installed was in the tested configuration.
LEMMA AcceptedIsTested ==
    ASSUME NEW parsed, checkIngressValid(parsed),
           NEW T, parsed.servers \in Seq(T), OneServerPerHost(parsed.servers)
    PROVE  \A a \in DOMAIN parsed.servers : \A q \in DOMAIN parsed.servers[a].locs :
                parsed.servers[a].locs[q].par \notin BadParams
<1> DEFINE m    == ServersByHost(parsed.servers)
           test == [returnBaseCfg EXCEPT !.servers = m, !.ups = parsed.ups]
<1>1. NginxAccepts(test)
  BY DEF checkIngressValid, ServersByHost, FoldLeft, MapThenFoldSet, HostLoop!Folded, AddHost
<1>2. HostsMapped({}, parsed.servers, Len(parsed.servers), m)
  BY ServersMapped
<1>3. test.servers = m
  <2> HIDE DEF m
  <2> QED BY DEF returnBaseCfg, EmptyCfg
<1> HIDE DEF m, test
<1>4. \A h \in DOMAIN m : \A q \in DOMAIN m[h] : m[h][q].par \notin BadParams
  BY <1>1, <1>3 DEF NginxAccepts
<1>5. DOMAIN parsed.servers = 1..Len(parsed.servers)
  OBVIOUS
<1> QED BY <1>2, <1>4, <1>5 DEF HostsMapped
------------------------------------------------------------------------------
(***************************************************************************)
(* Installing an ingress: what is at its hosts then was parsed or was      *)
(* there before, the upstreams that go are its own, and other hosts stay.  *)
(***************************************************************************)
\* servers and ups after n of the parsed servers, from old.
InstalledAt(ing, parsed, n, old, servers, ups) ==
    /\ DOMAIN servers = DOMAIN old.servers \cup {parsed[a].host : a \in 1..n}
    /\ \A h \in DOMAIN old.servers : (\A a \in 1..n : parsed[a].host # h) => servers[h] = old.servers[h]
    /\ \A h \in DOMAIN servers : \A q \in DOMAIN servers[h] :
            \/ h \in DOMAIN old.servers /\ q \in DOMAIN old.servers[h] /\ servers[h][q] = old.servers[h][q]
            \/ \E a \in 1..n : /\ parsed[a].host = h /\ q \in DOMAIN parsed[a].locs
                               /\ servers[h][q] = parsed[a].locs[q]
    /\ DOMAIN ups \subseteq DOMAIN old.ups
    /\ \A u \in DOMAIN old.ups : IF u \in DOMAIN ups THEN ups[u] = old.ups[u] ELSE OfIngress(ing, u)

ServerInstalled(ing, st, s) == InstallServer(st, s, ing)
ServersInstalled(ing, aim, n, st) ==
    DOMAIN st = {"servers", "ups", "last"} /\ InstalledAt(ing, aim.parsed, n, aim.old, st.servers, st.ups)
InstallLoop == INSTANCE FoldLemmas WITH Op <- ServerInstalled, Last <- Max, Kept <- ServersInstalled

\* The server of a host that was not configured, or one that is merged.
LEMMA InstallServerInstalls ==
    ASSUME NEW ing, NEW parsed, NEW old, NEW aim, aim = [parsed |-> parsed, old |-> old],
           NEW n \in Nat, n >= 1, NEW st, ServersInstalled(ing, aim, n - 1, st)
    PROVE  ServersInstalled(ing, aim, n, InstallServer(st, parsed[n], ing))
<1> DEFINE s      == parsed[n]
           h      == s.host
           new    == InstallServer(st, s, ing)
           before == st.servers
           after  == new.servers
<1>1. InstalledAt(ing, parsed, n - 1, old, before, st.ups)
  BY DEF ServersInstalled
<1>2. /\ \A a \in 1..n : a = n \/ a \in 1..(n - 1)
      /\ n \in 1..n /\ \A a \in 1..(n - 1) : a \in 1..n
  OBVIOUS
<1>3. /\ DOMAIN new = {"servers", "ups", "last"}
      /\ DOMAIN after = DOMAIN before \cup {h}
      /\ \A g \in DOMAIN before : g # h => after[g] = before[g]
      /\ \A q \in DOMAIN after[h] :
            \/ q \in DOMAIN s.locs /\ after[h][q] = s.locs[q]
            \/ h \in DOMAIN before /\ q \in DOMAIN before[h] /\ after[h][q] = before[h][q]
      /\ DOMAIN new.ups \subseteq DOMAIN st.ups
      /\ \A u \in DOMAIN st.ups : IF u \in DOMAIN new.ups THEN new.ups[u] = st.ups[u] ELSE OfIngress(ing, u)
  <2>1. CASE h \notin DOMAIN before
    <3>1. DOMAIN new = {"servers", "ups", "last"} /\ after = With(before, h, s.locs) /\ new.ups = st.ups
      BY <2>1 DEF InstallServer
    <3> HIDE DEF new, before
    <3> QED BY <3>1 DEF With
  <2>2. CASE h \in DOMAIN before
    <3>1. PICK removed, names : 
                /\ \A u \in names : OfIngress(ing, u)
                /\ DOMAIN new = {"servers", "ups", "last"}
                /\ after = [before EXCEPT ![h] = Without(Over(s.locs, @), removed)]
                /\ new.ups = Without(st.ups, names)
      <4> DEFINE was   == IF h \in DOMAIN st.last THEN st.last[h] ELSE <<>>
                 names == {getProxyPass(ing, p.svc, p.path) : p \in ToSet(was)}
      <4>1. \A u \in names : OfIngress(ing, u)
        <5> HIDE DEF was
        <5> QED BY NamesOfUpstreams
      <4> DEFINE removed == {was[k].path : k \in {m \in DOMAIN was :
                                \/ was[m].path \notin DOMAIN s.locs
                                \/ \E j \in 1..(m - 1) : was[j].path = was[m].path}}
      <4>2. new = [servers |-> [before EXCEPT ![h] = Without(Over(s.locs, @), removed)],
                   ups     |-> Without(st.ups, names),
                   last    |-> Without(st.last, {h})]
        BY <2>2 DEF InstallServer
      <4> HIDE DEF new, names, removed, before
      <4>3. /\ DOMAIN new = {"servers", "ups", "last"}
            /\ after = [before EXCEPT ![h] = Without(Over(s.locs, @), removed)]
            /\ new.ups = Without(st.ups, names)
        BY <4>2
      <4> QED BY <4>1, <4>3
    <3> HIDE DEF new, before
    <3>2. after[h] = Without(Over(s.locs, before[h]), removed)
      BY <2>2, <3>1
    <3>3. \A q \in DOMAIN after[h] :
            \/ q \in DOMAIN s.locs /\ after[h][q] = s.locs[q]
            \/ q \in DOMAIN before[h] /\ after[h][q] = before[h][q]
      BY <3>2 DEF Without, Restrict, Over
    <3>4. /\ DOMAIN new.ups \subseteq DOMAIN st.ups
          /\ \A u \in DOMAIN st.ups : IF u \in DOMAIN new.ups THEN new.ups[u] = st.ups[u] ELSE OfIngress(ing, u)
      BY <3>1 DEF Without, Restrict
    <3> QED BY <2>2, <3>1, <3>3, <3>4
  <2> QED BY <2>1, <2>2
<1> HIDE DEF new, before, after, h
<1>4. DOMAIN after = DOMAIN old.servers \cup {parsed[a].host : a \in 1..n}
  BY <1>1, <1>2, <1>3 DEF InstalledAt, h
<1>5. \A g \in DOMAIN old.servers : (\A a \in 1..n : parsed[a].host # g) => after[g] = old.servers[g]
  BY <1>1, <1>2, <1>3 DEF InstalledAt, h
<1>6. ASSUME NEW g \in DOMAIN after, NEW q \in DOMAIN after[g]
      PROVE  \/ g \in DOMAIN old.servers /\ q \in DOMAIN old.servers[g] /\ after[g][q] = old.servers[g][q]
             \/ \E a \in 1..n : /\ parsed[a].host = g /\ q \in DOMAIN parsed[a].locs
                                /\ after[g][q] = parsed[a].locs[q]
  <2>1. CASE g = h /\ q \in DOMAIN s.locs /\ after[h][q] = s.locs[q]
    BY <1>2, <2>1 DEF h
  <2>2. CASE g \in DOMAIN before /\ q \in DOMAIN before[g] /\ after[g][q] = before[g][q]
    BY <1>1, <1>2, <2>2 DEF InstalledAt
  <2> QED BY <1>3, <2>1, <2>2
<1>7. /\ DOMAIN new.ups \subseteq DOMAIN old.ups
      /\ \A u \in DOMAIN old.ups : IF u \in DOMAIN new.ups THEN new.ups[u] = old.ups[u] ELSE OfIngress(ing, u)
  BY <1>1, <1>3 DEF InstalledAt
<1>8. InstalledAt(ing, parsed, n, old, after, new.ups)
  BY <1>4, <1>5, <1>6, <1>7 DEF InstalledAt
<1> QED BY <1>3, <1>8 DEF ServersInstalled, new, after

LEMMA ServersGetInstalled ==
    ASSUME NEW ing, NEW T, NEW parsed \in Seq(T), NEW old, DOMAIN old = {"servers", "ups", "last"}
    PROVE  LET st == InstallServers(old, parsed, ing)
           IN  InstalledAt(ing, parsed, Len(parsed), old, st.servers, st.ups)
<1> DEFINE aim == [parsed |-> parsed, old |-> old]
           st  == InstallLoop!Folded(ing, old, parsed)
<1>1. InstallLoop!OneByOne
  BY MaxIsLast, Induction DEF InstallLoop!OneByOne
<1>2. ServersInstalled(ing, aim, 0, old)
  BY DEF ServersInstalled, InstalledAt
<1>3. InstallLoop!EveryTurnKeeps(ing, aim, parsed)
  <2>1. \A n \in 1..Len(parsed) : n \in Nat /\ n >= 1
    OBVIOUS
  <2> QED BY <2>1, InstallServerInstalls DEF InstallLoop!EveryTurnKeeps, ServerInstalled
<1>4. ServersInstalled(ing, aim, Len(parsed), st)
  <2> HIDE DEF aim
  <2> QED BY <1>1, <1>2, <1>3, InstallLoop!LoopRule
<1>5. InstallServers(old, parsed, ing) = st
  BY DEF InstallServers, FoldLeft, MapThenFoldSet, InstallLoop!Folded, ServerInstalled
<1> HIDE DEF st
<1> QED BY <1>4, <1>5 DEF ServersInstalled

\* updateServerAndUpstreamToCfg ends with the hosts the ingress has no more.
\* st is the configuration with the parsed servers, H are the hosts dropped.
HostsDropped(cfg, parsed, last, ing, out, st, H) ==
    /\ InstalledAt(ing, parsed.servers, Len(parsed.servers), cfg, st.servers, st.ups)
    /\ H \subseteq DOMAIN last \ {s.host : s \in ToSet(parsed.servers)} /\ H \subseteq DOMAIN st.servers
    /\ out.panicked \/ H = DOMAIN last \ {s.host : s \in ToSet(parsed.servers)}
    /\ out.cfg = DropHosts(cfg, st, H, IF out.panicked THEN NoServers ELSE parsed.ups)

LEMMA InstallationOutcome ==
    ASSUME NEW cfg, {"servers", "ups"} \subseteq DOMAIN cfg, NEW ing, NEW last,
           NEW parsed, NEW T, parsed.servers \in Seq(T),
           NEW out \in updateServerAndUpstreamToCfg(cfg, parsed, last, ing)
    PROVE  \E st, H : HostsDropped(cfg, parsed, last, ing, out, st, H)
<1> DEFINE old   == [servers |-> cfg.servers, ups |-> cfg.ups, last |-> last]
           st    == InstallServers(old, parsed.servers, ing)
           left  == Without(last, {s.host : s \in ToSet(parsed.servers)})
           known == DOMAIN left \cap DOMAIN st.servers
<1>1. InstalledAt(ing, parsed.servers, Len(parsed.servers), old, st.servers, st.ups)
  <2>1. DOMAIN old = {"servers", "ups", "last"}
    OBVIOUS
  <2> HIDE DEF old
  <2> QED BY <2>1, ServersGetInstalled
<1>2. InstalledAt(ing, parsed.servers, Len(parsed.servers), cfg, st.servers, st.ups)
  <2>1. old.servers = cfg.servers /\ old.ups = cfg.ups
    OBVIOUS
  <2> HIDE DEF old, st
  <2> QED BY <1>1, <2>1 DEF InstalledAt
<1>3. DOMAIN left = DOMAIN last \ {s.host : s \in ToSet(parsed.servers)}
  BY DEF Without, Restrict
<1>4. \/ /\ known = DOMAIN left
         /\ out = [cfg |-> DropHosts(cfg, st, known, parsed.ups), last |-> left, panicked |-> FALSE]
      \/ \E H \in SUBSET known :
            out = [cfg |-> DropHosts(cfg, st, H, NoServers), last |-> left, panicked |-> TRUE]
  <2> HIDE DEF st, left
  <2> QED BY DEF updateServerAndUpstreamToCfg, st, left, old
<1> HIDE DEF st, left
<1>5. CASE known = DOMAIN left /\ out = [cfg |-> DropHosts(cfg, st, known, parsed.ups), last |-> left, panicked |-> FALSE]
  <2>1. HostsDropped(cfg, parsed, last, ing, out, st, known)
    BY <1>2, <1>3, <1>5 DEF HostsDropped
  <2> QED BY <2>1
<1>6. ASSUME NEW H \in SUBSET known,
             out = [cfg |-> DropHosts(cfg, st, H, NoServers), last |-> left, panicked |-> TRUE]
      PROVE  HostsDropped(cfg, parsed, last, ing, out, st, H)
  BY <1>2, <1>3, <1>6 DEF HostsDropped
<1> QED BY <1>4, <1>5, <1>6
------------------------------------------------------------------------------
(***************************************************************************)
(* The three operations together: work on an ingress with the hosts H      *)
(* changes nothing at other hosts and no upstream of another ingress, and  *)
(* leaves at its own hosts only locations that lead to its own upstreams.  *)
(***************************************************************************)
OwnAt(ing, H, servers) ==
    \A h \in H \cap DOMAIN servers : \A q \in DOMAIN servers[h] :
        servers[h][q].proxy = Unavailable \/ OfIngress(ing, servers[h][q].proxy)

WorksOn(ing, H, old, new) ==
    /\ \A h \in DOMAIN old.servers \ H : h \in DOMAIN new.servers /\ new.servers[h] = old.servers[h]
    /\ DOMAIN new.servers \subseteq DOMAIN old.servers \cup H
    /\ OwnAt(ing, H, new.servers)
    /\ AreLocations(new.servers)
    /\ \A u \in DOMAIN old.ups :
            u = Unavailable \/ OfIngress(ing, u) \/ (u \in DOMAIN new.ups /\ new.ups[u] = old.ups[u])
    /\ \A u \in DOMAIN new.ups : u \in DOMAIN old.ups \/ OfIngress(ing, u)

LEMMA DeletionWorksOn ==
    ASSUME NEW ing, NEW H, NEW groups, GroupsAt(H, groups), NEW cfg, {"servers", "ups"} \subseteq DOMAIN cfg,
           OwnAt(ing, H, cfg.servers), AreLocations(cfg.servers)
    PROVE  WorksOn(ing, H, cfg, delServerAndUpstreamFromCfg(cfg, groups).cfg)
<1> DEFINE new == delServerAndUpstreamFromCfg(cfg, groups).cfg
<1>1. ShrunkAt(H, cfg, new.servers, new.ups)
  BY DeletionShrinks
<1> HIDE DEF new
<1>2. OwnAt(ing, H, new.servers)
  BY <1>1 DEF ShrunkAt, OwnAt
<1>3. AreLocations(new.servers)
  BY <1>1 DEF ShrunkAt, AreLocations
<1>4. \A u \in DOMAIN cfg.ups :
            u = Unavailable \/ OfIngress(ing, u) \/ (u \in DOMAIN new.ups /\ new.ups[u] = cfg.ups[u])
  BY <1>1 DEF ShrunkAt, OwnAt
<1>5. WorksOn(ing, H, cfg, new)
  BY <1>1, <1>2, <1>3, <1>4 DEF ShrunkAt, WorksOn
<1> QED BY <1>5 DEF new

LEMMA EndpointsWorkOn ==
    ASSUME NEW ing, NEW H, NEW spec, RulesAt(H, spec), NEW cfg, {"servers", "ups"} \subseteq DOMAIN cfg,
           OwnAt(ing, H, cfg.servers), AreLocations(cfg.servers), NEW svc, NEW q, NEW addresses
    PROVE  WorksOn(ing, H, cfg, updateEndpointsToCfg(cfg, ing, svc, q, spec, addresses).cfg)
<1> DEFINE new == updateEndpointsToCfg(cfg, ing, svc, q, spec, addresses).cfg
           up  == getProxyPass(ing, svc, q)
<1>1. /\ RedirectedAt(H, up, q, cfg.servers, new.servers)
      /\ DOMAIN new.ups \subseteq DOMAIN cfg.ups \cup {up}
      /\ \A u \in DOMAIN cfg.ups \ {up} : u \in DOMAIN new.ups /\ new.ups[u] = cfg.ups[u]
  BY EndpointsRedirect
<1>2. OfIngress(ing, up)
  BY NamesOfUpstreams
<1> HIDE DEF new, up
<1>3. OwnAt(ing, H, new.servers)
  BY <1>1, <1>2 DEF RedirectedAt, OwnAt
<1>4. AreLocations(new.servers)
  BY <1>1 DEF RedirectedAt, AreLocations
<1>5. WorksOn(ing, H, cfg, new)
  BY <1>1, <1>2, <1>3, <1>4 DEF RedirectedAt, WorksOn
<1> QED BY <1>5 DEF new

\* What a parsed ingress is made of.
ParsedAt(ing, H, parsed) ==
    /\ \E T : parsed.servers \in Seq(T)
    /\ \A a \in DOMAIN parsed.servers :
        /\ parsed.servers[a].host \in H
        /\ \A q \in DOMAIN parsed.servers[a].locs : LET loc == parsed.servers[a].locs[q] IN
            DOMAIN loc = {"proxy", "par"} /\ (loc.proxy = Unavailable \/ OfIngress(ing, loc.proxy))
    /\ \A u \in DOMAIN parsed.ups : OfIngress(ing, u)

LEMMA IngressParsed ==
    ASSUME NEW ing, NEW H, NEW spec, RulesAt(H, spec), NEW addresses
    PROVE  ParsedAt(ing, H, extendingressToServer(ing, spec, addresses))
<1> DEFINE c       == [ing |-> ing, addresses |-> addresses]
           servers == ParsedServers(ing, spec, addresses)
           ups     == ParsedUpstreams(ing, spec, addresses)
<1>1. AreRules(spec) /\ DOMAIN spec = 1..Len(spec)
  BY DEF RulesAt, AreRules
<1>2. ServersAdded(c, spec, Len(spec), servers)
  BY <1>1, ServersOfRules
<1>3. UpstreamsAdded(c, PathsOf(spec), Len(PathsOf(spec)), ups)
  BY <1>1, UpstreamsOfRules
<1>4. c.ing = ing /\ c.addresses = addresses
  OBVIOUS
<1> HIDE DEF c, servers, ups
<1>5. \E T : servers \in Seq(T)
  BY <1>2 DEF ServersAdded
<1>6. ASSUME NEW a \in DOMAIN servers
      PROVE  /\ servers[a].host \in H
             /\ \A q \in DOMAIN servers[a].locs :
                    /\ DOMAIN servers[a].locs[q] = {"proxy", "par"}
                    /\ \/ servers[a].locs[q].proxy = Unavailable
                       \/ OfIngress(ing, servers[a].locs[q].proxy)
  <2>1. PICK k \in 1..Len(spec) : servers[a] = ServerOf(ing, spec[k], addresses)
    BY <1>2, <1>4 DEF ServersAdded
  <2>2. spec[k] \in ToSet(spec)
    BY <1>1 DEF ToSet
  <2>3. servers[a].host \in H
    BY <2>1, <2>2 DEF ServerOf, RulesAt
  <2>4. spec[k].paths \in Seq(ToSet(spec[k].paths)) /\ servers[a].locs = Locations(ing, spec[k].paths, addresses)
    BY <2>1, <2>2 DEF ServerOf, RulesAt
  <2>5. ASSUME NEW q \in DOMAIN servers[a].locs
        PROVE  \E p : servers[a].locs[q] = Location(ing, p, addresses)
    <3>1. LocationsFrom(ing, spec[k].paths, addresses, servers[a].locs)
      BY <2>4, LocationsOfPaths
    <3> QED BY <2>5, <3>1 DEF LocationsFrom
  <2>6. \A p : /\ DOMAIN Location(ing, p, addresses) = {"proxy", "par"}
               /\ \/ Location(ing, p, addresses).proxy = Unavailable
                  \/ OfIngress(ing, Location(ing, p, addresses).proxy)
    BY NamesOfUpstreams DEF Location
  <2> QED BY <2>3, <2>5, <2>6
<1>7. \A u \in DOMAIN ups : OfIngress(ing, u)
  BY <1>3, <1>4, NamesOfUpstreams DEF UpstreamsAdded, UpstreamOf
<1>8. /\ extendingressToServer(ing, spec, addresses).servers = servers
      /\ extendingressToServer(ing, spec, addresses).ups = ups
  BY DEF extendingressToServer, servers, ups
<1> QED BY <1>5, <1>6, <1>7, <1>8 DEF ParsedAt

LEMMA InstallationWorksOn ==
    ASSUME NEW ing, NEW H, NEW parsed, ParsedAt(ing, H, parsed), NEW last, DOMAIN last \subseteq H,
           NEW cfg, {"servers", "ups"} \subseteq DOMAIN cfg,
           OwnAt(ing, H, cfg.servers), AreLocations(cfg.servers),
           NEW out \in updateServerAndUpstreamToCfg(cfg, parsed, last, ing)
    PROVE  WorksOn(ing, H, cfg, out.cfg)
<1> DEFINE n == Len(parsed.servers)
<1>1. PICK T : parsed.servers \in Seq(T)
  BY DEF ParsedAt
<1>2. PICK st, D : HostsDropped(cfg, parsed, last, ing, out, st, D)
  BY <1>1, InstallationOutcome
<1> DEFINE servers == st.servers
           ups     == st.ups
           added   == IF out.panicked THEN NoServers ELSE parsed.ups
<1>3. DOMAIN parsed.servers = 1..n
  BY <1>1
<1>35. /\ InstalledAt(ing, parsed.servers, n, cfg, servers, ups)
       /\ D \subseteq DOMAIN last /\ D \subseteq DOMAIN servers
       /\ out.cfg = DropHosts(cfg, st, D, added)
  BY <1>2 DEF HostsDropped
<1> HIDE DEF n, servers, ups, added
<1>4. OwnAt(ing, H, servers) /\ AreLocations(servers)
  <2>1. ASSUME NEW h \in DOMAIN servers, NEW q \in DOMAIN servers[h]
        PROVE  /\ DOMAIN servers[h][q] = {"proxy", "par"}
               /\ h \in H => servers[h][q].proxy = Unavailable \/ OfIngress(ing, servers[h][q].proxy)
    <3>1. CASE h \in DOMAIN cfg.servers /\ q \in DOMAIN cfg.servers[h] /\ servers[h][q] = cfg.servers[h][q]
      BY <3>1 DEF OwnAt, AreLocations
    <3>2. CASE \E a \in 1..n : /\ parsed.servers[a].host = h /\ q \in DOMAIN parsed.servers[a].locs
                               /\ servers[h][q] = parsed.servers[a].locs[q]
      BY <1>3, <3>2 DEF ParsedAt
    <3> QED BY <1>35, <3>1, <3>2 DEF InstalledAt
  <2> QED BY <2>1 DEF OwnAt, AreLocations
<1>5. /\ DOMAIN servers \subseteq DOMAIN cfg.servers \cup H
      /\ \A h \in DOMAIN cfg.servers \ H : h \in DOMAIN servers /\ servers[h] = cfg.servers[h]
  <2>1. \A a \in 1..n : parsed.servers[a].host \in H
    BY <1>3 DEF ParsedAt
  <2> QED BY <1>35, <2>1 DEF InstalledAt
<1> DEFINE proxies == UNION {{servers[h][q].proxy : q \in DOMAIN servers[h]} : h \in D}
           kept    == Without(servers, D)
           ups2    == Over(added, Without(ups, proxies))
<1>6. \A u \in proxies : u = Unavailable \/ OfIngress(ing, u)
  BY <1>35, <1>4 DEF OwnAt
<1>7. \A u \in DOMAIN added : OfIngress(ing, u)
  BY NoServersIsEmpty DEF ParsedAt, added
<1>8. out.cfg.servers = kept /\ out.cfg.ups = ups2
  <2>1. out.cfg = [cfg EXCEPT !.servers = kept, !.ups = ups2]
    BY <1>35 DEF DropHosts, servers, ups
  <2> HIDE DEF kept, ups2
  <2> QED BY <2>1
<1>9. DOMAIN kept = DOMAIN servers \ D /\ \A h \in DOMAIN kept : kept[h] = servers[h]
  BY DEF Without, Restrict
<1>10. /\ DOMAIN ups2 = DOMAIN added \cup (DOMAIN ups \ proxies)
       /\ \A u \in DOMAIN ups \ proxies : u \notin DOMAIN added => ups2[u] = ups[u]
  <2> HIDE DEF proxies
  <2> QED BY DEF Over, Without, Restrict
<1> HIDE DEF proxies, kept, ups2
<1>11. \A u \in DOMAIN cfg.ups :
            u = Unavailable \/ OfIngress(ing, u) \/ (u \in DOMAIN ups2 /\ ups2[u] = cfg.ups[u])
  BY <1>35, <1>6, <1>7, <1>10 DEF InstalledAt
<1>12. \A u \in DOMAIN ups2 : u \in DOMAIN cfg.ups \/ OfIngress(ing, u)
  BY <1>35, <1>7, <1>10 DEF InstalledAt
<1>13. OwnAt(ing, H, kept) /\ AreLocations(kept)
  BY <1>4, <1>9 DEF OwnAt, AreLocations
<1>14. /\ \A h \in DOMAIN cfg.servers \ H : h \in DOMAIN kept /\ kept[h] = cfg.servers[h]
       /\ DOMAIN kept \subseteq DOMAIN cfg.servers \cup H
  BY <1>35, <1>5, <1>9
<1> QED BY <1>8, <1>11, <1>12, <1>13, <1>14 DEF WorksOn
------------------------------------------------------------------------------
(***************************************************************************)
(* No operation brings a refused parameter into a location, if the parsed  *)
(* servers that are installed have none.                                   *)
(***************************************************************************)
Sound(servers) ==
    \A h \in DOMAIN servers : \A q \in DOMAIN servers[h] :
        DOMAIN servers[h][q] = {"proxy", "par"} /\ servers[h][q].par \notin BadParams

LEMMA DeletionKeepsSound ==
    ASSUME NEW H, NEW groups, GroupsAt(H, groups), NEW cfg, {"servers", "ups"} \subseteq DOMAIN cfg,
           Sound(cfg.servers)
    PROVE  Sound(delServerAndUpstreamFromCfg(cfg, groups).cfg.servers)
<1>1. ShrunkAt(H, cfg, delServerAndUpstreamFromCfg(cfg, groups).cfg.servers,
                       delServerAndUpstreamFromCfg(cfg, groups).cfg.ups)
  BY DeletionShrinks
<1> QED BY <1>1 DEF ShrunkAt, Sound

LEMMA EndpointsKeepSound ==
    ASSUME NEW H, NEW spec, RulesAt(H, spec), NEW cfg, {"servers", "ups"} \subseteq DOMAIN cfg,
           Sound(cfg.servers), NEW ing, NEW svc, NEW q, NEW addresses
    PROVE  Sound(updateEndpointsToCfg(cfg, ing, svc, q, spec, addresses).cfg.servers)
<1> DEFINE servers == updateEndpointsToCfg(cfg, ing, svc, q, spec, addresses).cfg.servers
<1>1. AreLocations(cfg.servers)
  BY DEF Sound, AreLocations
<1>2. RedirectedAt(H, getProxyPass(ing, svc, q), q, cfg.servers, servers)
  BY <1>1, EndpointsRedirect
<1> HIDE DEF servers
<1>3. Sound(servers)
  BY <1>2 DEF RedirectedAt, Sound
<1> QED BY <1>3 DEF servers

LEMMA InstallationKeepsSound ==
    ASSUME NEW ing, NEW H, NEW parsed, ParsedAt(ing, H, parsed), checkIngressValid(parsed),
           OneServerPerHost(parsed.servers), NEW last,
           NEW cfg, {"servers", "ups"} \subseteq DOMAIN cfg, Sound(cfg.servers),
           NEW out \in updateServerAndUpstreamToCfg(cfg, parsed, last, ing)
    PROVE  Sound(out.cfg.servers)
<1>1. PICK T : parsed.servers \in Seq(T)
  BY DEF ParsedAt
<1>2. PICK st, D : HostsDropped(cfg, parsed, last, ing, out, st, D)
  BY <1>1, InstallationOutcome
<1> DEFINE n       == Len(parsed.servers)
           servers == st.servers
           kept    == Without(servers, D)
<1>3. DOMAIN parsed.servers = 1..n
  BY <1>1
<1>4. InstalledAt(ing, parsed.servers, n, cfg, servers, st.ups)
  BY <1>2 DEF HostsDropped
<1>5. out.cfg.servers = kept
  <2>1. \E u : out.cfg = [cfg EXCEPT !.servers = kept, !.ups = u]
    BY <1>2 DEF HostsDropped, DropHosts
  <2> HIDE DEF kept
  <2> QED BY <2>1
<1>6. \A a \in 1..n : \A q \in DOMAIN parsed.servers[a].locs :
            /\ DOMAIN parsed.servers[a].locs[q] = {"proxy", "par"}
            /\ parsed.servers[a].locs[q].par \notin BadParams
  BY <1>1, <1>3, AcceptedIsTested DEF ParsedAt
<1> HIDE DEF n, servers
<1>7. Sound(servers)
  BY <1>4, <1>6 DEF InstalledAt, Sound
<1>8. Sound(kept)
  BY <1>7 DEF Sound, Without, Restrict
<1> QED BY <1>5, <1>8
------------------------------------------------------------------------------
(***************************************************************************)
(* A change of endpoints reaches the location of its path at every host    *)
(* whose rule names the service, as long as they are all configured.       *)
(***************************************************************************)
Names(r, svc) == \E p \in ToSet(r.paths) : p.svc = svc

Target(c) == IF c.addresses = {} THEN Unavailable ELSE c.up

\* The locations of the path are as they were in old, or lead to the target;
\* those at the hosts H lead there.
LedAt(c, H, old, servers) ==
    /\ DOMAIN servers = DOMAIN old
    /\ \A h \in DOMAIN old : DOMAIN servers[h] = DOMAIN old[h]
    /\ \A h \in DOMAIN old : c.path \in DOMAIN old[h] =>
        LET led == [old[h][c.path] EXCEPT !.proxy = Target(c)]
        IN  servers[h][c.path] \in {old[h][c.path], led} /\ (h \in H => servers[h][c.path] = led)

StillLed(c, H, old, st) ==
    DOMAIN st = {"servers", "par", "panicked"} /\ st.panicked = FALSE /\ LedAt(c, H, old, st.servers)

Configured(h, q, servers) == h \in DOMAIN servers /\ q \in DOMAIN servers[h]

LEMMA UpdateLocationLeads ==
    ASSUME NEW c, NEW H, NEW old, NEW st, StillLed(c, H, old, st), NEW h, NEW par,
           Configured(h, c.path, old)
    PROVE  StillLed(c, H \cup {h}, old, UpdateLocation(st, h, par, c.up, c.path, c.addresses))
<1> DEFINE new     == UpdateLocation(st, h, par, c.up, c.path, c.addresses)
           before  == st.servers
           servers == new.servers
           q       == c.path
           to      == Target(c)
<1>1. Configured(h, q, before) /\ LedAt(c, H, old, before)
  BY DEF Configured, StillLed, LedAt
<1>2. DOMAIN new = DOMAIN st /\ servers = [before EXCEPT ![h][q].proxy = to] /\ new.panicked = FALSE
  BY <1>1 DEF UpdateLocation, StillLed, Configured, Target
<1> HIDE DEF new, before, servers, q, to
<1>3. /\ DOMAIN servers = DOMAIN before /\ DOMAIN servers[h] = DOMAIN before[h]
      /\ \A g \in DOMAIN before : g # h => servers[g] = before[g]
      /\ servers[h][q] = [before[h][q] EXCEPT !.proxy = to]
  BY <1>1, <1>2 DEF Configured
<1>4. ASSUME NEW g \in DOMAIN old, q \in DOMAIN old[g]
      PROVE  /\ servers[g][q] \in {old[g][q], [old[g][q] EXCEPT !.proxy = to]}
             /\ g \in H \cup {h} => servers[g][q] = [old[g][q] EXCEPT !.proxy = to]
  <2>1. /\ before[g][q] \in {old[g][q], [old[g][q] EXCEPT !.proxy = to]}
        /\ g \in H => before[g][q] = [old[g][q] EXCEPT !.proxy = to]
    BY <1>1, <1>4 DEF LedAt, q, to
  <2>2. CASE g = h
    <3>1. [[old[g][q] EXCEPT !.proxy = to] EXCEPT !.proxy = to] = [old[g][q] EXCEPT !.proxy = to]
      OBVIOUS
    <3> QED BY <1>3, <2>1, <2>2, <3>1
  <2>3. CASE g # h
    BY <1>1, <1>3, <2>1, <2>3 DEF LedAt
  <2> QED BY <2>2, <2>3
<1>5. LedAt(c, H \cup {h}, old, servers)
  <2>1. \A g \in DOMAIN old : DOMAIN servers[g] = DOMAIN old[g]
    BY <1>1, <1>3 DEF LedAt
  <2>2. DOMAIN servers = DOMAIN old
    BY <1>1, <1>3 DEF LedAt
  <2> QED BY <1>4, <2>1, <2>2 DEF LedAt, q, to
<1> QED BY <1>2, <1>5 DEF StillLed, new, servers

\* The paths of a rule for one of the hosts ...
LeadPath(c, st, p) ==
    IF p.svc = c.svc THEN UpdateLocation(st, c.host, p.upar, c.up, c.path, c.addresses) ELSE st
PathsLead(c, aim, n, st) ==
    StillLed(c, aim.hosts \cup {h \in {c.host} : \E k \in 1..n : aim.paths[k].svc = c.svc}, aim.old, st)
LeadLoop == INSTANCE FoldLemmas WITH Op <- LeadPath, Last <- Max, Kept <- PathsLead

LEMMA RuleLeads ==
    ASSUME NEW c, NEW H, NEW old, NEW st, StillLed(c, H, old, st), NEW r, NEW T, r.paths \in Seq(T),
           c.host = r.host, Names(r, c.svc) => Configured(r.host, c.path, old)
    PROVE  StillLed(c, H \cup {h \in {r.host} : Names(r, c.svc)}, old,
                    UpdateRule(st, r, c.svc, c.up, c.path, c.addresses))
<1> DEFINE aim == [hosts |-> H, old |-> old, paths |-> r.paths]
<1>0. aim.hosts = H /\ aim.old = old /\ aim.paths = r.paths
  OBVIOUS
<1>1. LeadLoop!OneByOne
  BY MaxIsLast, Induction DEF LeadLoop!OneByOne
<1>2. PathsLead(c, aim, 0, st)
  <2>1. H \cup {h \in {c.host} : \E k \in 1..0 : r.paths[k].svc = c.svc} = H
    OBVIOUS
  <2> QED BY <1>0, <2>1 DEF PathsLead
<1> HIDE DEF aim
<1>3. LeadLoop!EveryTurnKeeps(c, aim, r.paths)
  <2>1. ASSUME NEW n \in 1..Len(r.paths), NEW acc, PathsLead(c, aim, n - 1, acc)
        PROVE  PathsLead(c, aim, n, LeadPath(c, acc, r.paths[n]))
    <3> DEFINE before == H \cup {h \in {c.host} : \E k \in 1..(n - 1) : r.paths[k].svc = c.svc}
               after  == H \cup {h \in {c.host} : \E k \in 1..n : r.paths[k].svc = c.svc}
    <3>1. /\ \A k \in 1..n : k = n \/ k \in 1..(n - 1)
          /\ n \in 1..n /\ \A k \in 1..(n - 1) : k \in 1..n
      OBVIOUS
    <3>2. StillLed(c, before, old, acc)
      BY <1>0, <2>1 DEF PathsLead
    <3>3. CASE r.paths[n].svc = c.svc
      <4>1. after = before \cup {c.host}
        BY <3>1, <3>3
      <4>2. Names(r, c.svc)
        <5>1. n \in DOMAIN r.paths
          OBVIOUS
        <5> QED BY <3>3, <5>1 DEF Names, ToSet
      <4>3. LeadPath(c, acc, r.paths[n]) = UpdateLocation(acc, c.host, r.paths[n].upar, c.up, c.path, c.addresses)
        BY <3>3 DEF LeadPath
      <4> HIDE DEF before, after
      <4>35. Configured(c.host, c.path, old)
        BY <4>2
      <4>36. StillLed(c, before \cup {c.host}, old,
                      UpdateLocation(acc, c.host, r.paths[n].upar, c.up, c.path, c.addresses))
        BY <3>2, <4>35, UpdateLocationLeads
      <4>4. StillLed(c, after, old, LeadPath(c, acc, r.paths[n]))
        BY <4>1, <4>3, <4>36
      <4> QED BY <1>0, <4>4 DEF PathsLead, after
    <3>4. CASE r.paths[n].svc # c.svc
      <4>1. after = before
        BY <3>1, <3>4
      <4>2. LeadPath(c, acc, r.paths[n]) = acc
        BY <3>4 DEF LeadPath
      <4> HIDE DEF before
      <4> QED BY <1>0, <3>2, <4>1, <4>2 DEF PathsLead
    <3> QED BY <3>3, <3>4
  <2> QED BY <2>1 DEF LeadLoop!EveryTurnKeeps
<1>4. PathsLead(c, aim, Len(r.paths), LeadLoop!Folded(c, st, r.paths))
  BY <1>1, <1>2, <1>3, LeadLoop!LoopRule
<1>5. UpdateRule(st, r, c.svc, c.up, c.path, c.addresses) = LeadLoop!Folded(c, st, r.paths)
  BY DEF UpdateRule, FoldLeft, MapThenFoldSet, LeadLoop!Folded, LeadPath
<1>6. {h \in {c.host} : \E k \in 1..Len(r.paths) : r.paths[k].svc = c.svc} = {h \in {r.host} : Names(r, c.svc)}
  <2>1. DOMAIN r.paths = 1..Len(r.paths)
    OBVIOUS
  <2> QED BY <2>1 DEF Names, ToSet
<1> QED BY <1>0, <1>4, <1>5, <1>6 DEF PathsLead

\* ... and all rules of a specification: the hosts of those that name the
\* service.
HostsNaming(spec, n, svc) == {spec[k].host : k \in {m \in 1..n : Names(spec[m], svc)}}

LeadRule(c, st, r) == UpdateRule(st, r, c.svc, c.up, c.path, c.addresses)
RulesLead(c, aim, n, st) == StillLed(c, HostsNaming(aim.spec, n, c.svc), aim.old, st)
LeadRuleLoop == INSTANCE FoldLemmas WITH Op <- LeadRule, Last <- Max, Kept <- RulesLead

LEMMA RulesLeadOn ==
    ASSUME NEW c, NEW spec, AreRules(spec), NEW old, NEW st, StillLed(c, {}, old, st),
           \A r \in ToSet(spec) : Names(r, c.svc) => Configured(r.host, c.path, old)
    PROVE  StillLed(c, HostsNaming(spec, Len(spec), c.svc), old, LeadRuleLoop!Folded(c, st, spec))
<1> DEFINE aim == [spec |-> spec, old |-> old]
<1>0. aim.spec = spec /\ aim.old = old
  OBVIOUS
<1>1. LeadRuleLoop!OneByOne
  BY MaxIsLast, Induction DEF LeadRuleLoop!OneByOne
<1>2. RulesLead(c, aim, 0, st)
  <2>1. HostsNaming(spec, 0, c.svc) = {}
    BY DEF HostsNaming
  <2> QED BY <1>0, <2>1 DEF RulesLead
<1> HIDE DEF aim
<1>3. LeadRuleLoop!EveryTurnKeeps(c, aim, spec)
  <2>1. ASSUME NEW n \in 1..Len(spec), NEW acc, RulesLead(c, aim, n - 1, acc)
        PROVE  RulesLead(c, aim, n, LeadRule(c, acc, spec[n]))
    <3> DEFINE r    == spec[n]
               rule == [svc |-> c.svc, up |-> c.up, path |-> c.path, addresses |-> c.addresses, host |-> r.host]
               H    == HostsNaming(spec, n - 1, c.svc)
    <3>1. r \in ToSet(spec) /\ r.paths \in Seq(ToSet(r.paths))
      <4>1. n \in DOMAIN spec
        BY DEF AreRules
      <4> QED BY <4>1 DEF AreRules, ToSet
    <3>2. StillLed(c, H, old, acc)
      BY <1>0, <2>1 DEF RulesLead
    <3>3. /\ rule.svc = c.svc /\ rule.up = c.up /\ rule.path = c.path
          /\ rule.addresses = c.addresses /\ rule.host = r.host
      OBVIOUS
    <3> HIDE DEF rule
    <3>4. \A G, x : StillLed(rule, G, old, x) <=> StillLed(c, G, old, x)
      BY <3>3 DEF StillLed, LedAt, Target
    <3>5. Names(r, rule.svc) => Configured(r.host, rule.path, old)
      BY <3>1, <3>3
    <3> HIDE DEF r, H
    <3>6. StillLed(rule, H \cup {h \in {r.host} : Names(r, rule.svc)}, old,
                   UpdateRule(acc, r, rule.svc, rule.up, rule.path, rule.addresses))
      BY <3>1, <3>2, <3>3, <3>4, <3>5, RuleLeads
    <3>7. H \cup {h \in {r.host} : Names(r, c.svc)} = HostsNaming(spec, n, c.svc)
      <4>1. /\ \A k \in 1..n : k = n \/ k \in 1..(n - 1)
            /\ n \in 1..n /\ \A k \in 1..(n - 1) : k \in 1..n
        OBVIOUS
      <4> QED BY <4>1 DEF HostsNaming, r, H
    <3>8. StillLed(c, HostsNaming(spec, n, c.svc), old, LeadRule(c, acc, r))
      BY <3>3, <3>4, <3>6, <3>7 DEF LeadRule
    <3> QED BY <1>0, <3>8 DEF RulesLead, r
  <2> QED BY <2>1 DEF LeadRuleLoop!EveryTurnKeeps
<1>4. RulesLead(c, aim, Len(spec), LeadRuleLoop!Folded(c, st, spec))
  <2>1. spec \in Seq(ToSet(spec))
    BY DEF AreRules
  <2> QED BY <1>1, <1>2, <1>3, <2>1, LeadRuleLoop!LoopRule
<1> QED BY <1>0, <1>4 DEF RulesLead

\* Where the key of an endpoints change leads the locations of the path.
LEMMA EndpointsServed ==
    ASSUME NEW spec, AreRules(spec), NEW cfg, {"servers", "ups"} \subseteq DOMAIN cfg,
           NEW ing, NEW svc, NEW q, NEW addresses,
           \A r \in ToSet(spec) : Names(r, svc) => Configured(r.host, q, cfg.servers)
    PROVE  LET up  == getProxyPass(ing, svc, q)
               out == updateEndpointsToCfg(cfg, ing, svc, q, spec, addresses)
           IN  /\ DOMAIN out.cfg.servers = DOMAIN cfg.servers
               /\ \A r \in ToSet(spec) : Names(r, svc) =>
                    /\ Configured(r.host, q, out.cfg.servers)
                    /\ out.cfg.servers[r.host][q] =
                        [cfg.servers[r.host][q] EXCEPT !.proxy = IF addresses = {} THEN Unavailable ELSE up]
               /\ addresses # {} => up \in DOMAIN out.cfg.ups /\ out.cfg.ups[up].eps = addresses
<1> DEFINE up  == getProxyPass(ing, svc, q)
           out == updateEndpointsToCfg(cfg, ing, svc, q, spec, addresses)
           c   == [svc |-> svc, up |-> up, path |-> q, addresses |-> addresses]
           st0 == [servers |-> cfg.servers, par |-> NoParam, panicked |-> FALSE]
           st  == LeadRuleLoop!Folded(c, st0, spec)
           ups == IF st.panicked THEN cfg.ups
                  ELSE IF addresses = {} THEN Without(cfg.ups, {up})
                  ELSE With(cfg.ups, up, [eps |-> addresses, par |-> st.par])
<1>1. c.svc = svc /\ c.up = up /\ c.path = q /\ c.addresses = addresses
  OBVIOUS
<1>2. StillLed(c, {}, cfg.servers, st0)
  BY DEF StillLed, LedAt
<1>3. out.cfg = [cfg EXCEPT !.servers = st.servers, !.ups = ups]
  BY DEF updateEndpointsToCfg, FoldLeft, MapThenFoldSet, LeadRuleLoop!Folded, LeadRule
<1> HIDE DEF c, st0, out, up
<1>4. StillLed(c, HostsNaming(spec, Len(spec), svc), cfg.servers, st)
  BY <1>1, <1>2, RulesLeadOn
<1> HIDE DEF st
<1>5. addresses # {} => up \in DOMAIN ups /\ ups[up].eps = addresses
  BY <1>4 DEF StillLed, With
<1> HIDE DEF ups
<1>6. out.cfg.servers = st.servers /\ out.cfg.ups = ups
  BY <1>3
<1>7. ASSUME NEW r \in ToSet(spec), Names(r, svc)
      PROVE  /\ Configured(r.host, q, st.servers)
             /\ st.servers[r.host][q] =
                    [cfg.servers[r.host][q] EXCEPT !.proxy = IF addresses = {} THEN Unavailable ELSE up]
  <2>1. r.host \in HostsNaming(spec, Len(spec), svc)
    <3>1. PICK k \in 1..Len(spec) : r = spec[k]
      BY DEF ToSet, AreRules
    <3> QED BY <1>7, <3>1 DEF HostsNaming
  <2>2. Configured(r.host, q, cfg.servers)
    BY <1>7
  <2> QED BY <1>1, <1>4, <2>1, <2>2 DEF StillLed, LedAt, Configured, Target
<1>8. DOMAIN st.servers = DOMAIN cfg.servers
  BY <1>4 DEF StillLed, LedAt
<1> QED BY <1>5, <1>6, <1>7, <1>8 DEF out, up
------------------------------------------------------------------------------
(***************************************************************************)
(* What parsing gives for every path, and that nginx accepts it.           *)
(***************************************************************************)
\* Every path of a specification has a server with its location ...
ServersServe(ing, spec, addresses, servers) ==
    \A r \in ToSet(spec) : \A p \in ToSet(r.paths) : \E a \in DOMAIN servers :
        /\ servers[a].host = r.host /\ p.path \in DOMAIN servers[a].locs
        /\ servers[a].locs[p.path] = Location(ing, p, addresses)

LEMMA ParsedServersServe ==
    ASSUME NEW ing, NEW spec, AreRules(spec), PathsOnce(spec), NEW addresses
    PROVE  ServersServe(ing, spec, addresses, ParsedServers(ing, spec, addresses))
<1> DEFINE c       == [ing |-> ing, addresses |-> addresses]
           servers == ParsedServers(ing, spec, addresses)
<1>1. ServersAdded(c, spec, Len(spec), servers) /\ c.ing = ing /\ c.addresses = addresses
  BY ServersOfRules
<1> HIDE DEF c, servers
<1>2. ASSUME NEW r \in ToSet(spec), NEW p \in ToSet(r.paths)
      PROVE  \E a \in DOMAIN servers :
                /\ servers[a].host = r.host /\ p.path \in DOMAIN servers[a].locs
                /\ servers[a].locs[p.path] = Location(ing, p, addresses)
  <2>1. PICK k \in DOMAIN spec : r = spec[k]
    BY DEF ToSet
  <2>2. PICK i \in DOMAIN r.paths : p = r.paths[i]
    BY DEF ToSet
  <2>3. k \in 1..Len(spec) /\ r.paths \in Seq(ToSet(r.paths)) /\ spec[k].paths # <<>>
    BY <2>1, <2>2 DEF AreRules
  <2>4. PICK a \in DOMAIN servers : servers[a] = ServerOf(ing, spec[k], addresses)
    BY <1>1, <2>3 DEF ServersAdded
  <2>5. servers[a].host = r.host /\ servers[a].locs = Locations(ing, r.paths, addresses)
    BY <2>1, <2>4 DEF ServerOf
  <2>6. LocationsFrom(ing, r.paths, addresses, servers[a].locs)
    BY <2>3, <2>5, LocationsOfPaths
  <2>7. p.path \in DOMAIN servers[a].locs
    BY <2>6 DEF LocationsFrom
  <2>8. PICK x \in ToSet(r.paths) :
            x.path = p.path /\ servers[a].locs[p.path] = Location(ing, x, addresses)
    BY <2>6, <2>7 DEF LocationsFrom
  <2>9. PICK j \in DOMAIN r.paths : x = r.paths[j]
    BY DEF ToSet
  <2>10. i = j
    BY <2>1, <2>2, <2>8, <2>9 DEF PathsOnce
  <2> QED BY <2>2, <2>5, <2>7, <2>8, <2>9, <2>10
<1> QED BY <1>2 DEF ServersServe, servers

\* ... and, when its service has addresses, an upstream with them.
UpstreamsServe(ing, spec, addresses, ups) ==
    \A r \in ToSet(spec) : \A p \in ToSet(r.paths) : addresses[p.svc] # {} =>
        UpstreamOf(ing, p) \in DOMAIN ups /\ ups[UpstreamOf(ing, p)].eps = addresses[p.svc]

LEMMA ParsedUpstreamsServe ==
    ASSUME NEW ing, NEW spec, AreRules(spec), NEW addresses
    PROVE  UpstreamsServe(ing, spec, addresses, ParsedUpstreams(ing, spec, addresses))
<1> DEFINE c     == [ing |-> ing, addresses |-> addresses]
           paths == PathsOf(spec)
           ups   == ParsedUpstreams(ing, spec, addresses)
<1>1. UpstreamsAdded(c, paths, Len(paths), ups) /\ c.ing = ing /\ c.addresses = addresses
  BY UpstreamsOfRules
<1>2. paths \in Seq(ToSet(paths)) /\ ToSet(paths) = UNION {ToSet(r.paths) : r \in ToSet(spec)}
  BY PathsOfRules
<1> HIDE DEF c, ups, paths
<1>3. ASSUME NEW p \in ToSet(paths), addresses[p.svc] # {}
      PROVE  UpstreamOf(ing, p) \in DOMAIN ups /\ ups[UpstreamOf(ing, p)].eps = addresses[p.svc]
  <2>1. PICK k \in 1..Len(paths) : p = paths[k]
    BY <1>2 DEF ToSet
  <2>2. UpstreamOf(ing, p) \in DOMAIN ups
    BY <1>1, <1>3, <2>1 DEF UpstreamsAdded
  <2>3. PICK n \in 1..Len(paths) :
            /\ UpstreamOf(ing, p) = UpstreamOf(ing, paths[n])
            /\ ups[UpstreamOf(ing, p)] = [eps |-> addresses[paths[n].svc], par |-> paths[n].upar]
    BY <1>1, <2>2 DEF UpstreamsAdded
  <2>4. p.svc = paths[n].svc
    BY <2>3 DEF UpstreamOf, getProxyPass
  <2> QED BY <2>2, <2>3, <2>4
<1>4. \A r \in ToSet(spec) : \A p \in ToSet(r.paths) : p \in ToSet(paths)
  BY <1>2
<1> QED BY <1>3, <1>4 DEF UpstreamsServe, ups

\* No path of the specification has a parameter that nginx refuses.
GoodParams(spec) ==
    \A r \in ToSet(spec) : \A p \in ToSet(r.paths) : p.lpar \notin BadParams /\ p.upar \notin BadParams

LEMMA GoodIngressIsValid ==
    ASSUME NEW ing, NEW spec, AreRules(spec), GoodParams(spec), NEW addresses
    PROVE  checkIngressValid(extendingressToServer(ing, spec, addresses))
<1> DEFINE c       == [ing |-> ing, addresses |-> addresses]
           paths   == PathsOf(spec)
           servers == ParsedServers(ing, spec, addresses)
           ups     == ParsedUpstreams(ing, spec, addresses)
           m       == ServersByHost(servers)
           test    == [returnBaseCfg EXCEPT !.servers = m, !.ups = ups]
<1>1. ServersAdded(c, spec, Len(spec), servers) /\ c.ing = ing /\ c.addresses = addresses
  BY ServersOfRules
<1>2. UpstreamsAdded(c, paths, Len(paths), ups)
  BY UpstreamsOfRules
<1>3. paths \in Seq(ToSet(paths)) /\ ToSet(paths) = UNION {ToSet(r.paths) : r \in ToSet(spec)}
  BY PathsOfRules
<1> HIDE DEF c, paths, ups
<1>4. HostsMapped({}, servers, Len(servers), m) /\ DOMAIN servers = 1..Len(servers)
  <2>1. \E T : servers \in Seq(T)
    BY <1>1 DEF ServersAdded
  <2> HIDE DEF servers
  <2> QED BY <2>1, ServersMapped
<1>5. checkIngressValid(extendingressToServer(ing, spec, addresses)) <=> NginxAccepts(test)
  <2>1. /\ extendingressToServer(ing, spec, addresses).servers = servers
        /\ extendingressToServer(ing, spec, addresses).ups = ups
    BY DEF extendingressToServer, ups
  <2> HIDE DEF servers
  <2> QED BY <2>1 DEF checkIngressValid, ServersByHost, FoldLeft, MapThenFoldSet, HostLoop!Folded, AddHost
<1>6. test.servers = m /\ test.ups = ups /\ test.conf = [x \in ConfigMaps |-> Base]
  <2> HIDE DEF m
  <2> QED BY DEF returnBaseCfg, EmptyCfg
<1> HIDE DEF m, test, servers
<1>7. ASSUME NEW h \in DOMAIN m, NEW q \in DOMAIN m[h]
      PROVE  m[h][q].par \notin BadParams /\ m[h][q].proxy \in DOMAIN ups \cup {Unavailable}
  <2>1. PICK a \in DOMAIN servers : m[h] = servers[a].locs
    BY <1>4 DEF HostsMapped
  <2>2. PICK k \in 1..Len(spec) : servers[a] = ServerOf(ing, spec[k], addresses)
    BY <1>1 DEF ServersAdded
  <2>3. spec[k] \in ToSet(spec) /\ spec[k].paths \in Seq(ToSet(spec[k].paths))
    <3>1. spec[k] \in ToSet(spec)
      BY DEF AreRules, ToSet
    <3> QED BY <3>1 DEF AreRules
  <2>4. LocationsFrom(ing, spec[k].paths, addresses, m[h])
    BY <2>1, <2>2, <2>3, LocationsOfPaths DEF ServerOf
  <2>5. PICK p \in ToSet(spec[k].paths) : m[h][q] = Location(ing, p, addresses)
    BY <2>4 DEF LocationsFrom
  <2>6. p.lpar \notin BadParams /\ p \in ToSet(paths)
    BY <1>3, <2>3 DEF GoodParams
  <2>7. addresses[p.svc] # {} => getProxyPass(ing, p.svc, p.path) \in DOMAIN ups
    <3>1. PICK n \in 1..Len(paths) : p = paths[n]
      BY <1>3, <2>6 DEF ToSet
    <3> QED BY <1>1, <1>2, <3>1 DEF UpstreamsAdded, UpstreamOf
  <2> QED BY <2>5, <2>6, <2>7 DEF Location
<1>8. ASSUME NEW u \in DOMAIN ups PROVE ups[u].par \notin BadParams /\ ups[u].eps # {}
  <2>1. PICK n \in 1..Len(paths) :
            addresses[paths[n].svc] # {} /\ ups[u] = [eps |-> addresses[paths[n].svc], par |-> paths[n].upar]
    BY <1>1, <1>2 DEF UpstreamsAdded
  <2>2. paths[n] \in ToSet(paths)
    BY <1>3 DEF ToSet
  <2>3. paths[n].upar \notin BadParams
    BY <1>3, <2>2 DEF GoodParams
  <2> QED BY <2>1, <2>3
<1>9. \A x \in ConfigMaps : test.conf[x] \notin BadParams
  BY <1>6, BaseAssumption
<1>10. NginxAccepts(test)
  BY <1>6, <1>7, <1>8, <1>9 DEF NginxAccepts
<1> QED BY <1>5, <1>10
------------------------------------------------------------------------------
(***************************************************************************)
(* The paths that a status keeps for a host, each of them once, and the    *)
(* installation of an ingress with such a status: nothing panics, and      *)
(* every location that was parsed is there.                                *)
(***************************************************************************)
OnceEach(ps) == \A n \in DOMAIN ps : \A m \in 1..(n - 1) : ps[m].path # ps[n].path

LEMMA OnceTogether ==
    ASSUME NEW T, NEW s \in Seq(T), NEW t \in Seq(T), OnceEach(s), OnceEach(t),
           \A a \in DOMAIN s, b \in DOMAIN t : s[a].path # t[b].path
    PROVE  OnceEach(s \o t)
<1> DEFINE both == s \o t
<1>1. /\ DOMAIN s = 1..Len(s) /\ DOMAIN t = 1..Len(t) /\ Len(s) \in Nat /\ Len(t) \in Nat
      /\ DOMAIN both = 1..(Len(s) + Len(t))
  OBVIOUS
<1>2. \A k \in 1..(Len(s) + Len(t)) : both[k] = IF k <= Len(s) THEN s[k] ELSE t[k - Len(s)]
  BY <1>1
<1> HIDE DEF both
<1>3. ASSUME NEW n \in DOMAIN both, NEW m \in 1..(n - 1) PROVE both[m].path # both[n].path
  <2>1. n \in Nat /\ m \in Nat /\ m < n /\ m >= 1 /\ m \in 1..(Len(s) + Len(t)) /\ n \in 1..(Len(s) + Len(t))
    BY <1>1
  <2>2. CASE n <= Len(s)
    <3>1. both[m] = s[m] /\ both[n] = s[n] /\ n \in DOMAIN s /\ m \in 1..(n - 1)
      BY <1>1, <1>2, <2>1, <2>2
    <3> QED BY <3>1 DEF OnceEach
  <2>3. CASE n > Len(s) /\ m <= Len(s)
    <3>1. both[m] = s[m] /\ both[n] = t[n - Len(s)] /\ m \in DOMAIN s /\ n - Len(s) \in DOMAIN t
      BY <1>1, <1>2, <2>1, <2>3
    <3> QED BY <3>1
  <2>4. CASE m > Len(s)
    <3>1. /\ both[m] = t[m - Len(s)] /\ both[n] = t[n - Len(s)]
          /\ n - Len(s) \in DOMAIN t /\ m - Len(s) \in 1..((n - Len(s)) - 1)
      BY <1>1, <1>2, <2>1, <2>4
    <3> QED BY <3>1 DEF OnceEach
  <2> QED BY <1>1, <2>1, <2>2, <2>3, <2>4
<1> QED BY <1>3 DEF OnceEach, both

PathsAtHost(h, ps, r) == IF r.host = h THEN ps \o r.paths ELSE ps
HostPathsOnce(h, spec, n, ps) ==
    /\ ps \in Seq(UNION {ToSet(r.paths) : r \in ToSet(spec)})
    /\ \A x \in DOMAIN ps : \E k \in 1..n : \E j \in DOMAIN spec[k].paths :
            spec[k].host = h /\ ps[x].path = spec[k].paths[j].path
    /\ OnceEach(ps)
HostPathLoop == INSTANCE FoldLemmas WITH Op <- PathsAtHost, Last <- Max, Kept <- HostPathsOnce

LEMMA StatusHasPathsOnce ==
    ASSUME NEW spec, AreRules(spec), PathsOnce(spec), NEW h \in DOMAIN LastPaths(spec)
    PROVE  OnceEach(LastPaths(spec)[h])
<1> DEFINE T  == UNION {ToSet(r.paths) : r \in ToSet(spec)}
           ps == HostPathLoop!Folded(h, <<>>, spec)
<1>1. HostPathLoop!OneByOne
  BY MaxIsLast, Induction DEF HostPathLoop!OneByOne
<1>2. HostPathsOnce(h, spec, 0, <<>>)
  BY DEF HostPathsOnce, OnceEach
<1>3. HostPathLoop!EveryTurnKeeps(h, spec, spec)
  <2>1. ASSUME NEW n \in 1..Len(spec), NEW acc, HostPathsOnce(h, spec, n - 1, acc)
        PROVE  HostPathsOnce(h, spec, n, PathsAtHost(h, acc, spec[n]))
    <3> DEFINE new == spec[n].paths
    <3>1. /\ n \in Nat /\ DOMAIN spec = 1..Len(spec) /\ n \in 1..n
          /\ \A k \in 1..(n - 1) : k \in 1..n /\ k # n /\ k \in DOMAIN spec
      BY DEF AreRules
    <3>2. spec[n] \in ToSet(spec)
      BY <3>1 DEF ToSet
    <3>3. new \in Seq(T) /\ acc \in Seq(T)
      <4>1. new \in Seq(ToSet(new)) /\ ToSet(new) \subseteq T
        BY <3>2 DEF AreRules
      <4> QED BY <2>1, <4>1 DEF HostPathsOnce
    <3>4. CASE spec[n].host # h
      BY <2>1, <3>1, <3>4 DEF HostPathsOnce, PathsAtHost
    <3>5. CASE spec[n].host = h
      <4>1. OnceEach(new)
        <5>1. \A b \in DOMAIN new : \A a \in 1..(b - 1) : a \in DOMAIN new /\ a # b
          BY <3>3
        <5> QED BY <3>1, <5>1 DEF OnceEach, PathsOnce
      <4>2. ASSUME NEW a \in DOMAIN acc, NEW b \in DOMAIN new PROVE acc[a].path # new[b].path
        <5>1. PICK k \in 1..(n - 1) : \E j \in DOMAIN spec[k].paths :
                    spec[k].host = h /\ acc[a].path = spec[k].paths[j].path
          BY <2>1 DEF HostPathsOnce
        <5> QED BY <3>1, <3>5, <5>1 DEF PathsOnce
      <4> DEFINE both == acc \o new
      <4>3. /\ both \in Seq(T)
            /\ \A x \in DOMAIN both : (x \in DOMAIN acc /\ both[x] = acc[x]) \/ \E j \in DOMAIN new : both[x] = new[j]
        <5> HIDE DEF T, new
        <5>1. both \in Seq(T) /\ ToSet(both) = ToSet(acc) \cup ToSet(new)
          BY <3>3, ToSetOfConcat
        <5>2. ASSUME NEW x \in DOMAIN both, x \notin DOMAIN acc
              PROVE  \E j \in DOMAIN new : both[x] = new[j]
          <6>1. x - Len(acc) \in DOMAIN new /\ both[x] = new[x - Len(acc)]
            BY <3>3, <5>2
          <6> QED BY <6>1
        <5>3. \A x \in DOMAIN both : x \in DOMAIN acc => both[x] = acc[x]
          BY <3>3
        <5> QED BY <5>1, <5>2, <5>3
      <4>4. OnceEach(both)
        <5> HIDE DEF T, new
        <5>1. OnceEach(acc)
          BY <2>1 DEF HostPathsOnce
        <5> QED BY <3>3, <4>1, <4>2, <5>1, OnceTogether
      <4>5. PathsAtHost(h, acc, spec[n]) = both
        BY <3>5 DEF PathsAtHost
      <4> HIDE DEF both
      <4>6. ASSUME NEW x \in DOMAIN both
            PROVE  \E k \in 1..n : \E j \in DOMAIN spec[k].paths :
                        spec[k].host = h /\ both[x].path = spec[k].paths[j].path
        <5>1. CASE x \in DOMAIN acc /\ both[x] = acc[x]
          BY <2>1, <3>1, <5>1 DEF HostPathsOnce
        <5>2. CASE \E j \in DOMAIN new : both[x] = new[j]
          BY <3>1, <3>5, <5>2
        <5> QED BY <4>3, <5>1, <5>2
      <4> QED BY <4>3, <4>4, <4>5, <4>6 DEF HostPathsOnce
    <3> QED BY <3>4, <3>5
  <2> QED BY <2>1 DEF HostPathLoop!EveryTurnKeeps
<1>4. HostPathsOnce(h, spec, Len(spec), ps)
  <2>1. spec \in Seq(ToSet(spec))
    BY DEF AreRules
  <2> QED BY <1>1, <1>2, <1>3, <2>1, HostPathLoop!LoopRule
<1>5. LastPaths(spec)[h] = ps
  BY DEF LastPaths, FoldLeft, MapThenFoldSet, HostPathLoop!Folded, PathsAtHost
<1> QED BY <1>4, <1>5 DEF HostPathsOnce

\* The first n parsed servers are installed, and their hosts gone from last.
Complete(parsed, n, last, st) ==
    /\ \A a \in 1..n : parsed[a].host \in DOMAIN st.servers
    /\ \A a \in 1..n : \A q \in DOMAIN parsed[a].locs :
            /\ q \in DOMAIN st.servers[parsed[a].host]
            /\ st.servers[parsed[a].host][q] = parsed[a].locs[q]
    /\ DOMAIN st.last = DOMAIN last \ {parsed[a].host : a \in 1..n}
    /\ \A h \in DOMAIN st.last : st.last[h] = last[h]

ServersComplete(ing, aim, n, st) == Complete(aim.parsed, n, aim.last, st)
CompleteLoop == INSTANCE FoldLemmas WITH Op <- ServerInstalled, Last <- Max, Kept <- ServersComplete

LEMMA InstallServerCompletes ==
    ASSUME NEW ing, NEW T, NEW parsed \in Seq(T), ServersApart(parsed),
           NEW last, \A h \in DOMAIN last : OnceEach(last[h]),
           NEW n \in 1..Len(parsed), NEW st, Complete(parsed, n - 1, last, st)
    PROVE  Complete(parsed, n, last, InstallServer(st, parsed[n], ing))
<1> DEFINE s       == parsed[n]
           h       == s.host
           old     == IF h \in DOMAIN st.last THEN st.last[h] ELSE <<>>
           removed == {old[k].path : k \in {m \in DOMAIN old :
                            \/ old[m].path \notin DOMAIN s.locs
                            \/ \E j \in 1..(m - 1) : old[j].path = old[m].path}}
           new     == InstallServer(st, s, ing)
           before  == st.servers
           after   == new.servers
<1>1. /\ \A a \in 1..n : a = n \/ a \in 1..(n - 1)
      /\ n \in 1..n /\ \A a \in 1..(n - 1) : a \in 1..n /\ a # n
      /\ DOMAIN parsed = 1..Len(parsed) /\ \A a \in 1..n : a \in DOMAIN parsed
  OBVIOUS
<1>2. removed \cap DOMAIN s.locs = {}
  <2>1. h \in DOMAIN st.last => OnceEach(old)
    BY DEF Complete
  <2>2. h \notin DOMAIN st.last => removed = {}
    OBVIOUS
  <2>3. CASE h \in DOMAIN st.last
    <3> HIDE DEF old
    <3> QED BY <2>1, <2>3 DEF OnceEach
  <2> QED BY <2>2, <2>3
<1>3. (\E a \in 1..(n - 1) : parsed[a].host = h) => removed = {}
  <2>1. (\E a \in 1..(n - 1) : parsed[a].host = h) => h \notin DOMAIN st.last
    BY DEF Complete
  <2> QED BY <2>1
<1>4. /\ new.last = Without(st.last, {h})
      /\ after = IF h \in DOMAIN before THEN [before EXCEPT ![h] = Without(Over(s.locs, @), removed)]
                 ELSE With(before, h, s.locs)
  BY DEF InstallServer
<1> HIDE DEF new, removed, before, after, old
<1>5. DOMAIN after = DOMAIN before \cup {h} /\ \A g \in DOMAIN before : g # h => after[g] = before[g]
  BY <1>4 DEF With
<1>6. /\ \A q \in DOMAIN s.locs : q \in DOMAIN after[h] /\ after[h][q] = s.locs[q]
      /\ h \in DOMAIN before => \A q \in DOMAIN before[h] \ removed : q \notin DOMAIN s.locs =>
            q \in DOMAIN after[h] /\ after[h][q] = before[h][q]
  <2>1. CASE h \in DOMAIN before
    <3>1. after[h] = Without(Over(s.locs, before[h]), removed)
      BY <1>4, <2>1
    <3> QED BY <1>2, <3>1 DEF Without, Restrict, Over
  <2>2. CASE h \notin DOMAIN before
    <3>1. after[h] = s.locs
      BY <1>4, <2>2 DEF With
    <3> QED BY <2>2, <3>1
  <2> QED BY <2>1, <2>2
<1>7. ASSUME NEW a \in 1..n, NEW q \in DOMAIN parsed[a].locs
      PROVE  q \in DOMAIN after[parsed[a].host] /\ after[parsed[a].host][q] = parsed[a].locs[q]
  <2>1. CASE a = n
    BY <1>6, <2>1
  <2>2. CASE a # n
    <3>1. /\ a \in 1..(n - 1) /\ parsed[a].host \in DOMAIN before
          /\ q \in DOMAIN before[parsed[a].host] /\ before[parsed[a].host][q] = parsed[a].locs[q]
      BY <1>1, <2>2 DEF Complete, before
    <3>2. CASE parsed[a].host # h
      BY <1>5, <3>1, <3>2
    <3>3. CASE parsed[a].host = h
      <4>1. removed = {}
        BY <1>3, <3>1, <3>3
      <4>2. q \notin DOMAIN s.locs
        BY <1>1, <2>2, <3>3 DEF ServersApart
      <4> QED BY <1>6, <3>1, <3>3, <4>1, <4>2
    <3> QED BY <3>2, <3>3
  <2> QED BY <2>1, <2>2
<1>8. \A a \in 1..n : parsed[a].host \in DOMAIN after
  BY <1>1, <1>5 DEF Complete, before
<1>9. /\ DOMAIN new.last = DOMAIN st.last \ {h}
      /\ \A g \in DOMAIN new.last : new.last[g] = st.last[g]
  BY <1>4 DEF Without, Restrict
<1>10. /\ DOMAIN new.last = DOMAIN last \ {parsed[a].host : a \in 1..n}
       /\ \A g \in DOMAIN new.last : new.last[g] = last[g]
  <2>1. {parsed[a].host : a \in 1..n} = {parsed[a].host : a \in 1..(n - 1)} \cup {h}
    BY <1>1
  <2> QED BY <1>9, <2>1 DEF Complete
<1>11. Complete(parsed, n, last, new)
  BY <1>7, <1>8, <1>10 DEF Complete, after
<1> QED BY <1>11 DEF new

LEMMA ServersGetComplete ==
    ASSUME NEW ing, NEW T, NEW parsed \in Seq(T), ServersApart(parsed),
           NEW old, \A h \in DOMAIN old.last : OnceEach(old.last[h])
    PROVE  Complete(parsed, Len(parsed), old.last, InstallServers(old, parsed, ing))
<1> DEFINE aim == [parsed |-> parsed, last |-> old.last]
           st  == CompleteLoop!Folded(ing, old, parsed)
<1>0. aim.parsed = parsed /\ aim.last = old.last
  OBVIOUS
<1>1. CompleteLoop!OneByOne
  BY MaxIsLast, Induction DEF CompleteLoop!OneByOne
<1>2. ServersComplete(ing, aim, 0, old)
  BY DEF ServersComplete, Complete
<1> HIDE DEF aim
<1>3. CompleteLoop!EveryTurnKeeps(ing, aim, parsed)
  BY <1>0, InstallServerCompletes DEF CompleteLoop!EveryTurnKeeps, ServersComplete, ServerInstalled
<1>4. ServersComplete(ing, aim, Len(parsed), st)
  BY <1>1, <1>2, <1>3, CompleteLoop!LoopRule
<1>5. InstallServers(old, parsed, ing) = st
  BY DEF InstallServers, FoldLeft, MapThenFoldSet, CompleteLoop!Folded, ServerInstalled
<1> QED BY <1>0, <1>4, <1>5 DEF ServersComplete

\* Every host that the status lists is a host of the specification.
KeepsHosts(last, spec) ==
    \A h \in DOMAIN last : \E r \in ToSet(spec) : r.host = h /\ r.paths # <<>>

\* The configuration has the locations and the upstreams of the specification.
Installed(ing, spec, addresses, cfg) ==
    \A r \in ToSet(spec) : \A p \in ToSet(r.paths) :
        /\ Configured(r.host, p.path, cfg.servers)
        /\ cfg.servers[r.host][p.path] = Location(ing, p, addresses)
        /\ addresses[p.svc] # {} => /\ UpstreamOf(ing, p) \in DOMAIN cfg.ups
                                    /\ cfg.ups[UpstreamOf(ing, p)].eps = addresses[p.svc]

LEMMA InstallationComplete ==
    ASSUME NEW ing, NEW spec, AreRules(spec), PathsOnce(spec), NEW addresses,
           NEW last, KeepsHosts(last, spec), \A h \in DOMAIN last : OnceEach(last[h]),
           NEW cfg, {"servers", "ups"} \subseteq DOMAIN cfg,
           NEW out \in updateServerAndUpstreamToCfg(cfg, extendingressToServer(ing, spec, addresses), last, ing)
    PROVE  /\ ~out.panicked /\ Installed(ing, spec, addresses, out.cfg)
           /\ DOMAIN out.last = {}
<1> DEFINE c       == [ing |-> ing, addresses |-> addresses]
           servers == ParsedServers(ing, spec, addresses)
           ups     == ParsedUpstreams(ing, spec, addresses)
           parsed  == extendingressToServer(ing, spec, addresses)
           old     == [servers |-> cfg.servers, ups |-> cfg.ups, last |-> last]
           st      == InstallServers(old, servers, ing)
           left    == Without(last, {s.host : s \in ToSet(servers)})
           known   == DOMAIN left \cap DOMAIN st.servers
<1>1. ServersAdded(c, spec, Len(spec), servers) /\ c.ing = ing /\ c.addresses = addresses
  BY ServersOfRules
<1>2. parsed.servers = servers /\ parsed.ups = ups
  BY DEF extendingressToServer
<1>3. ServersServe(ing, spec, addresses, servers)
  BY ParsedServersServe
<1>4. UpstreamsServe(ing, spec, addresses, ups)
  BY ParsedUpstreamsServe
<1>5. old.last = last /\ old.servers = cfg.servers /\ old.ups = cfg.ups
  OBVIOUS
<1> HIDE DEF c, servers, ups, old
<1>6. Complete(servers, Len(servers), last, st) /\ DOMAIN servers = 1..Len(servers)
  <2>1. \E T : servers \in Seq(T)
    BY <1>1 DEF ServersAdded
  <2>2. ServersApart(servers)
    BY <1>1 DEF ServersAdded
  <2> QED BY <1>5, <2>1, <2>2, ServersGetComplete
<1>7. DOMAIN left = {}
  <2>1. DOMAIN left = DOMAIN last \ {s.host : s \in ToSet(servers)}
    BY DEF Without, Restrict
  <2>2. ASSUME NEW h \in DOMAIN last PROVE \E s \in ToSet(servers) : s.host = h
    <3>1. PICK r \in ToSet(spec) : r.host = h /\ r.paths # <<>>
      BY DEF KeepsHosts
    <3>2. PICK k \in 1..Len(spec) : r = spec[k]
      BY DEF AreRules, ToSet
    <3>3. PICK a \in DOMAIN servers : servers[a] = ServerOf(ing, spec[k], addresses)
      BY <1>1, <3>1, <3>2 DEF ServersAdded
    <3> QED BY <3>1, <3>2, <3>3 DEF ServerOf, ToSet
  <2> QED BY <2>1, <2>2
<1>8. out = [cfg |-> DropHosts(cfg, st, known, ups), last |-> left, panicked |-> FALSE]
  <2>1. known = DOMAIN left
    BY <1>7
  <2> HIDE DEF st, left, parsed
  <2> QED BY <1>2, <2>1 DEF updateServerAndUpstreamToCfg, st, left, old, parsed
<1> HIDE DEF st, left
<1>9. known = {}
  BY <1>7
<1> DEFINE proxies == UNION {{st.servers[h][q].proxy : q \in DOMAIN st.servers[h]} : h \in known}
           kept    == Without(st.servers, known)
           ups2    == Over(ups, Without(st.ups, proxies))
<1>10. out.cfg.servers = kept /\ out.cfg.ups = ups2 /\ out.panicked = FALSE /\ out.last = left
  <2>1. DropHosts(cfg, st, known, ups) = [cfg EXCEPT !.servers = kept, !.ups = ups2]
    BY DEF DropHosts
  <2> HIDE DEF kept, ups2, known
  <2> QED BY <1>8, <2>1
<1>11. DOMAIN kept = DOMAIN st.servers /\ \A h \in DOMAIN kept : kept[h] = st.servers[h]
  BY <1>9 DEF Without, Restrict
<1>12. \A u \in DOMAIN ups : u \in DOMAIN ups2 /\ ups2[u] = ups[u]
  <2> HIDE DEF proxies
  <2> QED BY DEF Over
<1> HIDE DEF kept, ups2
<1>13. ASSUME NEW r \in ToSet(spec), NEW p \in ToSet(r.paths)
       PROVE  /\ Configured(r.host, p.path, kept)
              /\ kept[r.host][p.path] = Location(ing, p, addresses)
              /\ addresses[p.svc] # {} => /\ UpstreamOf(ing, p) \in DOMAIN ups2
                                          /\ ups2[UpstreamOf(ing, p)].eps = addresses[p.svc]
  <2>1. PICK a \in DOMAIN servers :
            /\ servers[a].host = r.host /\ p.path \in DOMAIN servers[a].locs
            /\ servers[a].locs[p.path] = Location(ing, p, addresses)
    BY <1>3 DEF ServersServe
  <2>2. /\ r.host \in DOMAIN st.servers /\ p.path \in DOMAIN st.servers[r.host]
        /\ st.servers[r.host][p.path] = Location(ing, p, addresses)
    BY <1>6, <2>1 DEF Complete
  <2> QED BY <1>4, <1>11, <1>12, <2>2 DEF Configured, UpstreamsServe
<1> QED BY <1>7, <1>10, <1>13 DEF Installed
------------------------------------------------------------------------------
(***************************************************************************)
(* What is in the configuration is complete: every location leads to an    *)
(* upstream that is there.  Every operation keeps that for an ingress with *)
(* one host, since a location leads to the upstream of its own path.       *)
(***************************************************************************)
ByPath(servers) ==
    \A h \in DOMAIN servers : \A q \in DOMAIN servers[h] :
        servers[h][q].proxy = Unavailable \/ servers[h][q].proxy[3] = q

NoneDangles(servers, ups) ==
    \A h \in DOMAIN servers : \A q \in DOMAIN servers[h] :
        servers[h][q].proxy \in DOMAIN ups \cup {Unavailable}

\* The locations of the ingress are those at the hosts H.
OwnHosts(ing, H, servers) ==
    /\ OwnAt(ing, H, servers)
    /\ \A h \in DOMAIN servers \ H : \A q \in DOMAIN servers[h] : ~OfIngress(ing, servers[h][q].proxy)

OneHost(H) == \A g, h \in H : g = h

LEMMA DeletionLeavesProxies ==
    ASSUME NEW ing, NEW H, OneHost(H), NEW groups, GroupsAt(H, groups),
           NEW cfg, {"servers", "ups"} \subseteq DOMAIN cfg,
           OwnHosts(ing, H, cfg.servers), ByPath(cfg.servers), NoneDangles(cfg.servers, cfg.ups)
    PROVE  LET new == delServerAndUpstreamFromCfg(cfg, groups).cfg
           IN  ByPath(new.servers) /\ NoneDangles(new.servers, new.ups)
<1> DEFINE new == delServerAndUpstreamFromCfg(cfg, groups).cfg
<1>1. ShrunkAt(H, cfg, new.servers, new.ups)
  BY DeletionShrinks
<1> HIDE DEF new
<1>2. ByPath(new.servers)
  BY <1>1 DEF ShrunkAt, ByPath
<1>3. ASSUME NEW h \in DOMAIN new.servers, NEW q \in DOMAIN new.servers[h],
             new.servers[h][q].proxy # Unavailable
      PROVE  new.servers[h][q].proxy \in DOMAIN new.ups
  <2> DEFINE u == new.servers[h][q].proxy
  <2>1. /\ h \in DOMAIN cfg.servers /\ q \in DOMAIN cfg.servers[h] /\ u = cfg.servers[h][q].proxy
        /\ u \in DOMAIN cfg.ups /\ u[3] = q
    BY <1>1, <1>3 DEF ShrunkAt, NoneDangles, ByPath
  <2>2. ASSUME NEW g \in H \cap DOMAIN cfg.servers, NEW p \in DOMAIN cfg.servers[g],
               u = cfg.servers[g][p].proxy
        PROVE  g = h /\ p = q
    <3>1. OfIngress(ing, u)
      BY <1>3, <2>2 DEF OwnHosts, OwnAt
    <3>2. h \in H
      BY <2>1, <3>1 DEF OwnHosts
    <3>3. p = u[3]
      BY <1>3, <2>2 DEF ByPath
    <3> QED BY <2>1, <3>2, <3>3 DEF OneHost
  <2> HIDE DEF u
  <2>3. u \in DOMAIN new.ups
    BY <1>1, <2>1, <2>2 DEF ShrunkAt
  <2> QED BY <2>3 DEF u
<1>4. NoneDangles(new.servers, new.ups)
  BY <1>3 DEF NoneDangles
<1> QED BY <1>2, <1>4 DEF new

\* An endpoints update takes an upstream away only where the specification
\* names the service: the location of the path then leads to 503.
LEMMA EndpointsLeaveProxies ==
    ASSUME NEW ing, NEW H, OneHost(H), NEW spec, RulesAt(H, spec),
           NEW cfg, {"servers", "ups"} \subseteq DOMAIN cfg, AreLocations(cfg.servers),
           OwnHosts(ing, H, cfg.servers), ByPath(cfg.servers), NoneDangles(cfg.servers, cfg.ups),
           NEW svc, NEW q, NEW addresses, \E r \in ToSet(spec) : Names(r, svc)
    PROVE  LET new == updateEndpointsToCfg(cfg, ing, svc, q, spec, addresses).cfg
           IN  ByPath(new.servers) /\ NoneDangles(new.servers, new.ups)
<1> DEFINE new == updateEndpointsToCfg(cfg, ing, svc, q, spec, addresses).cfg
           up  == getProxyPass(ing, svc, q)
<1>1. /\ RedirectedAt(H, up, q, cfg.servers, new.servers)
      /\ DOMAIN new.ups \subseteq DOMAIN cfg.ups \cup {up}
      /\ \A u \in DOMAIN cfg.ups \ {up} : u \in DOMAIN new.ups /\ new.ups[u] = cfg.ups[u]
  BY EndpointsRedirect
<1>2. up[3] = q /\ OfIngress(ing, up)
  BY NamesOfUpstreams DEF getProxyPass
<1>3. PICK r \in ToSet(spec) : Names(r, svc)
  OBVIOUS
<1>4. AreRules(spec) /\ r.host \in H /\ \A x \in ToSet(spec) : x.host = r.host
  BY DEF RulesAt, AreRules, OneHost
<1>5. Configured(r.host, q, cfg.servers) =>
        /\ new.servers[r.host][q].proxy = IF addresses = {} THEN Unavailable ELSE up
        /\ addresses # {} => up \in DOMAIN new.ups
  <2> SUFFICES ASSUME Configured(r.host, q, cfg.servers)
               PROVE  /\ new.servers[r.host][q].proxy = IF addresses = {} THEN Unavailable ELSE up
                      /\ addresses # {} => up \in DOMAIN new.ups
    OBVIOUS
  <2>1. /\ new.servers[r.host][q] =
                [cfg.servers[r.host][q] EXCEPT !.proxy = IF addresses = {} THEN Unavailable ELSE up]
        /\ addresses # {} => up \in DOMAIN new.ups
    <3>1. \A x \in ToSet(spec) : Names(x, svc) => Configured(x.host, q, cfg.servers)
      BY <1>4
    <3> QED BY <1>3, <1>4, <3>1, EndpointsServed
  <2>2. DOMAIN cfg.servers[r.host][q] = {"proxy", "par"}
    BY DEF AreLocations, Configured
  <2> HIDE DEF new, up
  <2> QED BY <2>1, <2>2
<1> HIDE DEF new, up
<1>6. ByPath(new.servers)
  BY <1>1, <1>2 DEF RedirectedAt, ByPath
<1>7. ASSUME NEW h \in DOMAIN new.servers, NEW p \in DOMAIN new.servers[h],
             new.servers[h][p].proxy # Unavailable
      PROVE  new.servers[h][p].proxy \in DOMAIN new.ups
  <2>1. h \in DOMAIN cfg.servers /\ p \in DOMAIN cfg.servers[h]
    BY <1>1 DEF RedirectedAt
  <2>2. CASE h = r.host /\ p = q
    BY <1>5, <1>7, <2>1, <2>2 DEF Configured
  <2>3. CASE ~(h = r.host /\ p = q)
    <3>1. new.servers[h][p] = cfg.servers[h][p]
      BY <1>1, <1>4, <2>1, <2>3 DEF RedirectedAt, OneHost
    <3>2. new.servers[h][p].proxy # up
      <4>1. CASE h \in H
        BY <1>2, <1>4, <1>7, <2>1, <2>3, <3>1, <4>1 DEF ByPath, OneHost
      <4>2. CASE h \notin H
        BY <1>2, <2>1, <3>1, <4>2 DEF OwnHosts
      <4> QED BY <4>1, <4>2
    <3> QED BY <1>1, <1>7, <2>1, <3>1, <3>2 DEF NoneDangles
  <2> QED BY <2>2, <2>3
<1>8. NoneDangles(new.servers, new.ups)
  BY <1>7 DEF NoneDangles
<1> QED BY <1>6, <1>8 DEF new

\* What installing needs to know of the parsed ingress.
ParsedByPath(ing, H, parsed) ==
    \A a \in DOMAIN parsed : /\ parsed[a].host \in H
                             /\ \A q \in DOMAIN parsed[a].locs : LET u == parsed[a].locs[q].proxy IN
                                    u = Unavailable \/ (OfIngress(ing, u) /\ u[3] = q)

\* After n of the parsed servers a location is one of theirs, or its upstream
\* is still there.
Linked(ing, H, parsed, n, st) ==
    /\ DOMAIN st = {"servers", "ups", "last"}
    /\ OwnHosts(ing, H, st.servers) /\ ByPath(st.servers)
    /\ \A h \in DOMAIN st.servers : \A q \in DOMAIN st.servers[h] :
        \/ \E a \in 1..n : /\ parsed[a].host = h /\ q \in DOMAIN parsed[a].locs
                           /\ st.servers[h][q] = parsed[a].locs[q]
        \/ st.servers[h][q].proxy \in DOMAIN st.ups \cup {Unavailable}

ServersLinked(ing, aim, n, st) == Linked(ing, aim.hosts, aim.parsed, n, st)
LinkLoop == INSTANCE FoldLemmas WITH Op <- ServerInstalled, Last <- Max, Kept <- ServersLinked

LEMMA InstallServerLinks ==
    ASSUME NEW ing, NEW H, OneHost(H), NEW T, NEW parsed \in Seq(T), ParsedByPath(ing, H, parsed),
           NEW n \in 1..Len(parsed), NEW st, Linked(ing, H, parsed, n - 1, st)
    PROVE  Linked(ing, H, parsed, n, InstallServer(st, parsed[n], ing))
<1> DEFINE s      == parsed[n]
           h      == s.host
           new    == InstallServer(st, s, ing)
           before == st.servers
           after  == new.servers
<1>1. /\ \A a \in 1..(n - 1) : a \in 1..n
      /\ n \in 1..n /\ n \in DOMAIN parsed
  OBVIOUS
<1>2. /\ h \in H
      /\ \A q \in DOMAIN s.locs : s.locs[q].proxy = Unavailable \/ (OfIngress(ing, s.locs[q].proxy) /\ s.locs[q].proxy[3] = q)
  BY <1>1 DEF ParsedByPath
<1>3. /\ OwnHosts(ing, H, before) /\ ByPath(before)
      /\ \A g \in DOMAIN before : \A q \in DOMAIN before[g] :
            \/ \E a \in 1..(n - 1) : /\ parsed[a].host = g /\ q \in DOMAIN parsed[a].locs
                                     /\ before[g][q] = parsed[a].locs[q]
            \/ before[g][q].proxy \in DOMAIN st.ups \cup {Unavailable}
  BY DEF Linked
<1>4. PICK names :
        /\ \A u \in names : OfIngress(ing, u)
        /\ DOMAIN new = {"servers", "ups", "last"}
        /\ DOMAIN after = DOMAIN before \cup {h}
        /\ \A g \in DOMAIN before : g # h => after[g] = before[g]
        /\ \A q \in DOMAIN after[h] :
            \/ q \in DOMAIN s.locs /\ after[h][q] = s.locs[q]
            \/ /\ h \in DOMAIN before /\ q \in DOMAIN before[h] /\ after[h][q] = before[h][q]
               /\ \A u \in names : u[3] # q
        /\ DOMAIN new.ups = DOMAIN st.ups \ names
  <2>1. CASE h \notin DOMAIN before
    <3>1. DOMAIN new = {"servers", "ups", "last"} /\ after = With(before, h, s.locs) /\ new.ups = st.ups
      BY <2>1 DEF InstallServer
    <3> HIDE DEF new, before
    <3>2. /\ DOMAIN after = DOMAIN before \cup {h} /\ after[h] = s.locs
          /\ \A g \in DOMAIN before : g # h => after[g] = before[g]
      BY <3>1 DEF With
    <3> WITNESS {}
    <3> HIDE DEF s, h, after
    <3> QED BY <3>1, <3>2
  <2>2. CASE h \in DOMAIN before
    <3> DEFINE was   == IF h \in DOMAIN st.last THEN st.last[h] ELSE <<>>
               names == {getProxyPass(ing, p.svc, p.path) : p \in ToSet(was)}
               removed == {was[k].path : k \in {m \in DOMAIN was :
                                \/ was[m].path \notin DOMAIN s.locs
                                \/ \E j \in 1..(m - 1) : was[j].path = was[m].path}}
    <3>1. \A u \in names : OfIngress(ing, u)
      <4> HIDE DEF was
      <4> QED BY NamesOfUpstreams
    <3>2. new = [servers |-> [before EXCEPT ![h] = Without(Over(s.locs, @), removed)],
                 ups     |-> Without(st.ups, names),
                 last    |-> Without(st.last, {h})]
      BY <2>2 DEF InstallServer
    <3>3. ASSUME NEW q, q \notin removed, q \notin DOMAIN s.locs, NEW u \in names
          PROVE  u[3] # q
      <4> HIDE DEF was
      <4>1. PICK k \in DOMAIN was : u = getProxyPass(ing, was[k].svc, was[k].path)
        BY <3>3 DEF ToSet
      <4>2. was[k].path # q
        BY <3>3
      <4> QED BY <4>1, <4>2 DEF getProxyPass
    <3> HIDE DEF new, names, removed, before
    <3>4. /\ DOMAIN new = {"servers", "ups", "last"}
          /\ after = [before EXCEPT ![h] = Without(Over(s.locs, @), removed)]
          /\ new.ups = Without(st.ups, names)
      BY <3>2
    <3>5. after[h] = Without(Over(s.locs, before[h]), removed)
      BY <2>2, <3>4
    <3>6. \A q \in DOMAIN after[h] :
            \/ q \in DOMAIN s.locs /\ after[h][q] = s.locs[q]
            \/ /\ q \in DOMAIN before[h] /\ after[h][q] = before[h][q]
               /\ q \notin removed /\ q \notin DOMAIN s.locs
      BY <3>5 DEF Without, Restrict, Over
    <3>7. DOMAIN new.ups = DOMAIN st.ups \ names
      BY <3>4 DEF Without, Restrict
    <3>8. DOMAIN after = DOMAIN before \cup {h} /\ \A g \in DOMAIN before : g # h => after[g] = before[g]
      BY <2>2, <3>4
    <3> HIDE DEF s, h, after
    <3> QED BY <2>2, <3>1, <3>3, <3>4, <3>6, <3>7, <3>8
  <2> QED BY <2>1, <2>2
<1> HIDE DEF s, h, new, before, after
<1>5. ASSUME NEW g \in DOMAIN after, NEW q \in DOMAIN after[g]
      PROVE  /\ after[g][q].proxy = Unavailable \/ after[g][q].proxy[3] = q
             /\ g \in H => after[g][q].proxy = Unavailable \/ OfIngress(ing, after[g][q].proxy)
             /\ g \notin H => ~OfIngress(ing, after[g][q].proxy)
  <2>1. CASE g = h /\ q \in DOMAIN s.locs /\ after[h][q] = s.locs[q]
    BY <1>2, <2>1
  <2>2. CASE g \in DOMAIN before /\ q \in DOMAIN before[g] /\ after[g][q] = before[g][q]
    BY <1>3, <2>2 DEF OwnHosts, OwnAt, ByPath
  <2> QED BY <1>4, <2>1, <2>2
<1>6. ASSUME NEW g \in DOMAIN after, NEW q \in DOMAIN after[g]
      PROVE  \/ \E a \in 1..n : /\ parsed[a].host = g /\ q \in DOMAIN parsed[a].locs
                                /\ after[g][q] = parsed[a].locs[q]
             \/ after[g][q].proxy \in DOMAIN new.ups \cup {Unavailable}
  <2>1. CASE g = h /\ q \in DOMAIN s.locs /\ after[h][q] = s.locs[q]
    BY <1>1, <2>1 DEF h, s
  <2>2. CASE /\ g \in DOMAIN before /\ q \in DOMAIN before[g] /\ after[g][q] = before[g][q]
             /\ g # h \/ \A u \in names : u[3] # q
    <3>1. CASE \E a \in 1..(n - 1) : /\ parsed[a].host = g /\ q \in DOMAIN parsed[a].locs
                                     /\ before[g][q] = parsed[a].locs[q]
      BY <1>1, <2>2, <3>1
    <3>2. CASE before[g][q].proxy \in DOMAIN st.ups \ {Unavailable}
      <4>1. CASE g # h
        <5>1. g \notin H
          BY <1>2, <4>1 DEF OneHost
        <5> QED BY <1>3, <1>4, <2>2, <3>2, <5>1 DEF OwnHosts
      <4>2. CASE \A u \in names : u[3] # q
        BY <1>3, <1>4, <2>2, <3>2, <4>2 DEF ByPath
      <4> QED BY <2>2, <4>1, <4>2
    <3>3. CASE before[g][q].proxy = Unavailable
      BY <2>2, <3>3
    <3> QED BY <1>3, <2>2, <3>1, <3>2, <3>3
  <2> QED BY <1>4, <2>1, <2>2
<1>7. OwnHosts(ing, H, after) /\ ByPath(after)
  BY <1>5 DEF OwnHosts, OwnAt, ByPath
<1>8. Linked(ing, H, parsed, n, new)
  BY <1>4, <1>6, <1>7 DEF Linked, after
<1> QED BY <1>8 DEF new, s

LEMMA ServersGetLinked ==
    ASSUME NEW ing, NEW H, OneHost(H), NEW T, NEW parsed \in Seq(T), ParsedByPath(ing, H, parsed),
           NEW old, DOMAIN old = {"servers", "ups", "last"},
           OwnHosts(ing, H, old.servers), ByPath(old.servers), NoneDangles(old.servers, old.ups)
    PROVE  Linked(ing, H, parsed, Len(parsed), InstallServers(old, parsed, ing))
<1> DEFINE aim == [hosts |-> H, parsed |-> parsed]
           st  == LinkLoop!Folded(ing, old, parsed)
<1>1. LinkLoop!OneByOne
  BY MaxIsLast, Induction DEF LinkLoop!OneByOne
<1>2. ServersLinked(ing, aim, 0, old)
  BY DEF ServersLinked, Linked, NoneDangles
<1>3. LinkLoop!EveryTurnKeeps(ing, aim, parsed)
  BY InstallServerLinks DEF LinkLoop!EveryTurnKeeps, ServerInstalled, ServersLinked
<1>4. ServersLinked(ing, aim, Len(parsed), st)
  <2> HIDE DEF aim
  <2> QED BY <1>1, <1>2, <1>3, LinkLoop!LoopRule
<1>5. InstallServers(old, parsed, ing) = st
  BY DEF InstallServers, FoldLeft, MapThenFoldSet, LinkLoop!Folded, ServerInstalled
<1> HIDE DEF st
<1> QED BY <1>4, <1>5 DEF ServersLinked

\* Where a parsed location leads is among the parsed upstreams.
LEMMA ParsedProxies ==
    ASSUME NEW ing, NEW H, NEW spec, RulesAt(H, spec), NEW addresses
    PROVE  LET parsed == extendingressToServer(ing, spec, addresses)
           IN  /\ \E T : parsed.servers \in Seq(T)
               /\ ParsedByPath(ing, H, parsed.servers)
               /\ \A a \in DOMAIN parsed.servers : \A q \in DOMAIN parsed.servers[a].locs :
                        parsed.servers[a].locs[q].proxy \in DOMAIN parsed.ups \cup {Unavailable}
<1> DEFINE c       == [ing |-> ing, addresses |-> addresses]
           servers == ParsedServers(ing, spec, addresses)
           ups     == ParsedUpstreams(ing, spec, addresses)
<1>1. AreRules(spec) /\ DOMAIN spec = 1..Len(spec)
  BY DEF RulesAt, AreRules
<1>2. ServersAdded(c, spec, Len(spec), servers) /\ c.ing = ing /\ c.addresses = addresses
  BY <1>1, ServersOfRules
<1>3. UpstreamsServe(ing, spec, addresses, ups)
  BY <1>1, ParsedUpstreamsServe
<1>4. /\ extendingressToServer(ing, spec, addresses).servers = servers
      /\ extendingressToServer(ing, spec, addresses).ups = ups
  BY DEF extendingressToServer
<1> HIDE DEF c, servers, ups
<1>5. ASSUME NEW a \in DOMAIN servers
      PROVE  /\ servers[a].host \in H
             /\ \A q \in DOMAIN servers[a].locs : LET u == servers[a].locs[q].proxy IN
                    \/ u = Unavailable
                    \/ OfIngress(ing, u) /\ u[3] = q /\ u \in DOMAIN ups
  <2>1. PICK k \in 1..Len(spec) : servers[a] = ServerOf(ing, spec[k], addresses)
    BY <1>2 DEF ServersAdded
  <2>2. spec[k] \in ToSet(spec)
    BY <1>1 DEF ToSet
  <2>3. /\ servers[a].host \in H /\ spec[k].paths \in Seq(ToSet(spec[k].paths))
        /\ servers[a].locs = Locations(ing, spec[k].paths, addresses)
    BY <2>1, <2>2 DEF ServerOf, RulesAt
  <2>4. ASSUME NEW q \in DOMAIN servers[a].locs
        PROVE  LET u == servers[a].locs[q].proxy IN
                    u = Unavailable \/ (OfIngress(ing, u) /\ u[3] = q /\ u \in DOMAIN ups)
    <3>1. LocationsFrom(ing, spec[k].paths, addresses, servers[a].locs)
      BY <2>3, LocationsOfPaths
    <3>2. PICK p \in ToSet(spec[k].paths) : p.path = q /\ servers[a].locs[q] = Location(ing, p, addresses)
      BY <2>4, <3>1 DEF LocationsFrom
    <3>3. addresses[p.svc] # {} => UpstreamOf(ing, p) \in DOMAIN ups
      BY <1>3, <2>2 DEF UpstreamsServe
    <3>4. servers[a].locs[q].proxy = IF addresses[p.svc] = {} THEN Unavailable ELSE UpstreamOf(ing, p)
      BY <3>2 DEF Location, UpstreamOf
    <3>5. OfIngress(ing, UpstreamOf(ing, p)) /\ UpstreamOf(ing, p)[3] = q
      BY <3>2, NamesOfUpstreams DEF UpstreamOf, getProxyPass
    <3> QED BY <3>3, <3>4, <3>5
  <2> QED BY <2>3, <2>4
<1>6. \E T : servers \in Seq(T)
  BY <1>2 DEF ServersAdded
<1>7. ParsedByPath(ing, H, servers)
  BY <1>5 DEF ParsedByPath
<1> QED BY <1>4, <1>5, <1>6, <1>7

\* Installing takes away the upstreams of the paths that were there before,
\* and those of a host that is dropped; what stays leads elsewhere.
LEMMA InstallationLeavesProxies ==
    ASSUME NEW ing, NEW H, OneHost(H), NEW spec, RulesAt(H, spec), NEW addresses,
           NEW last, DOMAIN last \subseteq H,
           NEW cfg, {"servers", "ups"} \subseteq DOMAIN cfg,
           OwnHosts(ing, H, cfg.servers), ByPath(cfg.servers), NoneDangles(cfg.servers, cfg.ups),
           NEW out \in updateServerAndUpstreamToCfg(cfg, extendingressToServer(ing, spec, addresses), last, ing)
    PROVE  ByPath(out.cfg.servers) /\ NoneDangles(out.cfg.servers, out.cfg.ups)
<1> DEFINE parsed  == extendingressToServer(ing, spec, addresses)
           servers == parsed.servers
           old     == [servers |-> cfg.servers, ups |-> cfg.ups, last |-> last]
           st      == InstallServers(old, servers, ing)
           hosts   == {s.host : s \in ToSet(servers)}
           left    == Without(last, hosts)
           known   == DOMAIN left \cap DOMAIN st.servers
<1>1. PICK T : servers \in Seq(T)
  BY ParsedProxies
<1>2. /\ ParsedByPath(ing, H, servers)
      /\ \A a \in DOMAIN servers : \A q \in DOMAIN servers[a].locs :
                servers[a].locs[q].proxy \in DOMAIN parsed.ups \cup {Unavailable}
  BY ParsedProxies
<1>3. Linked(ing, H, servers, Len(servers), st)
  <2>1. DOMAIN old = {"servers", "ups", "last"} /\ old.servers = cfg.servers /\ old.ups = cfg.ups
    OBVIOUS
  <2> HIDE DEF servers, old
  <2> QED BY <1>1, <1>2, <2>1, ServersGetLinked
<1>4. DOMAIN left = DOMAIN last \ hosts
  BY DEF Without, Restrict
<1>5. PICK D, added :
        /\ D \subseteq DOMAIN left /\ D \subseteq DOMAIN st.servers
        /\ added = parsed.ups \/ DOMAIN left # {}
        /\ out.cfg = DropHosts(cfg, st, D, added)
  <2> HIDE DEF parsed, st, left
  <2>1. \/ /\ known = DOMAIN left
           /\ out = [cfg |-> DropHosts(cfg, st, known, parsed.ups), last |-> left, panicked |-> FALSE]
        \/ /\ known # DOMAIN left
           /\ \E K \in SUBSET known :
                out = [cfg |-> DropHosts(cfg, st, K, NoServers), last |-> left, panicked |-> TRUE]
    BY DEF updateServerAndUpstreamToCfg, st, left, old, parsed
  <2>2. CASE known = DOMAIN left /\ out.cfg = DropHosts(cfg, st, known, parsed.ups)
    BY <2>2
  <2>3. ASSUME NEW K \in SUBSET known, known # DOMAIN left, out.cfg = DropHosts(cfg, st, K, NoServers)
        PROVE  \E D, added : /\ D \subseteq DOMAIN left /\ D \subseteq DOMAIN st.servers
                             /\ added = parsed.ups \/ DOMAIN left # {}
                             /\ out.cfg = DropHosts(cfg, st, D, added)
    <3>1. K \subseteq DOMAIN left /\ K \subseteq DOMAIN st.servers /\ DOMAIN left # {}
      BY <2>3
    <3> QED BY <2>3, <3>1
  <2> QED BY <2>1, <2>2, <2>3
<1> DEFINE proxies == UNION {{st.servers[h][q].proxy : q \in DOMAIN st.servers[h]} : h \in D}
           kept    == Without(st.servers, D)
           ups2    == Over(added, Without(st.ups, proxies))
<1>6. out.cfg.servers = kept /\ out.cfg.ups = ups2
  <2>1. out.cfg = [cfg EXCEPT !.servers = kept, !.ups = ups2]
    BY <1>5 DEF DropHosts
  <2> HIDE DEF kept, ups2
  <2> QED BY <2>1
<1> HIDE DEF st, left, servers, parsed
<1>7. DOMAIN kept = DOMAIN st.servers \ D /\ \A h \in DOMAIN kept : kept[h] = st.servers[h]
  BY DEF Without, Restrict
<1>8. DOMAIN ups2 = DOMAIN added \cup (DOMAIN st.ups \ proxies)
  <2> HIDE DEF proxies
  <2> QED BY DEF Over, Without, Restrict
<1>9. ASSUME NEW u \in proxies PROVE \E h \in D : \E q \in DOMAIN st.servers[h] : u = st.servers[h][q].proxy
  OBVIOUS
<1> HIDE DEF proxies, kept, ups2, hosts
<1>10. ASSUME NEW h \in DOMAIN kept, NEW q \in DOMAIN kept[h], kept[h][q].proxy # Unavailable
       PROVE  kept[h][q].proxy \in DOMAIN ups2
  <2> DEFINE u == kept[h][q].proxy
  <2>1. h \in DOMAIN st.servers /\ h \notin D /\ q \in DOMAIN st.servers[h] /\ u = st.servers[h][q].proxy
    BY <1>7
  <2>2. CASE \E a \in 1..Len(servers) : /\ servers[a].host = h /\ q \in DOMAIN servers[a].locs
                                         /\ st.servers[h][q] = servers[a].locs[q]
    <3>1. PICK a \in DOMAIN servers : /\ servers[a].host = h /\ q \in DOMAIN servers[a].locs
                                      /\ st.servers[h][q] = servers[a].locs[q]
      BY <1>1, <2>2
    <3>2. h \in H /\ h \in hosts
      BY <1>2, <3>1 DEF ParsedByPath, hosts, ToSet
    <3>3. added = parsed.ups
      BY <1>4, <1>5, <3>2 DEF OneHost
    <3>4. u \in DOMAIN parsed.ups
      BY <1>2, <1>10, <2>1, <3>1
    <3> QED BY <1>8, <3>3, <3>4
  <2>3. CASE u \in DOMAIN st.ups
    <3>1. ASSUME u \in proxies PROVE FALSE
      <4>1. PICK g \in D : \E p \in DOMAIN st.servers[g] : u = st.servers[g][p].proxy
        BY <1>9, <3>1
      <4>2. g \in H /\ g \in DOMAIN st.servers
        BY <1>4, <1>5
      <4>3. OfIngress(ing, u)
        BY <1>3, <1>10, <4>1, <4>2 DEF Linked, OwnHosts, OwnAt
      <4>4. h \in H
        BY <1>3, <2>1, <4>3 DEF Linked, OwnHosts
      <4> QED BY <2>1, <4>2, <4>4 DEF OneHost
    <3> QED BY <1>8, <2>3, <3>1
  <2> QED BY <1>3, <1>10, <2>1, <2>2, <2>3 DEF Linked
<1>11. ByPath(kept)
  BY <1>3, <1>7 DEF Linked, ByPath
<1>12. NoneDangles(kept, ups2)
  BY <1>10 DEF NoneDangles
<1> QED BY <1>6, <1>11, <1>12
------------------------------------------------------------------------------
(***************************************************************************)
(* All or nothing: an ingress whose locations are exactly those of its     *)
(* specification, or none.  A deletion with all its hosts and paths then   *)
(* leaves nothing behind and does not panic.                               *)
(***************************************************************************)
\* The key of a deletion says which hosts and paths the object had.
GroupsOf(spec) ==
    [k \in DOMAIN spec |->
        [host |-> spec[k].host, paths |-> [n \in DOMAIN spec[k].paths |-> spec[k].paths[n].path]]]

\* The groups after the first n name the host h, or its path q.
NamedAfter(groups, n, h, q) ==
    \E k \in DOMAIN groups : k > n /\ groups[k].host = h /\ \E j \in DOMAIN groups[k].paths : groups[k].paths[j] = q

GroupsOnce(groups) ==
    \A k, n \in DOMAIN groups : \A a \in DOMAIN groups[k].paths, b \in DOMAIN groups[n].paths :
        groups[k].host = groups[n].host /\ groups[k].paths[a] = groups[n].paths[b] => k = n /\ a = b

\* The first n paths of the host h are gone, and nothing else.
PathsGone(h, paths, n, old, st) ==
    /\ DOMAIN st = {"servers", "ups", "panicked"} /\ ~st.panicked
    /\ DOMAIN st.servers = DOMAIN old
    /\ \A g \in DOMAIN old : g # h => st.servers[g] = old[g]
    /\ DOMAIN st.servers[h] = DOMAIN old[h] \ {paths[k] : k \in 1..n}

AimedPathsGone(h, aim, n, st) == PathsGone(h, aim.paths, n, aim.old, st)
PathGoneLoop == INSTANCE FoldLemmas WITH Op <- PathDeleted, Last <- Max, Kept <- AimedPathsGone

AllDeleted(h, st, paths) == FoldLeft(LAMBDA acc, q : DeleteLocation(acc, h, q), st, paths)

LEMMA PathsGetGone ==
    ASSUME NEW T, NEW paths \in Seq(T), \A a, b \in DOMAIN paths : paths[a] = paths[b] => a = b,
           NEW st, DOMAIN st = {"servers", "ups", "panicked"}, ~st.panicked,
           NEW h \in DOMAIN st.servers, \A a \in DOMAIN paths : paths[a] \in DOMAIN st.servers[h]
    PROVE  PathsGone(h, paths, Len(paths), st.servers, AllDeleted(h, st, paths))
<1> DEFINE aim == [paths |-> paths, old |-> st.servers]
<1>0. aim.paths = paths /\ aim.old = st.servers
  OBVIOUS
<1>1. PathGoneLoop!OneByOne
  BY MaxIsLast, Induction DEF PathGoneLoop!OneByOne
<1>2. AimedPathsGone(h, aim, 0, st)
  BY DEF AimedPathsGone, PathsGone
<1> HIDE DEF aim
<1>3. PathGoneLoop!EveryTurnKeeps(h, aim, paths)
  <2>1. ASSUME NEW n \in 1..Len(paths), NEW acc, PathsGone(h, paths, n - 1, st.servers, acc)
        PROVE  PathsGone(h, paths, n, st.servers, DeleteLocation(acc, h, paths[n]))
    <3> DEFINE q   == paths[n]
               new == DeleteLocation(acc, h, q)
               old == st.servers
    <3>1. /\ DOMAIN paths = 1..Len(paths) /\ n \in 1..n
          /\ \A k \in 1..(n - 1) : k \in 1..n /\ k # n /\ k \in DOMAIN paths
          /\ \A k \in 1..n : k = n \/ k \in 1..(n - 1)
      OBVIOUS
    <3>2. h \in DOMAIN acc.servers /\ q \in DOMAIN acc.servers[h]
      <4>1. q \in DOMAIN old[h] /\ \A k \in 1..(n - 1) : paths[k] # q
        BY <3>1
      <4> QED BY <2>1, <4>1 DEF PathsGone
    <3>3. /\ DOMAIN new = DOMAIN acc /\ new.panicked = acc.panicked
          /\ new.servers = [acc.servers EXCEPT ![h] = Without(@, {q})]
      BY <2>1, <3>2 DEF DeleteLocation, PathsGone
    <3> HIDE DEF new, q
    <3>4. /\ DOMAIN new.servers = DOMAIN acc.servers
          /\ \A g \in DOMAIN acc.servers : g # h => new.servers[g] = acc.servers[g]
          /\ DOMAIN new.servers[h] = DOMAIN acc.servers[h] \ {q}
      <4>1. /\ new.servers[h] = Without(acc.servers[h], {q}) /\ DOMAIN new.servers = DOMAIN acc.servers
            /\ \A g \in DOMAIN acc.servers : g # h => new.servers[g] = acc.servers[g]
        BY <3>2, <3>3
      <4>2. DOMAIN Without(acc.servers[h], {q}) = DOMAIN acc.servers[h] \ {q}
        BY Fewer
      <4> QED BY <4>1, <4>2
    <3>5. {paths[k] : k \in 1..n} = {paths[k] : k \in 1..(n - 1)} \cup {q}
      BY <3>1 DEF q
    <3> HIDE DEF old
    <3>6. PathsGone(h, paths, n, old, new)
      BY <2>1, <3>3, <3>4, <3>5 DEF PathsGone, old
    <3> QED BY <3>6 DEF old, new, q
  <2> QED BY <1>0, <2>1 DEF PathGoneLoop!EveryTurnKeeps, AimedPathsGone, PathDeleted
<1>4. AimedPathsGone(h, aim, Len(paths), PathGoneLoop!Folded(h, st, paths))
  BY <1>1, <1>2, <1>3, PathGoneLoop!LoopRule
<1>5. AllDeleted(h, st, paths) = PathGoneLoop!Folded(h, st, paths)
  BY DEF AllDeleted, FoldLeft, MapThenFoldSet, PathGoneLoop!Folded, PathDeleted
<1> QED BY <1>0, <1>4, <1>5 DEF AimedPathsGone

\* At the hosts H there is exactly what the groups after the first n name.
GroupsLeft(H, groups, n, st) ==
    /\ DOMAIN st = {"servers", "ups", "panicked"} /\ ~st.panicked
    /\ \A h \in H \cap DOMAIN st.servers : \A q \in DOMAIN st.servers[h] : NamedAfter(groups, n, h, q)
    /\ \A h \in H \cap DOMAIN st.servers : DOMAIN st.servers[h] # {}
    /\ \A k \in DOMAIN groups : k > n => \A j \in DOMAIN groups[k].paths :
            Configured(groups[k].host, groups[k].paths[j], st.servers)

AimedGroupsLeft(none, aim, n, st) == GroupsLeft(aim.hosts, aim.groups, n, st)
GroupLeftLoop == INSTANCE FoldLemmas WITH Op <- GroupDeleted, Last <- Max, Kept <- AimedGroupsLeft

NoEmptyGroup(groups) == \A k \in DOMAIN groups : DOMAIN groups[k].paths # {}

LEMMA DeleteServerLeaves ==
    ASSUME NEW H, NEW groups, GroupsAt(H, groups), GroupsOnce(groups), NoEmptyGroup(groups),
           NEW n \in 1..Len(groups), NEW st, GroupsLeft(H, groups, n - 1, st)
    PROVE  GroupsLeft(H, groups, n, DeleteServer(st, groups[n]))
<1> DEFINE group == groups[n]
           h     == group.host
           paths == group.paths
           st1   == FoldLeft(LAMBDA acc, q : DeleteLocation(acc, h, q), st, paths)
           new   == DeleteServer(st, group)
           now   == IF DOMAIN st1.servers[h] = {} THEN Without(st1.servers, {h}) ELSE st1.servers
<1>1. /\ n \in DOMAIN groups /\ n > n - 1 /\ n \in Nat
      /\ \A k \in DOMAIN groups : k \in Nat /\ (k > n - 1 <=> k = n \/ k > n) /\ ~(k = n /\ k > n)
  <2>1. DOMAIN groups = 1..Len(groups) /\ Len(groups) \in Nat
    BY DEF GroupsAt
  <2> QED BY <2>1
<1>2. h \in H /\ paths \in Seq(ToSet(paths)) /\ DOMAIN paths = 1..Len(paths) /\ DOMAIN paths # {}
  <2>1. h \in H /\ paths \in Seq(ToSet(paths)) /\ DOMAIN paths # {}
    BY <1>1 DEF GroupsAt, NoEmptyGroup
  <2> HIDE DEF paths
  <2> QED BY <2>1
<1>3. h \in DOMAIN st.servers /\ \A j \in DOMAIN paths : paths[j] \in DOMAIN st.servers[h]
  BY <1>1, <1>2 DEF GroupsLeft, Configured
<1>4. \A a, b \in DOMAIN paths : paths[a] = paths[b] => a = b
  BY <1>1 DEF GroupsOnce
<1>5. PathsGone(h, paths, Len(paths), st.servers, st1)
  <2>1. DOMAIN st = {"servers", "ups", "panicked"} /\ ~st.panicked
    BY DEF GroupsLeft
  <2>2. st1 = AllDeleted(h, st, paths)
    BY DEF AllDeleted
  <2> HIDE DEF h, paths, st1
  <2> QED BY <1>2, <1>3, <1>4, <2>1, <2>2, PathsGetGone
<1>6. DOMAIN new = {"servers", "ups", "panicked"} /\ ~new.panicked /\ new.servers = now
  <2>1. DOMAIN st1 = {"servers", "ups", "panicked"} /\ ~st1.panicked /\ h \in DOMAIN st1.servers
    BY <1>3, <1>5 DEF PathsGone
  <2>2. new = [st1 EXCEPT !.servers = IF DOMAIN @[h] = {} THEN Without(@, {h}) ELSE @]
    BY <2>1 DEF DeleteServer
  <2> HIDE DEF st1, new
  <2> QED BY <2>1, <2>2
<1> HIDE DEF st1, new
<1>7. /\ DOMAIN st1.servers = DOMAIN st.servers
      /\ \A g \in DOMAIN st.servers : g # h => st1.servers[g] = st.servers[g]
      /\ DOMAIN st1.servers[h] = DOMAIN st.servers[h] \ {paths[j] : j \in DOMAIN paths}
  BY <1>2, <1>5 DEF PathsGone
<1>8. /\ DOMAIN now \subseteq DOMAIN st.servers /\ (h \in DOMAIN now => DOMAIN now[h] # {})
      /\ \A g \in DOMAIN now : now[g] = st1.servers[g]
      /\ \A g \in DOMAIN st.servers : g # h => g \in DOMAIN now
      /\ DOMAIN st1.servers[h] # {} => h \in DOMAIN now
  <2>1. CASE DOMAIN st1.servers[h] = {}
    <3>1. now = Without(st1.servers, {h})
      BY <2>1
    <3>2. /\ DOMAIN Without(st1.servers, {h}) = DOMAIN st1.servers \ {h}
          /\ \A g \in DOMAIN st1.servers \ {h} : Without(st1.servers, {h})[g] = st1.servers[g]
      BY Fewer
    <3> HIDE DEF now, h
    <3> QED BY <1>7, <2>1, <3>1, <3>2
  <2>2. CASE DOMAIN st1.servers[h] # {}
    BY <1>3, <1>7, <2>2
  <2> QED BY <2>1, <2>2
<1> HIDE DEF now, h, paths
<1>9. ASSUME NEW g \in H \cap DOMAIN now, NEW q \in DOMAIN now[g]
      PROVE  NamedAfter(groups, n, g, q)
  <2>1. g \in DOMAIN st.servers /\ q \in DOMAIN st.servers[g]
    <3>1. g \in DOMAIN st.servers /\ now[g] = st1.servers[g]
      BY <1>8
    <3>2. DOMAIN st1.servers[g] \subseteq DOMAIN st.servers[g]
      <4>1. CASE g = h
        BY <1>7, <4>1
      <4>2. CASE g # h
        <5>1. st1.servers[g] = st.servers[g]
          BY <1>7, <3>1, <4>2
        <5> QED BY <5>1
      <4> QED BY <4>1, <4>2
    <3> QED BY <3>1, <3>2
  <2>2. PICK k \in DOMAIN groups : k > n - 1 /\ groups[k].host = g
                                   /\ \E j \in DOMAIN groups[k].paths : groups[k].paths[j] = q
    BY <2>1 DEF GroupsLeft, NamedAfter
  <2>3. k # n
    <3> SUFFICES ASSUME k = n PROVE FALSE
      OBVIOUS
    <3>1. g = h /\ \E j \in DOMAIN paths : paths[j] = q
      BY <2>2 DEF h, paths
    <3>2. q \in DOMAIN st1.servers[h]
      <4>1. now[g] = st1.servers[g]
        BY <1>8
      <4> QED BY <3>1, <4>1
    <3> QED BY <1>7, <3>1, <3>2
  <2> QED BY <1>1, <2>2, <2>3 DEF NamedAfter
<1>10. \A g \in H \cap DOMAIN now : DOMAIN now[g] # {}
  <2>1. ASSUME NEW g \in H \cap DOMAIN now PROVE DOMAIN now[g] # {}
    <3>1. CASE g = h
      BY <1>8, <3>1
    <3>2. CASE g # h
      <4>1. g \in H \cap DOMAIN st.servers /\ now[g] = st1.servers[g]
        BY <1>8
      <4>2. st1.servers[g] = st.servers[g]
        BY <1>7, <3>2, <4>1
      <4>3. DOMAIN st.servers[g] # {}
        BY <4>1 DEF GroupsLeft
      <4> QED BY <4>1, <4>2, <4>3
    <3> QED BY <3>1, <3>2
  <2> QED BY <2>1
<1>11. ASSUME NEW k \in DOMAIN groups, k > n, NEW j \in DOMAIN groups[k].paths
       PROVE  Configured(groups[k].host, groups[k].paths[j], now)
  <2> DEFINE g == groups[k].host
             q == groups[k].paths[j]
  <2>1. g \in DOMAIN st.servers /\ q \in DOMAIN st.servers[g]
    BY <1>1, <1>11 DEF GroupsLeft, Configured
  <2>2. CASE g # h
    <3> HIDE DEF g, q
    <3>1. g \in DOMAIN now /\ q \in DOMAIN now[g]
      BY <1>7, <1>8, <2>1, <2>2
    <3> QED BY <3>1 DEF Configured, g, q
  <2>3. CASE g = h
    <3>1. \A a \in DOMAIN paths : paths[a] # q
      BY <1>1, <1>11, <2>3 DEF GroupsOnce, paths, h
    <3> HIDE DEF g, q
    <3>2. q \in DOMAIN st1.servers[h]
      BY <1>7, <2>1, <2>3, <3>1
    <3>3. g \in DOMAIN now /\ q \in DOMAIN now[g]
      BY <1>8, <2>3, <3>2
    <3> QED BY <3>3 DEF Configured, g, q
  <2> QED BY <2>2, <2>3
<1>12. GroupsLeft(H, groups, n, new)
  BY <1>6, <1>9, <1>10, <1>11 DEF GroupsLeft
<1> QED BY <1>12 DEF new

\* All groups of a key together.
LEMMA GroupsLeaveNothing ==
    ASSUME NEW H, NEW groups, GroupsAt(H, groups), GroupsOnce(groups), NoEmptyGroup(groups),
           NEW old, {"servers", "ups"} \subseteq DOMAIN old,
           GroupsLeft(H, groups, 0, [servers |-> old.servers, ups |-> old.ups, panicked |-> FALSE])
    PROVE  H \cap DOMAIN delServerAndUpstreamFromCfg(old, groups).cfg.servers = {}
<1> DEFINE aim == [hosts |-> H, groups |-> groups]
           st0 == [servers |-> old.servers, ups |-> old.ups, panicked |-> FALSE]
           st  == FoldLeft(DeleteServer, st0, groups)
<1>0. aim.hosts = H /\ aim.groups = groups
  OBVIOUS
<1>1. GroupLeftLoop!OneByOne
  BY MaxIsLast, Induction DEF GroupLeftLoop!OneByOne
<1> HIDE DEF aim
<1>2. AimedGroupsLeft({}, aim, 0, st0)
  BY <1>0 DEF AimedGroupsLeft
<1> HIDE DEF st0
<1>3. GroupLeftLoop!EveryTurnKeeps({}, aim, groups)
  BY <1>0, DeleteServerLeaves DEF GroupLeftLoop!EveryTurnKeeps, AimedGroupsLeft, GroupDeleted
<1>4. AimedGroupsLeft({}, aim, Len(groups), GroupLeftLoop!Folded({}, st0, groups))
  <2>1. groups \in Seq(ToSet(groups))
    BY DEF GroupsAt
  <2> QED BY <1>1, <1>2, <1>3, <2>1, GroupLeftLoop!LoopRule
<1>5. st = GroupLeftLoop!Folded({}, st0, groups)
  BY DEF FoldLeft, MapThenFoldSet, GroupLeftLoop!Folded, GroupDeleted
<1>6. GroupsLeft(H, groups, Len(groups), st)
  <2> HIDE DEF st
  <2> QED BY <1>0, <1>4, <1>5 DEF AimedGroupsLeft
<1>7. delServerAndUpstreamFromCfg(old, groups).cfg.servers = st.servers
  <2> HIDE DEF st
  <2>1. delServerAndUpstreamFromCfg(old, groups).cfg = [old EXCEPT !.servers = st.servers, !.ups = st.ups]
    BY DEF delServerAndUpstreamFromCfg, st, st0
  <2> QED BY <2>1
<1> HIDE DEF st
<1>8. \A h, q : ~NamedAfter(groups, Len(groups), h, q)
  <2>1. \A k \in DOMAIN groups : ~(k > Len(groups))
    BY DEF GroupsAt
  <2> QED BY <2>1 DEF NamedAfter
<1> QED BY <1>6, <1>7, <1>8 DEF GroupsLeft

\* The specification of an ingress that has the hosts H, all of them with
\* paths, each path once.
AllPathsOnce(H, spec) ==
    /\ RulesAt(H, spec) /\ PathsOnce(spec)
    /\ \A r \in ToSet(spec) : r.paths # <<>>
    /\ \A h \in H : \E r \in ToSet(spec) : r.host = h

\* All of the specification's locations and no others, or none.
Whole(H, spec, servers) ==
    /\ \A h \in H \cap DOMAIN servers : \A q \in DOMAIN servers[h] :
            \E r \in ToSet(spec) : r.host = h /\ \E p \in ToSet(r.paths) : p.path = q
    /\ H \cap DOMAIN servers # {} =>
            \A r \in ToSet(spec) : \A p \in ToSet(r.paths) : Configured(r.host, p.path, servers)

LEMMA NonEmptyHasFirst ==
    ASSUME NEW T, NEW s \in Seq(T), s # <<>>
    PROVE  1 \in DOMAIN s
<1>1. Len(s) # 0
  OBVIOUS
<1> QED BY <1>1

LEMMA GroupsOfSpec ==
    ASSUME NEW H, NEW spec, AllPathsOnce(H, spec), GroupsAt(H, GroupsOf(spec))
    PROVE  /\ GroupsOnce(GroupsOf(spec)) /\ NoEmptyGroup(GroupsOf(spec))
           /\ DOMAIN GroupsOf(spec) = DOMAIN spec /\ DOMAIN spec = 1..Len(spec)
           /\ \A k \in DOMAIN spec :
                /\ spec[k] \in ToSet(spec) /\ GroupsOf(spec)[k].host = spec[k].host
                /\ DOMAIN GroupsOf(spec)[k].paths = DOMAIN spec[k].paths
                /\ \A j \in DOMAIN spec[k].paths : /\ GroupsOf(spec)[k].paths[j] = spec[k].paths[j].path
                                                   /\ spec[k].paths[j] \in ToSet(spec[k].paths)
<1> DEFINE pathsOf(k) == [n \in DOMAIN spec[k].paths |-> spec[k].paths[n].path]
           groups == [k \in DOMAIN spec |-> [host |-> spec[k].host, paths |-> pathsOf(k)]]
<1>1. DOMAIN spec = 1..Len(spec) /\ \A k \in DOMAIN spec : spec[k] \in ToSet(spec)
  BY DEF AllPathsOnce, RulesAt, ToSet
<1>2. ASSUME NEW k \in DOMAIN spec
      PROVE  /\ groups[k].host = spec[k].host /\ DOMAIN groups[k].paths = DOMAIN spec[k].paths
             /\ \A j \in DOMAIN spec[k].paths : /\ groups[k].paths[j] = spec[k].paths[j].path
                                                /\ spec[k].paths[j] \in ToSet(spec[k].paths)
  <2>1. groups[k].host = spec[k].host /\ groups[k].paths = pathsOf(k)
    OBVIOUS
  <2> QED BY <2>1 DEF ToSet
<1>3. groups = GroupsOf(spec) /\ DOMAIN groups = DOMAIN spec
  BY DEF GroupsOf
<1> HIDE DEF groups
<1>4. \A k \in DOMAIN spec : DOMAIN spec[k].paths # {}
  <2>1. ASSUME NEW k \in DOMAIN spec PROVE DOMAIN spec[k].paths # {}
    <3>1. spec[k].paths # <<>> /\ spec[k].paths \in Seq(ToSet(spec[k].paths))
      BY <1>1 DEF AllPathsOnce, RulesAt
    <3> QED BY <3>1, NonEmptyHasFirst
  <2> QED BY <2>1
<1>5. NoEmptyGroup(groups)
  BY <1>2, <1>3, <1>4 DEF NoEmptyGroup
<1>6. GroupsOnce(groups)
  BY <1>2, <1>3 DEF GroupsOnce, AllPathsOnce, PathsOnce
<1> QED BY <1>1, <1>2, <1>3, <1>5, <1>6

\* The deletion of what is whole leaves nothing at its hosts.
LEMMA DeletionUndoes ==
    ASSUME NEW H, NEW spec, AllPathsOnce(H, spec), GroupsAt(H, GroupsOf(spec)),
           NEW cfg, {"servers", "ups"} \subseteq DOMAIN cfg, Whole(H, spec, cfg.servers)
    PROVE  H \cap DOMAIN delServerAndUpstreamFromCfg(cfg, GroupsOf(spec)).cfg.servers = {}
<1> DEFINE groups == GroupsOf(spec)
           st0    == [servers |-> cfg.servers, ups |-> cfg.ups, panicked |-> FALSE]
<1>1. /\ GroupsOnce(groups) /\ NoEmptyGroup(groups)
      /\ DOMAIN groups = DOMAIN spec /\ DOMAIN spec = 1..Len(spec)
      /\ \A k \in DOMAIN spec :
                /\ spec[k] \in ToSet(spec) /\ groups[k].host = spec[k].host
                /\ DOMAIN groups[k].paths = DOMAIN spec[k].paths
                /\ \A j \in DOMAIN spec[k].paths : /\ groups[k].paths[j] = spec[k].paths[j].path
                                                   /\ spec[k].paths[j] \in ToSet(spec[k].paths)
  BY GroupsOfSpec
<1>2. CASE H \cap DOMAIN cfg.servers = {}
  <2>1. DOMAIN delServerAndUpstreamFromCfg(cfg, groups).cfg.servers \subseteq DOMAIN cfg.servers
    BY DeletionShrinks DEF ShrunkAt
  <2> QED BY <1>2, <2>1
<1>3. CASE H \cap DOMAIN cfg.servers # {}
  <2>1. st0.servers = cfg.servers /\ ~st0.panicked /\ DOMAIN st0 = {"servers", "ups", "panicked"}
    OBVIOUS
  <2> HIDE DEF st0, groups
  <2>2. ASSUME NEW h \in H \cap DOMAIN cfg.servers, NEW q \in DOMAIN cfg.servers[h]
        PROVE  NamedAfter(groups, 0, h, q)
    <3>1. PICK r \in ToSet(spec) : r.host = h /\ \E p \in ToSet(r.paths) : p.path = q
      BY DEF Whole
    <3>2. PICK p \in ToSet(r.paths) : p.path = q
      BY <3>1
    <3>3. PICK k \in DOMAIN spec : r = spec[k]
      BY DEF ToSet
    <3>4. PICK j \in DOMAIN r.paths : p = r.paths[j]
      BY DEF ToSet
    <3>5. k > 0
      BY <1>1
    <3> QED BY <1>1, <3>1, <3>2, <3>3, <3>4, <3>5 DEF NamedAfter
  <2>3. ASSUME NEW k \in DOMAIN groups, NEW j \in DOMAIN groups[k].paths
        PROVE  Configured(groups[k].host, groups[k].paths[j], cfg.servers)
    BY <1>1, <1>3 DEF Whole
  <2>4. ASSUME NEW h \in H \cap DOMAIN cfg.servers PROVE DOMAIN cfg.servers[h] # {}
    <3>1. PICK r \in ToSet(spec) : r.host = h /\ r.paths # <<>> /\ r.paths \in Seq(ToSet(r.paths))
      BY DEF AllPathsOnce, RulesAt
    <3>2. 1 \in DOMAIN r.paths
      BY <3>1, NonEmptyHasFirst
    <3>3. r.paths[1] \in ToSet(r.paths)
      BY <3>2 DEF ToSet
    <3> QED BY <1>3, <3>1, <3>3 DEF Whole, Configured
  <2>5. GroupsLeft(H, groups, 0, st0)
    BY <2>1, <2>2, <2>3, <2>4 DEF GroupsLeft
  <2> QED BY <1>1, <2>5, GroupsLeaveNothing DEF groups, st0
<1> QED BY <1>2, <1>3

\* What does not touch the hosts H, or only where their locations lead.
LEMMA OthersKeepWhole ==
    ASSUME NEW H, NEW spec, NEW old, NEW new, Whole(H, spec, old),
           \A h \in H : h \in DOMAIN new <=> h \in DOMAIN old,
           \A h \in H \cap DOMAIN old : DOMAIN new[h] = DOMAIN old[h],
           \A r \in ToSet(spec) : r.host \in H
    PROVE  Whole(H, spec, new)
BY DEF Whole, Configured

\* An installation that does not panic makes the ingress whole.
LEMMA InstallationWhole ==
    ASSUME NEW ing, NEW H, NEW spec, AllPathsOnce(H, spec), NEW addresses,
           NEW last, DOMAIN last \subseteq H, \A h \in DOMAIN last : OnceEach(last[h]),
           NEW cfg, {"servers", "ups"} \subseteq DOMAIN cfg, Whole(H, spec, cfg.servers),
           NEW out \in updateServerAndUpstreamToCfg(cfg, extendingressToServer(ing, spec, addresses), last, ing)
    PROVE  ~out.panicked /\ DOMAIN out.last = {} /\ Whole(H, spec, out.cfg.servers)
<1> DEFINE c       == [ing |-> ing, addresses |-> addresses]
           servers == ParsedServers(ing, spec, addresses)
           parsed  == extendingressToServer(ing, spec, addresses)
<1>1. AreRules(spec) /\ KeepsHosts(last, spec) /\ PathsOnce(spec)
  BY DEF AllPathsOnce, RulesAt, AreRules, KeepsHosts
<1>2. ~out.panicked /\ Installed(ing, spec, addresses, out.cfg) /\ DOMAIN out.last = {}
  BY <1>1, InstallationComplete
<1>3. ServersAdded(c, spec, Len(spec), servers) /\ c.ing = ing /\ c.addresses = addresses
  BY <1>1, ServersOfRules
<1>4. parsed.servers = servers
  BY DEF extendingressToServer
<1> HIDE DEF c, servers, parsed
<1>5. DOMAIN servers = 1..Len(servers) /\ \E T : parsed.servers \in Seq(T)
  BY <1>3, <1>4 DEF ServersAdded
<1>6. PICK st, D : HostsDropped(cfg, parsed, last, ing, out, st, D)
  BY <1>5, InstallationOutcome DEF parsed
<1> DEFINE before == st.servers
           kept   == Without(before, D)
<1>7. out.cfg.servers = kept
  <2>1. \E u : out.cfg = [cfg EXCEPT !.servers = kept, !.ups = u]
    BY <1>6 DEF HostsDropped, DropHosts
  <2> HIDE DEF kept
  <2> QED BY <2>1
<1>8. DOMAIN kept = DOMAIN before \ D /\ \A h \in DOMAIN kept : kept[h] = before[h]
  BY DEF Without, Restrict
<1>9. InstalledAt(ing, servers, Len(servers), cfg, before, st.ups)
  BY <1>4, <1>6 DEF HostsDropped
<1> HIDE DEF kept, before
<1>10. ASSUME NEW a \in 1..Len(servers), NEW q \in DOMAIN servers[a].locs
       PROVE  \E r \in ToSet(spec) : r.host = servers[a].host /\ \E p \in ToSet(r.paths) : p.path = q
  <2>1. PICK k \in 1..Len(spec) : servers[a] = ServerOf(ing, spec[k], addresses)
    BY <1>3, <1>5 DEF ServersAdded
  <2>2. spec[k] \in ToSet(spec)
    BY <1>1 DEF AreRules, ToSet
  <2>3. spec[k].paths \in Seq(ToSet(spec[k].paths)) /\ servers[a].host = spec[k].host
        /\ servers[a].locs = Locations(ing, spec[k].paths, addresses)
    BY <1>1, <2>1, <2>2 DEF AreRules, ServerOf
  <2>4. LocationsFrom(ing, spec[k].paths, addresses, servers[a].locs)
    BY <2>3, LocationsOfPaths
  <2> QED BY <2>2, <2>3, <2>4 DEF LocationsFrom
<1>11. ASSUME NEW h \in H \cap DOMAIN kept, NEW q \in DOMAIN kept[h]
       PROVE  \E r \in ToSet(spec) : r.host = h /\ \E p \in ToSet(r.paths) : p.path = q
  <2>1. h \in DOMAIN before /\ q \in DOMAIN before[h]
    BY <1>8
  <2>2. \/ h \in DOMAIN cfg.servers /\ q \in DOMAIN cfg.servers[h]
        \/ \E a \in 1..Len(servers) : servers[a].host = h /\ q \in DOMAIN servers[a].locs
    BY <1>9, <2>1 DEF InstalledAt
  <2> QED BY <1>10, <2>2 DEF Whole
<1>12. \A r \in ToSet(spec) : \A p \in ToSet(r.paths) : Configured(r.host, p.path, kept)
  BY <1>2, <1>7 DEF Installed
<1> QED BY <1>2, <1>7, <1>11, <1>12 DEF Whole

\* The paths of a host that the status keeps, all of them.
HostPathsKept(h, spec, n, ps) ==
    /\ ps \in Seq(UNION {ToSet(r.paths) : r \in ToSet(spec)})
    /\ \A k \in 1..n : spec[k].host = h => ToSet(spec[k].paths) \subseteq ToSet(ps)
HostKeptLoop == INSTANCE FoldLemmas WITH Op <- PathsAtHost, Last <- Max, Kept <- HostPathsKept

LEMMA StatusHasPaths ==
    ASSUME NEW spec, AreRules(spec), NEW r \in ToSet(spec), NEW p \in ToSet(r.paths)
    PROVE  r.host \in DOMAIN LastPaths(spec) /\ p \in ToSet(LastPaths(spec)[r.host])
<1> DEFINE h  == r.host
           T  == UNION {ToSet(x.paths) : x \in ToSet(spec)}
           ps == HostKeptLoop!Folded(h, <<>>, spec)
<1>1. HostKeptLoop!OneByOne
  BY MaxIsLast, Induction DEF HostKeptLoop!OneByOne
<1>2. HostPathsKept(h, spec, 0, <<>>)
  BY DEF HostPathsKept
<1>3. HostKeptLoop!EveryTurnKeeps(h, spec, spec)
  <2>1. ASSUME NEW n \in 1..Len(spec), NEW acc, HostPathsKept(h, spec, n - 1, acc)
        PROVE  HostPathsKept(h, spec, n, PathsAtHost(h, acc, spec[n]))
    <3>1. n \in DOMAIN spec /\ \A k \in 1..n : k = n \/ k \in 1..(n - 1)
      BY DEF AreRules
    <3>2. spec[n] \in ToSet(spec)
      BY <3>1 DEF ToSet
    <3>3. spec[n].paths \in Seq(ToSet(spec[n].paths)) /\ ToSet(spec[n].paths) \subseteq T
      BY <3>2 DEF AreRules
    <3>4. acc \in Seq(T) /\ spec[n].paths \in Seq(T)
      BY <2>1, <3>3 DEF HostPathsKept
    <3>5. CASE spec[n].host # h
      BY <2>1, <3>1, <3>5 DEF HostPathsKept, PathsAtHost
    <3>6. CASE spec[n].host = h
      <4> HIDE DEF T
      <4>1. /\ acc \o spec[n].paths \in Seq(T)
            /\ ToSet(acc \o spec[n].paths) = ToSet(acc) \cup ToSet(spec[n].paths)
        BY <3>4, ToSetOfConcat
      <4>2. PathsAtHost(h, acc, spec[n]) = acc \o spec[n].paths
        BY <3>6 DEF PathsAtHost
      <4> QED BY <2>1, <3>1, <4>1, <4>2 DEF HostPathsKept, T
    <3> QED BY <3>5, <3>6
  <2> QED BY <2>1 DEF HostKeptLoop!EveryTurnKeeps
<1>4. HostPathsKept(h, spec, Len(spec), ps)
  <2>1. spec \in Seq(ToSet(spec))
    BY DEF AreRules
  <2> QED BY <1>1, <1>2, <1>3, <2>1, HostKeptLoop!LoopRule
<1>5. PICK k \in 1..Len(spec) : r = spec[k]
  BY DEF AreRules, ToSet
<1>6. h \in DOMAIN LastPaths(spec)
  <2>1. k \in DOMAIN spec /\ r.paths # <<>>
    <3>1. k \in DOMAIN spec
      BY <1>5 DEF AreRules
    <3>2. r.paths # <<>>
      BY DEF ToSet
    <3> QED BY <3>1, <3>2
  <2> QED BY <1>5, <2>1 DEF LastPaths
<1>7. LastPaths(spec)[h] = ps
  BY <1>6 DEF LastPaths, FoldLeft, MapThenFoldSet, HostKeptLoop!Folded, PathsAtHost
<1> HIDE DEF ps
<1> QED BY <1>4, <1>5, <1>6, <1>7 DEF HostPathsKept
=============================================================================
