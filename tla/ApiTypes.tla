------------------------------ MODULE ApiTypes ------------------------------
(***************************************************************************)
(* The types of an ExtendIngress as they lie in memory, and their          *)
(* generated deep copies (zz_generated.deepcopy.go).                       *)
(*                                                                         *)
(* A struct is a record; a pointer, slice or map is Nil or a reference to  *)
(* an address and what lies there.  A value of a parameter (interface{})   *)
(* is what it says and the addresses of the maps and slices inside it.     *)
(***************************************************************************)
Nil == [kind |-> "nil"]
Ref(at, sub) == [kind |-> "ref", at |-> at, sub |-> sub]

\* The elements of a slice or map: nil has none.
Elements(ref) == IF ref = Nil THEN <<>> ELSE ref.sub
------------------------------------------------------------------------------
\* All memory a reference leads to, when Part is that of an element.
Reach(ref, Part(_)) ==
    IF ref = Nil THEN {} ELSE {ref.at} \cup UNION {Part(ref.sub[k]) : k \in DOMAIN ref.sub}

NoMemory(v) == {}
ValueMemory(value) == value.memory

PathMemory(path) == Reach(path.LocationParam, ValueMemory) \cup Reach(path.UpstreamParam, ValueMemory)
HTTPMemory(http) == Reach(http.Paths, PathMemory)
RuleMemory(rule) == Reach(rule.HTTP, HTTPMemory)
TLSMemory(tls)   == Reach(tls.Hosts, NoMemory)

SpecMemory(spec) ==
    Reach(spec.Backend, NoMemory) \cup Reach(spec.TLS, TLSMemory) \cup Reach(spec.Rules, RuleMemory)

LastMemory(paths) == Reach(paths, PathMemory)

StatusMemory(status) ==
    Reach(status.LoadBalancer.Ingress, NoMemory) \cup Reach(status.LastPaths, LastMemory)

MetaMemory(meta) == Reach(meta.Labels, NoMemory)

Memory(obj) == MetaMemory(obj.ObjectMeta) \cup SpecMemory(obj.Spec) \cup StatusMemory(obj.Status)
------------------------------------------------------------------------------
(***************************************************************************)
(* An object decoded from JSON lies in new memory.  An address says who    *)
(* made it and of what, in which field of the object, and where in it.     *)
(* An empty slice or map counts as nil (omitempty).                        *)
(***************************************************************************)
Place(by, of, field) == [by |-> by, of |-> of, field |-> field, pos |-> <<>>]
At(place, k) == [by |-> place.by, of |-> place.of, field |-> place.field, pos |-> <<place.pos, k>>]

Anew(ref, place, Part(_, _)) ==
    IF ref = Nil \/ DOMAIN ref.sub = {} THEN Nil
    ELSE Ref(place, [k \in DOMAIN ref.sub |-> Part(ref.sub[k], At(place, k))])

Plain(v, place) == v

DecodedValue(value, place) ==
    [says |-> value.says, memory |-> IF value.memory = {} THEN {} ELSE {[by |-> "value", of |-> place]}]

DecodedPath(path, place) ==
    [Path |-> path.Path, Backend |-> path.Backend,
     LocationParam |-> Anew(path.LocationParam, At(place, "LocationParam"), DecodedValue),
     UpstreamParam |-> Anew(path.UpstreamParam, At(place, "UpstreamParam"), DecodedValue)]

DecodedHTTP(http, place) == [Paths |-> Anew(http.Paths, At(place, "Paths"), DecodedPath)]

DecodedRule(rule, place) == [Host |-> rule.Host, HTTP |-> Anew(rule.HTTP, At(place, "HTTP"), DecodedHTTP)]

DecodedTLS(tls, place) == [Hosts |-> Anew(tls.Hosts, At(place, "Hosts"), Plain), SecretName |-> tls.SecretName]

DecodedSpec(spec, place) ==
    [Backend |-> Anew(spec.Backend, At(place, "Backend"), Plain),
     TLS     |-> Anew(spec.TLS, At(place, "TLS"), DecodedTLS),
     Rules   |-> Anew(spec.Rules, At(place, "Rules"), DecodedRule)]

DecodedLast(paths, place) == Anew(paths, place, DecodedPath)

DecodedStatus(status, place) ==
    [LoadBalancer |-> [Ingress |-> Anew(status.LoadBalancer.Ingress, At(place, "Ingress"), Plain)],
     State        |-> status.State,
     LastPaths    |-> Anew(status.LastPaths, At(place, "LastPaths"), DecodedLast)]

Decoded(obj, by, of) ==
    [ObjectMeta |-> [Labels |-> Anew(obj.ObjectMeta.Labels, Place(by, of, "ObjectMeta"), Plain)],
     Spec       |-> DecodedSpec(obj.Spec, Place(by, of, "Spec")),
     Status     |-> DecodedStatus(obj.Status, Place(by, of, "Status"))]

\* What a specification says, wherever it lies.
Content(spec) == DecodedSpec(spec, Place("any", <<>>, "Spec"))
------------------------------------------------------------------------------
\* Memory a copy allocates.
New(at) == [by |-> "copy", of |-> at]

\* if in.X != nil: make or new, and a loop over the elements.
Remake(ref, Copy(_)) ==
    IF ref = Nil THEN ref ELSE Ref(New(ref.at), [k \in DOMAIN ref.sub |-> Copy(ref.sub[k])])

\* (*out)[key] = val, *out = *in and copy(*out, *in)
Same(v) == v

\* Mutant of DeepCopyHTTPIngressPath: the struct is assigned and nothing else.
AssignHTTPIngressPath(in) == in

DeepCopyHTTPIngressPath(in) ==
    [in EXCEPT !.LocationParam = Remake(@, Same), !.UpstreamParam = Remake(@, Same)]

DeepCopyHTTPIngressRuleValue(in) == [in EXCEPT !.Paths = Remake(@, DeepCopyHTTPIngressPath)]

DeepCopyIngressRuleValue(in) == [in EXCEPT !.HTTP = Remake(@, DeepCopyHTTPIngressRuleValue)]

DeepCopyIngressRule(in) == DeepCopyIngressRuleValue(in)

DeepCopyIngressBackend(in) == in

DeepCopyIngressTLS(in) == [in EXCEPT !.Hosts = Remake(@, Same)]

\* Mutant of DeepCopyIngressSpec: a field is forgotten.
DeepCopyWithoutTLS(in) ==
    [in EXCEPT !.Backend = Remake(@, DeepCopyIngressBackend),
               !.TLS     = Nil,
               !.Rules   = Remake(@, DeepCopyIngressRule)]

DeepCopyIngressSpec(in) ==
    [in EXCEPT !.Backend = Remake(@, DeepCopyIngressBackend),
               !.TLS     = Remake(@, DeepCopyIngressTLS),
               !.Rules   = Remake(@, DeepCopyIngressRule)]

DeepCopyLoadBalancerIngress(in) == in

DeepCopyLoadBalancerStatus(in) == [in EXCEPT !.Ingress = Remake(@, DeepCopyLoadBalancerIngress)]

\* The values of LastPaths are slices themselves.
DeepCopyPaths(in) == Remake(in, DeepCopyHTTPIngressPath)

DeepCopyIngressStatus(in) ==
    [in EXCEPT !.LoadBalancer = DeepCopyLoadBalancerStatus(@),
               !.LastPaths    = Remake(@, DeepCopyPaths)]

DeepCopyObjectMeta(in) == [in EXCEPT !.Labels = Remake(@, Same)]

DeepCopy(in) ==
    [in EXCEPT !.ObjectMeta = DeepCopyObjectMeta(@),
               !.Spec       = DeepCopyIngressSpec(@),
               !.Status     = DeepCopyIngressStatus(@)]
==============================================================================
