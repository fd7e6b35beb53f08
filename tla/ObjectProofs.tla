---------------------------- MODULE ObjectProofs ----------------------------
(***************************************************************************)
(* The way of an object through the process, for any ingresses, hosts,     *)
(* paths, ports and specifications, and any number of events.              *)
(*                                                                         *)
(* Keys: TextProofs reads back every kind of key; here the texts are those *)
(* of the objects a handler sees.  Memory: an address says who made it, so *)
(* that what the informer decoded and what a deep copy made are different  *)
(* memory, up to values a copy takes over.  Contents: decoding the copy of *)
(* what was decoded says the same as decoding once, by cases of the types. *)
(*                                                                         *)
(* But for HandlersSurvive the properties are not inductive.  ObjectInv    *)
(* says of the keys in the queue what KeysKeepMeaning says of the last     *)
(* one, of every cached object that it was decoded from what its user      *)
(* asked for, and of the update that its specification is a copy of the    *)
(* cached one.                                                             *)
(***************************************************************************)
EXTENDS ObjectFlow, TextProofs

(***************************************************************************)
(* Memory: decoding, copying and decoding again.                           *)
(***************************************************************************)
\* A reference is not nil.
LEMMA RefIsNotNil == \A at, sub : Ref(at, sub) # Nil /\ Ref(at, sub).at = at /\ Ref(at, sub).sub = sub
<1> SUFFICES ASSUME NEW at, NEW sub PROVE Ref(at, sub) # Nil /\ Ref(at, sub).at = at /\ Ref(at, sub).sub = sub
  OBVIOUS
<1>1. Ref(at, sub).kind = "ref" /\ Nil.kind = "nil"
  BY DEF Ref, Nil
<1>2. Ref(at, sub) # Nil
  BY <1>1
<1> QED BY <1>2 DEF Ref

\* Decoding what was decoded, or a copy of it, gives the same again: for what
\* lies at the end of references first.
LEMMA PlainAgain == \A v, p, q : Plain(Plain(v, p), q) = Plain(v, q)
BY DEF Plain

LEMMA PlainCopied == \A v, p, q : Plain(Same(Plain(v, p)), q) = Plain(v, q)
BY DEF Plain, Same

LEMMA BackendCopied == \A v, p, q : Plain(DeepCopyIngressBackend(Plain(v, p)), q) = Plain(v, q)
BY DEF Plain, DeepCopyIngressBackend

LEMMA ValueAgain == \A v, p, q : DecodedValue(DecodedValue(v, p), q) = DecodedValue(v, q)
BY DEF DecodedValue

LEMMA ValueCopied == \A v, p, q : DecodedValue(Same(DecodedValue(v, p)), q) = DecodedValue(v, q)
BY DEF DecodedValue, Same

\* Slices and maps of plain elements: what Anew makes of a reference, and what
\* Remake makes of that.  The same is said of each kind of element below: the
\* provers do not instantiate a lemma with an operator.
LEMMA NewPlains ==
    ASSUME NEW ref, NEW p
    PROVE  /\ ref = Nil \/ DOMAIN ref.sub = {} => Anew(ref, p, Plain) = Nil
           /\ ~(ref = Nil \/ DOMAIN ref.sub = {}) =>
                /\ Anew(ref, p, Plain) # Nil
                /\ Anew(ref, p, Plain).at = p
                /\ DOMAIN Anew(ref, p, Plain).sub = DOMAIN ref.sub
                /\ \A k \in DOMAIN ref.sub : Anew(ref, p, Plain).sub[k] = Plain(ref.sub[k], At(p, k))
<1> DEFINE sub == [k \in DOMAIN ref.sub |-> Plain(ref.sub[k], At(p, k))]
<1>1. ~(ref = Nil \/ DOMAIN ref.sub = {}) => Anew(ref, p, Plain) = Ref(p, sub)
  BY DEF Anew
<1>2. Ref(p, sub) # Nil /\ Ref(p, sub).at = p /\ Ref(p, sub).sub = sub
  BY RefIsNotNil
<1>3. ref = Nil \/ DOMAIN ref.sub = {} => Anew(ref, p, Plain) = Nil
  BY DEF Anew
<1>4. DOMAIN sub = DOMAIN ref.sub /\ \A k \in DOMAIN ref.sub : sub[k] = Plain(ref.sub[k], At(p, k))
  OBVIOUS
<1> HIDE DEF sub
<1> QED BY <1>1, <1>2, <1>3, <1>4

LEMMA SamePlains ==
    ASSUME NEW ref, NEW w, NEW q, ref # Nil, w # Nil, DOMAIN w.sub = DOMAIN ref.sub,
           \A k \in DOMAIN ref.sub : Plain(w.sub[k], At(q, k)) = Plain(ref.sub[k], At(q, k))
    PROVE  Anew(w, q, Plain) = Anew(ref, q, Plain)
<1>1. [k \in DOMAIN w.sub |-> Plain(w.sub[k], At(q, k))] = [k \in DOMAIN ref.sub |-> Plain(ref.sub[k], At(q, k))]
  OBVIOUS
<1> QED BY <1>1 DEF Anew

LEMMA PlainsAgain ==
    ASSUME NEW ref, NEW p, NEW q
    PROVE  Anew(Anew(ref, p, Plain), q, Plain) = Anew(ref, q, Plain)
<1> DEFINE new == Anew(ref, p, Plain)
<1>1. CASE ref = Nil \/ DOMAIN ref.sub = {}
  <2>1. new = Nil /\ Anew(ref, q, Plain) = Nil
    BY <1>1, NewPlains
  <2>2. Anew(Nil, q, Plain) = Nil
    BY NewPlains
  <2> QED BY <2>1, <2>2
<1>2. CASE ~(ref = Nil \/ DOMAIN ref.sub = {})
  <2>1. /\ new # Nil
        /\ DOMAIN new.sub = DOMAIN ref.sub
        /\ \A k \in DOMAIN ref.sub : new.sub[k] = Plain(ref.sub[k], At(p, k))
    BY <1>2, NewPlains
  <2> HIDE DEF new
  <2>2. \A k \in DOMAIN ref.sub : Plain(new.sub[k], At(q, k)) = Plain(ref.sub[k], At(q, k))
    BY <2>1, PlainAgain
  <2>3. Anew(new, q, Plain) = Anew(ref, q, Plain)
    BY <1>2, <2>1, <2>2, SamePlains
  <2> QED BY <2>3 DEF new
<1> QED BY <1>1, <1>2

PlainsCopy(ref) == Remake(ref, Same)

LEMMA RemadePlains ==
    ASSUME NEW ref
    PROVE  /\ ref = Nil => PlainsCopy(ref) = Nil
           /\ ref # Nil =>
                /\ PlainsCopy(ref) # Nil
                /\ PlainsCopy(ref).at.by = "copy"
                /\ DOMAIN PlainsCopy(ref).sub = DOMAIN ref.sub
                /\ \A k \in DOMAIN ref.sub : PlainsCopy(ref).sub[k] = Same(ref.sub[k])
<1> DEFINE sub == [k \in DOMAIN ref.sub |-> Same(ref.sub[k])]
<1>1. ref # Nil => PlainsCopy(ref) = Ref(New(ref.at), sub)
  BY DEF Remake, PlainsCopy
<1>2. Ref(New(ref.at), sub) # Nil /\ Ref(New(ref.at), sub).at = New(ref.at) /\ Ref(New(ref.at), sub).sub = sub
  BY RefIsNotNil
<1>3. ref = Nil => PlainsCopy(ref) = Nil
  BY DEF Remake, PlainsCopy
<1>4. DOMAIN sub = DOMAIN ref.sub /\ \A k \in DOMAIN ref.sub : sub[k] = Same(ref.sub[k])
  OBVIOUS
<1>5. New(ref.at).by = "copy"
  BY DEF New
<1> HIDE DEF sub
<1> QED BY <1>1, <1>2, <1>3, <1>4, <1>5

LEMMA PlainsCopied ==
    ASSUME NEW ref, NEW p, NEW q
    PROVE  Anew(PlainsCopy(Anew(ref, p, Plain)), q, Plain) = Anew(ref, q, Plain)
<1> SUFFICES ASSUME NEW new, new = Anew(ref, p, Plain), NEW copy, copy = PlainsCopy(new)
             PROVE  Anew(copy, q, Plain) = Anew(ref, q, Plain)
  OBVIOUS
<1>1. CASE ref = Nil \/ DOMAIN ref.sub = {}
  <2>1. new = Nil /\ Anew(ref, q, Plain) = Nil
    BY <1>1, NewPlains
  <2>2. PlainsCopy(Nil) = Nil /\ Anew(Nil, q, Plain) = Nil
    BY NewPlains, RemadePlains
  <2> QED BY <2>1, <2>2
<1>2. CASE ~(ref = Nil \/ DOMAIN ref.sub = {})
  <2>1. /\ new # Nil
        /\ DOMAIN new.sub = DOMAIN ref.sub
        /\ \A k \in DOMAIN ref.sub : new.sub[k] = Plain(ref.sub[k], At(p, k))
    BY <1>2, NewPlains
  <2>2. copy # Nil /\ DOMAIN copy.sub = DOMAIN new.sub /\ \A k \in DOMAIN new.sub : copy.sub[k] = Same(new.sub[k])
    BY <2>1, RemadePlains
  <2>3. \A k \in DOMAIN ref.sub : Plain(copy.sub[k], At(q, k)) = Plain(ref.sub[k], At(q, k))
    <3> SUFFICES ASSUME NEW k \in DOMAIN ref.sub PROVE Plain(copy.sub[k], At(q, k)) = Plain(ref.sub[k], At(q, k))
      OBVIOUS
    <3>1. copy.sub[k] = Same(Plain(ref.sub[k], At(p, k)))
      BY <2>1, <2>2
    <3> QED BY <3>1, PlainCopied
  <2> QED BY <1>2, <2>1, <2>2, <2>3, SamePlains
<1> QED BY <1>1, <1>2

\* A pointer to a backend.
BackendsCopy(ref) == Remake(ref, DeepCopyIngressBackend)

LEMMA RemadeBackends ==
    ASSUME NEW ref
    PROVE  /\ ref = Nil => BackendsCopy(ref) = Nil
           /\ ref # Nil =>
                /\ BackendsCopy(ref) # Nil
                /\ BackendsCopy(ref).at.by = "copy"
                /\ DOMAIN BackendsCopy(ref).sub = DOMAIN ref.sub
                /\ \A k \in DOMAIN ref.sub : BackendsCopy(ref).sub[k] = DeepCopyIngressBackend(ref.sub[k])
<1> DEFINE sub == [k \in DOMAIN ref.sub |-> DeepCopyIngressBackend(ref.sub[k])]
<1>1. ref # Nil => BackendsCopy(ref) = Ref(New(ref.at), sub)
  BY DEF Remake, BackendsCopy
<1>2. Ref(New(ref.at), sub) # Nil /\ Ref(New(ref.at), sub).at = New(ref.at) /\ Ref(New(ref.at), sub).sub = sub
  BY RefIsNotNil
<1>3. ref = Nil => BackendsCopy(ref) = Nil
  BY DEF Remake, BackendsCopy
<1>4. DOMAIN sub = DOMAIN ref.sub /\ \A k \in DOMAIN ref.sub : sub[k] = DeepCopyIngressBackend(ref.sub[k])
  OBVIOUS
<1>5. New(ref.at).by = "copy"
  BY DEF New
<1> HIDE DEF sub
<1> QED BY <1>1, <1>2, <1>3, <1>4, <1>5

LEMMA BackendsCopied ==
    ASSUME NEW ref, NEW p, NEW q
    PROVE  Anew(BackendsCopy(Anew(ref, p, Plain)), q, Plain) = Anew(ref, q, Plain)
<1> SUFFICES ASSUME NEW new, new = Anew(ref, p, Plain), NEW copy, copy = BackendsCopy(new)
             PROVE  Anew(copy, q, Plain) = Anew(ref, q, Plain)
  OBVIOUS
<1>1. CASE ref = Nil \/ DOMAIN ref.sub = {}
  <2>1. new = Nil /\ Anew(ref, q, Plain) = Nil
    BY <1>1, NewPlains
  <2>2. BackendsCopy(Nil) = Nil /\ Anew(Nil, q, Plain) = Nil
    BY NewPlains, RemadeBackends
  <2> QED BY <2>1, <2>2
<1>2. CASE ~(ref = Nil \/ DOMAIN ref.sub = {})
  <2>1. /\ new # Nil
        /\ DOMAIN new.sub = DOMAIN ref.sub
        /\ \A k \in DOMAIN ref.sub : new.sub[k] = Plain(ref.sub[k], At(p, k))
    BY <1>2, NewPlains
  <2>2. copy # Nil /\ DOMAIN copy.sub = DOMAIN new.sub /\ \A k \in DOMAIN new.sub : copy.sub[k] = DeepCopyIngressBackend(new.sub[k])
    BY <2>1, RemadeBackends
  <2>3. \A k \in DOMAIN ref.sub : Plain(copy.sub[k], At(q, k)) = Plain(ref.sub[k], At(q, k))
    <3> SUFFICES ASSUME NEW k \in DOMAIN ref.sub PROVE Plain(copy.sub[k], At(q, k)) = Plain(ref.sub[k], At(q, k))
      OBVIOUS
    <3>1. copy.sub[k] = DeepCopyIngressBackend(Plain(ref.sub[k], At(p, k)))
      BY <2>1, <2>2
    <3> QED BY <3>1, BackendCopied
  <2> QED BY <1>2, <2>1, <2>2, <2>3, SamePlains
<1> QED BY <1>1, <1>2

\* Maps of parameters.
LEMMA NewValues ==
    ASSUME NEW ref, NEW p
    PROVE  /\ ref = Nil \/ DOMAIN ref.sub = {} => Anew(ref, p, DecodedValue) = Nil
           /\ ~(ref = Nil \/ DOMAIN ref.sub = {}) =>
                /\ Anew(ref, p, DecodedValue) # Nil
                /\ Anew(ref, p, DecodedValue).at = p
                /\ DOMAIN Anew(ref, p, DecodedValue).sub = DOMAIN ref.sub
                /\ \A k \in DOMAIN ref.sub : Anew(ref, p, DecodedValue).sub[k] = DecodedValue(ref.sub[k], At(p, k))
<1> DEFINE sub == [k \in DOMAIN ref.sub |-> DecodedValue(ref.sub[k], At(p, k))]
<1>1. ~(ref = Nil \/ DOMAIN ref.sub = {}) => Anew(ref, p, DecodedValue) = Ref(p, sub)
  BY DEF Anew
<1>2. Ref(p, sub) # Nil /\ Ref(p, sub).at = p /\ Ref(p, sub).sub = sub
  BY RefIsNotNil
<1>3. ref = Nil \/ DOMAIN ref.sub = {} => Anew(ref, p, DecodedValue) = Nil
  BY DEF Anew
<1>4. DOMAIN sub = DOMAIN ref.sub /\ \A k \in DOMAIN ref.sub : sub[k] = DecodedValue(ref.sub[k], At(p, k))
  OBVIOUS
<1> HIDE DEF sub
<1> QED BY <1>1, <1>2, <1>3, <1>4

LEMMA SameValues ==
    ASSUME NEW ref, NEW w, NEW q, ref # Nil, w # Nil, DOMAIN w.sub = DOMAIN ref.sub,
           \A k \in DOMAIN ref.sub : DecodedValue(w.sub[k], At(q, k)) = DecodedValue(ref.sub[k], At(q, k))
    PROVE  Anew(w, q, DecodedValue) = Anew(ref, q, DecodedValue)
<1>1. [k \in DOMAIN w.sub |-> DecodedValue(w.sub[k], At(q, k))] = [k \in DOMAIN ref.sub |-> DecodedValue(ref.sub[k], At(q, k))]
  OBVIOUS
<1> QED BY <1>1 DEF Anew

LEMMA ValuesAgain ==
    ASSUME NEW ref, NEW p, NEW q
    PROVE  Anew(Anew(ref, p, DecodedValue), q, DecodedValue) = Anew(ref, q, DecodedValue)
<1> DEFINE new == Anew(ref, p, DecodedValue)
<1>1. CASE ref = Nil \/ DOMAIN ref.sub = {}
  <2>1. new = Nil /\ Anew(ref, q, DecodedValue) = Nil
    BY <1>1, NewValues
  <2>2. Anew(Nil, q, DecodedValue) = Nil
    BY NewValues
  <2> QED BY <2>1, <2>2
<1>2. CASE ~(ref = Nil \/ DOMAIN ref.sub = {})
  <2>1. /\ new # Nil
        /\ DOMAIN new.sub = DOMAIN ref.sub
        /\ \A k \in DOMAIN ref.sub : new.sub[k] = DecodedValue(ref.sub[k], At(p, k))
    BY <1>2, NewValues
  <2> HIDE DEF new
  <2>2. \A k \in DOMAIN ref.sub : DecodedValue(new.sub[k], At(q, k)) = DecodedValue(ref.sub[k], At(q, k))
    BY <2>1, ValueAgain
  <2>3. Anew(new, q, DecodedValue) = Anew(ref, q, DecodedValue)
    BY <1>2, <2>1, <2>2, SameValues
  <2> QED BY <2>3 DEF new
<1> QED BY <1>1, <1>2

ValuesCopy(ref) == Remake(ref, Same)

LEMMA RemadeValues ==
    ASSUME NEW ref
    PROVE  /\ ref = Nil => ValuesCopy(ref) = Nil
           /\ ref # Nil =>
                /\ ValuesCopy(ref) # Nil
                /\ ValuesCopy(ref).at.by = "copy"
                /\ DOMAIN ValuesCopy(ref).sub = DOMAIN ref.sub
                /\ \A k \in DOMAIN ref.sub : ValuesCopy(ref).sub[k] = Same(ref.sub[k])
<1> DEFINE sub == [k \in DOMAIN ref.sub |-> Same(ref.sub[k])]
<1>1. ref # Nil => ValuesCopy(ref) = Ref(New(ref.at), sub)
  BY DEF Remake, ValuesCopy
<1>2. Ref(New(ref.at), sub) # Nil /\ Ref(New(ref.at), sub).at = New(ref.at) /\ Ref(New(ref.at), sub).sub = sub
  BY RefIsNotNil
<1>3. ref = Nil => ValuesCopy(ref) = Nil
  BY DEF Remake, ValuesCopy
<1>4. DOMAIN sub = DOMAIN ref.sub /\ \A k \in DOMAIN ref.sub : sub[k] = Same(ref.sub[k])
  OBVIOUS
<1>5. New(ref.at).by = "copy"
  BY DEF New
<1> HIDE DEF sub
<1> QED BY <1>1, <1>2, <1>3, <1>4, <1>5

LEMMA ValuesCopied ==
    ASSUME NEW ref, NEW p, NEW q
    PROVE  Anew(ValuesCopy(Anew(ref, p, DecodedValue)), q, DecodedValue) = Anew(ref, q, DecodedValue)
<1> SUFFICES ASSUME NEW new, new = Anew(ref, p, DecodedValue), NEW copy, copy = ValuesCopy(new)
             PROVE  Anew(copy, q, DecodedValue) = Anew(ref, q, DecodedValue)
  OBVIOUS
<1>1. CASE ref = Nil \/ DOMAIN ref.sub = {}
  <2>1. new = Nil /\ Anew(ref, q, DecodedValue) = Nil
    BY <1>1, NewValues
  <2>2. ValuesCopy(Nil) = Nil /\ Anew(Nil, q, DecodedValue) = Nil
    BY NewValues, RemadeValues
  <2> QED BY <2>1, <2>2
<1>2. CASE ~(ref = Nil \/ DOMAIN ref.sub = {})
  <2>1. /\ new # Nil
        /\ DOMAIN new.sub = DOMAIN ref.sub
        /\ \A k \in DOMAIN ref.sub : new.sub[k] = DecodedValue(ref.sub[k], At(p, k))
    BY <1>2, NewValues
  <2>2. copy # Nil /\ DOMAIN copy.sub = DOMAIN new.sub /\ \A k \in DOMAIN new.sub : copy.sub[k] = Same(new.sub[k])
    BY <2>1, RemadeValues
  <2>3. \A k \in DOMAIN ref.sub : DecodedValue(copy.sub[k], At(q, k)) = DecodedValue(ref.sub[k], At(q, k))
    <3> SUFFICES ASSUME NEW k \in DOMAIN ref.sub PROVE DecodedValue(copy.sub[k], At(q, k)) = DecodedValue(ref.sub[k], At(q, k))
      OBVIOUS
    <3>1. copy.sub[k] = Same(DecodedValue(ref.sub[k], At(p, k)))
      BY <2>1, <2>2
    <3> QED BY <3>1, ValueCopied
  <2> QED BY <1>2, <2>1, <2>2, <2>3, SameValues
<1> QED BY <1>1, <1>2

\* Paths, and slices of them.
LEMMA PathAgain == \A v, p, q : DecodedPath(DecodedPath(v, p), q) = DecodedPath(v, q)
<1> SUFFICES ASSUME NEW v, NEW p, NEW q PROVE DecodedPath(DecodedPath(v, p), q) = DecodedPath(v, q)
  OBVIOUS
<1> DEFINE new == DecodedPath(v, p)
<1>1. /\ new.LocationParam = Anew(v.LocationParam, At(p, "LocationParam"), DecodedValue)
      /\ new.UpstreamParam = Anew(v.UpstreamParam, At(p, "UpstreamParam"), DecodedValue)
      /\ new.Path = v.Path
      /\ new.Backend = v.Backend
  BY DEF DecodedPath
<1> HIDE DEF new
<1>2. /\ Anew(new.LocationParam, At(q, "LocationParam"), DecodedValue) = Anew(v.LocationParam, At(q, "LocationParam"), DecodedValue)
      /\ Anew(new.UpstreamParam, At(q, "UpstreamParam"), DecodedValue) = Anew(v.UpstreamParam, At(q, "UpstreamParam"), DecodedValue)
  BY <1>1, ValuesAgain
<1>3. DecodedPath(new, q) = DecodedPath(v, q)
  BY <1>1, <1>2 DEF DecodedPath
<1> QED BY <1>3 DEF new

LEMMA PathCopied == \A v, p, q : DecodedPath(DeepCopyHTTPIngressPath(DecodedPath(v, p)), q) = DecodedPath(v, q)
<1> SUFFICES ASSUME NEW v, NEW p, NEW q PROVE DecodedPath(DeepCopyHTTPIngressPath(DecodedPath(v, p)), q) = DecodedPath(v, q)
  OBVIOUS
<1> DEFINE new == DecodedPath(v, p)
           copy == DeepCopyHTTPIngressPath(new)
<1>1. /\ copy.LocationParam = ValuesCopy(Anew(v.LocationParam, At(p, "LocationParam"), DecodedValue))
      /\ copy.UpstreamParam = ValuesCopy(Anew(v.UpstreamParam, At(p, "UpstreamParam"), DecodedValue))
      /\ copy.Path = v.Path
      /\ copy.Backend = v.Backend
  BY DEF DecodedPath, DeepCopyHTTPIngressPath, ValuesCopy
<1> HIDE DEF new, copy
<1>2. /\ Anew(copy.LocationParam, At(q, "LocationParam"), DecodedValue) = Anew(v.LocationParam, At(q, "LocationParam"), DecodedValue)
      /\ Anew(copy.UpstreamParam, At(q, "UpstreamParam"), DecodedValue) = Anew(v.UpstreamParam, At(q, "UpstreamParam"), DecodedValue)
  BY <1>1, ValuesCopied
<1>3. DecodedPath(copy, q) = DecodedPath(v, q)
  BY <1>1, <1>2 DEF DecodedPath
<1> QED BY <1>3 DEF new, copy

LEMMA NewPaths ==
    ASSUME NEW ref, NEW p
    PROVE  /\ ref = Nil \/ DOMAIN ref.sub = {} => Anew(ref, p, DecodedPath) = Nil
           /\ ~(ref = Nil \/ DOMAIN ref.sub = {}) =>
                /\ Anew(ref, p, DecodedPath) # Nil
                /\ Anew(ref, p, DecodedPath).at = p
                /\ DOMAIN Anew(ref, p, DecodedPath).sub = DOMAIN ref.sub
                /\ \A k \in DOMAIN ref.sub : Anew(ref, p, DecodedPath).sub[k] = DecodedPath(ref.sub[k], At(p, k))
<1> DEFINE sub == [k \in DOMAIN ref.sub |-> DecodedPath(ref.sub[k], At(p, k))]
<1>1. ~(ref = Nil \/ DOMAIN ref.sub = {}) => Anew(ref, p, DecodedPath) = Ref(p, sub)
  BY DEF Anew
<1>2. Ref(p, sub) # Nil /\ Ref(p, sub).at = p /\ Ref(p, sub).sub = sub
  BY RefIsNotNil
<1>3. ref = Nil \/ DOMAIN ref.sub = {} => Anew(ref, p, DecodedPath) = Nil
  BY DEF Anew
<1>4. DOMAIN sub = DOMAIN ref.sub /\ \A k \in DOMAIN ref.sub : sub[k] = DecodedPath(ref.sub[k], At(p, k))
  OBVIOUS
<1> HIDE DEF sub
<1> QED BY <1>1, <1>2, <1>3, <1>4

LEMMA SamePaths ==
    ASSUME NEW ref, NEW w, NEW q, ref # Nil, w # Nil, DOMAIN w.sub = DOMAIN ref.sub,
           \A k \in DOMAIN ref.sub : DecodedPath(w.sub[k], At(q, k)) = DecodedPath(ref.sub[k], At(q, k))
    PROVE  Anew(w, q, DecodedPath) = Anew(ref, q, DecodedPath)
<1>1. [k \in DOMAIN w.sub |-> DecodedPath(w.sub[k], At(q, k))] = [k \in DOMAIN ref.sub |-> DecodedPath(ref.sub[k], At(q, k))]
  OBVIOUS
<1> QED BY <1>1 DEF Anew

LEMMA PathsAgain ==
    ASSUME NEW ref, NEW p, NEW q
    PROVE  Anew(Anew(ref, p, DecodedPath), q, DecodedPath) = Anew(ref, q, DecodedPath)
<1> DEFINE new == Anew(ref, p, DecodedPath)
<1>1. CASE ref = Nil \/ DOMAIN ref.sub = {}
  <2>1. new = Nil /\ Anew(ref, q, DecodedPath) = Nil
    BY <1>1, NewPaths
  <2>2. Anew(Nil, q, DecodedPath) = Nil
    BY NewPaths
  <2> QED BY <2>1, <2>2
<1>2. CASE ~(ref = Nil \/ DOMAIN ref.sub = {})
  <2>1. /\ new # Nil
        /\ DOMAIN new.sub = DOMAIN ref.sub
        /\ \A k \in DOMAIN ref.sub : new.sub[k] = DecodedPath(ref.sub[k], At(p, k))
    BY <1>2, NewPaths
  <2> HIDE DEF new
  <2>2. \A k \in DOMAIN ref.sub : DecodedPath(new.sub[k], At(q, k)) = DecodedPath(ref.sub[k], At(q, k))
    BY <2>1, PathAgain
  <2>3. Anew(new, q, DecodedPath) = Anew(ref, q, DecodedPath)
    BY <1>2, <2>1, <2>2, SamePaths
  <2> QED BY <2>3 DEF new
<1> QED BY <1>1, <1>2

PathsCopy(ref) == Remake(ref, DeepCopyHTTPIngressPath)

LEMMA RemadePaths ==
    ASSUME NEW ref
    PROVE  /\ ref = Nil => PathsCopy(ref) = Nil
           /\ ref # Nil =>
                /\ PathsCopy(ref) # Nil
                /\ PathsCopy(ref).at.by = "copy"
                /\ DOMAIN PathsCopy(ref).sub = DOMAIN ref.sub
                /\ \A k \in DOMAIN ref.sub : PathsCopy(ref).sub[k] = DeepCopyHTTPIngressPath(ref.sub[k])
<1> DEFINE sub == [k \in DOMAIN ref.sub |-> DeepCopyHTTPIngressPath(ref.sub[k])]
<1>1. ref # Nil => PathsCopy(ref) = Ref(New(ref.at), sub)
  BY DEF Remake, PathsCopy
<1>2. Ref(New(ref.at), sub) # Nil /\ Ref(New(ref.at), sub).at = New(ref.at) /\ Ref(New(ref.at), sub).sub = sub
  BY RefIsNotNil
<1>3. ref = Nil => PathsCopy(ref) = Nil
  BY DEF Remake, PathsCopy
<1>4. DOMAIN sub = DOMAIN ref.sub /\ \A k \in DOMAIN ref.sub : sub[k] = DeepCopyHTTPIngressPath(ref.sub[k])
  OBVIOUS
<1>5. New(ref.at).by = "copy"
  BY DEF New
<1> HIDE DEF sub
<1> QED BY <1>1, <1>2, <1>3, <1>4, <1>5

LEMMA PathsCopied ==
    ASSUME NEW ref, NEW p, NEW q
    PROVE  Anew(PathsCopy(Anew(ref, p, DecodedPath)), q, DecodedPath) = Anew(ref, q, DecodedPath)
<1> SUFFICES ASSUME NEW new, new = Anew(ref, p, DecodedPath), NEW copy, copy = PathsCopy(new)
             PROVE  Anew(copy, q, DecodedPath) = Anew(ref, q, DecodedPath)
  OBVIOUS
<1>1. CASE ref = Nil \/ DOMAIN ref.sub = {}
  <2>1. new = Nil /\ Anew(ref, q, DecodedPath) = Nil
    BY <1>1, NewPaths
  <2>2. PathsCopy(Nil) = Nil /\ Anew(Nil, q, DecodedPath) = Nil
    BY NewPaths, RemadePaths
  <2> QED BY <2>1, <2>2
<1>2. CASE ~(ref = Nil \/ DOMAIN ref.sub = {})
  <2>1. /\ new # Nil
        /\ DOMAIN new.sub = DOMAIN ref.sub
        /\ \A k \in DOMAIN ref.sub : new.sub[k] = DecodedPath(ref.sub[k], At(p, k))
    BY <1>2, NewPaths
  <2>2. copy # Nil /\ DOMAIN copy.sub = DOMAIN new.sub /\ \A k \in DOMAIN new.sub : copy.sub[k] = DeepCopyHTTPIngressPath(new.sub[k])
    BY <2>1, RemadePaths
  <2>3. \A k \in DOMAIN ref.sub : DecodedPath(copy.sub[k], At(q, k)) = DecodedPath(ref.sub[k], At(q, k))
    <3> SUFFICES ASSUME NEW k \in DOMAIN ref.sub PROVE DecodedPath(copy.sub[k], At(q, k)) = DecodedPath(ref.sub[k], At(q, k))
      OBVIOUS
    <3>1. copy.sub[k] = DeepCopyHTTPIngressPath(DecodedPath(ref.sub[k], At(p, k)))
      BY <2>1, <2>2
    <3> QED BY <3>1, PathCopied
  <2> QED BY <1>2, <2>1, <2>2, <2>3, SamePaths
<1> QED BY <1>1, <1>2

\* The value of a rule, and the pointer to it.
LEMMA HTTPAgain == \A v, p, q : DecodedHTTP(DecodedHTTP(v, p), q) = DecodedHTTP(v, q)
<1> SUFFICES ASSUME NEW v, NEW p, NEW q PROVE DecodedHTTP(DecodedHTTP(v, p), q) = DecodedHTTP(v, q)
  OBVIOUS
<1> DEFINE new == DecodedHTTP(v, p)
<1>1. /\ new.Paths = Anew(v.Paths, At(p, "Paths"), DecodedPath)
  BY DEF DecodedHTTP
<1> HIDE DEF new
<1>2. /\ Anew(new.Paths, At(q, "Paths"), DecodedPath) = Anew(v.Paths, At(q, "Paths"), DecodedPath)
  BY <1>1, PathsAgain
<1>3. DecodedHTTP(new, q) = DecodedHTTP(v, q)
  BY <1>1, <1>2 DEF DecodedHTTP
<1> QED BY <1>3 DEF new

LEMMA HTTPCopied == \A v, p, q : DecodedHTTP(DeepCopyHTTPIngressRuleValue(DecodedHTTP(v, p)), q) = DecodedHTTP(v, q)
<1> SUFFICES ASSUME NEW v, NEW p, NEW q PROVE DecodedHTTP(DeepCopyHTTPIngressRuleValue(DecodedHTTP(v, p)), q) = DecodedHTTP(v, q)
  OBVIOUS
<1> DEFINE new == DecodedHTTP(v, p)
           copy == DeepCopyHTTPIngressRuleValue(new)
<1>1. /\ copy.Paths = PathsCopy(Anew(v.Paths, At(p, "Paths"), DecodedPath))
  BY DEF DecodedHTTP, DeepCopyHTTPIngressRuleValue, PathsCopy
<1> HIDE DEF new, copy
<1>2. /\ Anew(copy.Paths, At(q, "Paths"), DecodedPath) = Anew(v.Paths, At(q, "Paths"), DecodedPath)
  BY <1>1, PathsCopied
<1>3. DecodedHTTP(copy, q) = DecodedHTTP(v, q)
  BY <1>1, <1>2 DEF DecodedHTTP
<1> QED BY <1>3 DEF new, copy

LEMMA NewHTTPs ==
    ASSUME NEW ref, NEW p
    PROVE  /\ ref = Nil \/ DOMAIN ref.sub = {} => Anew(ref, p, DecodedHTTP) = Nil
           /\ ~(ref = Nil \/ DOMAIN ref.sub = {}) =>
                /\ Anew(ref, p, DecodedHTTP) # Nil
                /\ Anew(ref, p, DecodedHTTP).at = p
                /\ DOMAIN Anew(ref, p, DecodedHTTP).sub = DOMAIN ref.sub
                /\ \A k \in DOMAIN ref.sub : Anew(ref, p, DecodedHTTP).sub[k] = DecodedHTTP(ref.sub[k], At(p, k))
<1> DEFINE sub == [k \in DOMAIN ref.sub |-> DecodedHTTP(ref.sub[k], At(p, k))]
<1>1. ~(ref = Nil \/ DOMAIN ref.sub = {}) => Anew(ref, p, DecodedHTTP) = Ref(p, sub)
  BY DEF Anew
<1>2. Ref(p, sub) # Nil /\ Ref(p, sub).at = p /\ Ref(p, sub).sub = sub
  BY RefIsNotNil
<1>3. ref = Nil \/ DOMAIN ref.sub = {} => Anew(ref, p, DecodedHTTP) = Nil
  BY DEF Anew
<1>4. DOMAIN sub = DOMAIN ref.sub /\ \A k \in DOMAIN ref.sub : sub[k] = DecodedHTTP(ref.sub[k], At(p, k))
  OBVIOUS
<1> HIDE DEF sub
<1> QED BY <1>1, <1>2, <1>3, <1>4

LEMMA SameHTTPs ==
    ASSUME NEW ref, NEW w, NEW q, ref # Nil, w # Nil, DOMAIN w.sub = DOMAIN ref.sub,
           \A k \in DOMAIN ref.sub : DecodedHTTP(w.sub[k], At(q, k)) = DecodedHTTP(ref.sub[k], At(q, k))
    PROVE  Anew(w, q, DecodedHTTP) = Anew(ref, q, DecodedHTTP)
<1>1. [k \in DOMAIN w.sub |-> DecodedHTTP(w.sub[k], At(q, k))] = [k \in DOMAIN ref.sub |-> DecodedHTTP(ref.sub[k], At(q, k))]
  OBVIOUS
<1> QED BY <1>1 DEF Anew

LEMMA HTTPsAgain ==
    ASSUME NEW ref, NEW p, NEW q
    PROVE  Anew(Anew(ref, p, DecodedHTTP), q, DecodedHTTP) = Anew(ref, q, DecodedHTTP)
<1> DEFINE new == Anew(ref, p, DecodedHTTP)
<1>1. CASE ref = Nil \/ DOMAIN ref.sub = {}
  <2>1. new = Nil /\ Anew(ref, q, DecodedHTTP) = Nil
    BY <1>1, NewHTTPs
  <2>2. Anew(Nil, q, DecodedHTTP) = Nil
    BY NewHTTPs
  <2> QED BY <2>1, <2>2
<1>2. CASE ~(ref = Nil \/ DOMAIN ref.sub = {})
  <2>1. /\ new # Nil
        /\ DOMAIN new.sub = DOMAIN ref.sub
        /\ \A k \in DOMAIN ref.sub : new.sub[k] = DecodedHTTP(ref.sub[k], At(p, k))
    BY <1>2, NewHTTPs
  <2> HIDE DEF new
  <2>2. \A k \in DOMAIN ref.sub : DecodedHTTP(new.sub[k], At(q, k)) = DecodedHTTP(ref.sub[k], At(q, k))
    BY <2>1, HTTPAgain
  <2>3. Anew(new, q, DecodedHTTP) = Anew(ref, q, DecodedHTTP)
    BY <1>2, <2>1, <2>2, SameHTTPs
  <2> QED BY <2>3 DEF new
<1> QED BY <1>1, <1>2

HTTPsCopy(ref) == Remake(ref, DeepCopyHTTPIngressRuleValue)

LEMMA RemadeHTTPs ==
    ASSUME NEW ref
    PROVE  /\ ref = Nil => HTTPsCopy(ref) = Nil
           /\ ref # Nil =>
                /\ HTTPsCopy(ref) # Nil
                /\ HTTPsCopy(ref).at.by = "copy"
                /\ DOMAIN HTTPsCopy(ref).sub = DOMAIN ref.sub
                /\ \A k \in DOMAIN ref.sub : HTTPsCopy(ref).sub[k] = DeepCopyHTTPIngressRuleValue(ref.sub[k])
<1> DEFINE sub == [k \in DOMAIN ref.sub |-> DeepCopyHTTPIngressRuleValue(ref.sub[k])]
<1>1. ref # Nil => HTTPsCopy(ref) = Ref(New(ref.at), sub)
  BY DEF Remake, HTTPsCopy
<1>2. Ref(New(ref.at), sub) # Nil /\ Ref(New(ref.at), sub).at = New(ref.at) /\ Ref(New(ref.at), sub).sub = sub
  BY RefIsNotNil
<1>3. ref = Nil => HTTPsCopy(ref) = Nil
  BY DEF Remake, HTTPsCopy
<1>4. DOMAIN sub = DOMAIN ref.sub /\ \A k \in DOMAIN ref.sub : sub[k] = DeepCopyHTTPIngressRuleValue(ref.sub[k])
  OBVIOUS
<1>5. New(ref.at).by = "copy"
  BY DEF New
<1> HIDE DEF sub
<1> QED BY <1>1, <1>2, <1>3, <1>4, <1>5

LEMMA HTTPsCopied ==
    ASSUME NEW ref, NEW p, NEW q
    PROVE  Anew(HTTPsCopy(Anew(ref, p, DecodedHTTP)), q, DecodedHTTP) = Anew(ref, q, DecodedHTTP)
<1> SUFFICES ASSUME NEW new, new = Anew(ref, p, DecodedHTTP), NEW copy, copy = HTTPsCopy(new)
             PROVE  Anew(copy, q, DecodedHTTP) = Anew(ref, q, DecodedHTTP)
  OBVIOUS
<1>1. CASE ref = Nil \/ DOMAIN ref.sub = {}
  <2>1. new = Nil /\ Anew(ref, q, DecodedHTTP) = Nil
    BY <1>1, NewHTTPs
  <2>2. HTTPsCopy(Nil) = Nil /\ Anew(Nil, q, DecodedHTTP) = Nil
    BY NewHTTPs, RemadeHTTPs
  <2> QED BY <2>1, <2>2
<1>2. CASE ~(ref = Nil \/ DOMAIN ref.sub = {})
  <2>1. /\ new # Nil
        /\ DOMAIN new.sub = DOMAIN ref.sub
        /\ \A k \in DOMAIN ref.sub : new.sub[k] = DecodedHTTP(ref.sub[k], At(p, k))
    BY <1>2, NewHTTPs
  <2>2. copy # Nil /\ DOMAIN copy.sub = DOMAIN new.sub /\ \A k \in DOMAIN new.sub : copy.sub[k] = DeepCopyHTTPIngressRuleValue(new.sub[k])
    BY <2>1, RemadeHTTPs
  <2>3. \A k \in DOMAIN ref.sub : DecodedHTTP(copy.sub[k], At(q, k)) = DecodedHTTP(ref.sub[k], At(q, k))
    <3> SUFFICES ASSUME NEW k \in DOMAIN ref.sub PROVE DecodedHTTP(copy.sub[k], At(q, k)) = DecodedHTTP(ref.sub[k], At(q, k))
      OBVIOUS
    <3>1. copy.sub[k] = DeepCopyHTTPIngressRuleValue(DecodedHTTP(ref.sub[k], At(p, k)))
      BY <2>1, <2>2
    <3> QED BY <3>1, HTTPCopied
  <2> QED BY <1>2, <2>1, <2>2, <2>3, SameHTTPs
<1> QED BY <1>1, <1>2

\* Rules, and slices of them.
LEMMA RuleAgain == \A v, p, q : DecodedRule(DecodedRule(v, p), q) = DecodedRule(v, q)
<1> SUFFICES ASSUME NEW v, NEW p, NEW q PROVE DecodedRule(DecodedRule(v, p), q) = DecodedRule(v, q)
  OBVIOUS
<1> DEFINE new == DecodedRule(v, p)
<1>1. /\ new.HTTP = Anew(v.HTTP, At(p, "HTTP"), DecodedHTTP)
      /\ new.Host = v.Host
  BY DEF DecodedRule
<1> HIDE DEF new
<1>2. /\ Anew(new.HTTP, At(q, "HTTP"), DecodedHTTP) = Anew(v.HTTP, At(q, "HTTP"), DecodedHTTP)
  BY <1>1, HTTPsAgain
<1>3. DecodedRule(new, q) = DecodedRule(v, q)
  BY <1>1, <1>2 DEF DecodedRule
<1> QED BY <1>3 DEF new

LEMMA RuleCopied == \A v, p, q : DecodedRule(DeepCopyIngressRule(DecodedRule(v, p)), q) = DecodedRule(v, q)
<1> SUFFICES ASSUME NEW v, NEW p, NEW q PROVE DecodedRule(DeepCopyIngressRule(DecodedRule(v, p)), q) = DecodedRule(v, q)
  OBVIOUS
<1> DEFINE new == DecodedRule(v, p)
           copy == DeepCopyIngressRule(new)
<1>1. /\ copy.HTTP = HTTPsCopy(Anew(v.HTTP, At(p, "HTTP"), DecodedHTTP))
      /\ copy.Host = v.Host
  BY DEF DecodedRule, DeepCopyIngressRule, DeepCopyIngressRuleValue, HTTPsCopy
<1> HIDE DEF new, copy
<1>2. /\ Anew(copy.HTTP, At(q, "HTTP"), DecodedHTTP) = Anew(v.HTTP, At(q, "HTTP"), DecodedHTTP)
  BY <1>1, HTTPsCopied
<1>3. DecodedRule(copy, q) = DecodedRule(v, q)
  BY <1>1, <1>2 DEF DecodedRule
<1> QED BY <1>3 DEF new, copy

LEMMA NewRules ==
    ASSUME NEW ref, NEW p
    PROVE  /\ ref = Nil \/ DOMAIN ref.sub = {} => Anew(ref, p, DecodedRule) = Nil
           /\ ~(ref = Nil \/ DOMAIN ref.sub = {}) =>
                /\ Anew(ref, p, DecodedRule) # Nil
                /\ Anew(ref, p, DecodedRule).at = p
                /\ DOMAIN Anew(ref, p, DecodedRule).sub = DOMAIN ref.sub
                /\ \A k \in DOMAIN ref.sub : Anew(ref, p, DecodedRule).sub[k] = DecodedRule(ref.sub[k], At(p, k))
<1> DEFINE sub == [k \in DOMAIN ref.sub |-> DecodedRule(ref.sub[k], At(p, k))]
<1>1. ~(ref = Nil \/ DOMAIN ref.sub = {}) => Anew(ref, p, DecodedRule) = Ref(p, sub)
  BY DEF Anew
<1>2. Ref(p, sub) # Nil /\ Ref(p, sub).at = p /\ Ref(p, sub).sub = sub
  BY RefIsNotNil
<1>3. ref = Nil \/ DOMAIN ref.sub = {} => Anew(ref, p, DecodedRule) = Nil
  BY DEF Anew
<1>4. DOMAIN sub = DOMAIN ref.sub /\ \A k \in DOMAIN ref.sub : sub[k] = DecodedRule(ref.sub[k], At(p, k))
  OBVIOUS
<1> HIDE DEF sub
<1> QED BY <1>1, <1>2, <1>3, <1>4

LEMMA SameRules ==
    ASSUME NEW ref, NEW w, NEW q, ref # Nil, w # Nil, DOMAIN w.sub = DOMAIN ref.sub,
           \A k \in DOMAIN ref.sub : DecodedRule(w.sub[k], At(q, k)) = DecodedRule(ref.sub[k], At(q, k))
    PROVE  Anew(w, q, DecodedRule) = Anew(ref, q, DecodedRule)
<1>1. [k \in DOMAIN w.sub |-> DecodedRule(w.sub[k], At(q, k))] = [k \in DOMAIN ref.sub |-> DecodedRule(ref.sub[k], At(q, k))]
  OBVIOUS
<1> QED BY <1>1 DEF Anew

LEMMA RulesAgain ==
    ASSUME NEW ref, NEW p, NEW q
    PROVE  Anew(Anew(ref, p, DecodedRule), q, DecodedRule) = Anew(ref, q, DecodedRule)
<1> DEFINE new == Anew(ref, p, DecodedRule)
<1>1. CASE ref = Nil \/ DOMAIN ref.sub = {}
  <2>1. new = Nil /\ Anew(ref, q, DecodedRule) = Nil
    BY <1>1, NewRules
  <2>2. Anew(Nil, q, DecodedRule) = Nil
    BY NewRules
  <2> QED BY <2>1, <2>2
<1>2. CASE ~(ref = Nil \/ DOMAIN ref.sub = {})
  <2>1. /\ new # Nil
        /\ DOMAIN new.sub = DOMAIN ref.sub
        /\ \A k \in DOMAIN ref.sub : new.sub[k] = DecodedRule(ref.sub[k], At(p, k))
    BY <1>2, NewRules
  <2> HIDE DEF new
  <2>2. \A k \in DOMAIN ref.sub : DecodedRule(new.sub[k], At(q, k)) = DecodedRule(ref.sub[k], At(q, k))
    BY <2>1, RuleAgain
  <2>3. Anew(new, q, DecodedRule) = Anew(ref, q, DecodedRule)
    BY <1>2, <2>1, <2>2, SameRules
  <2> QED BY <2>3 DEF new
<1> QED BY <1>1, <1>2

RulesCopy(ref) == Remake(ref, DeepCopyIngressRule)

LEMMA RemadeRules ==
    ASSUME NEW ref
    PROVE  /\ ref = Nil => RulesCopy(ref) = Nil
           /\ ref # Nil =>
                /\ RulesCopy(ref) # Nil
                /\ RulesCopy(ref).at.by = "copy"
                /\ DOMAIN RulesCopy(ref).sub = DOMAIN ref.sub
                /\ \A k \in DOMAIN ref.sub : RulesCopy(ref).sub[k] = DeepCopyIngressRule(ref.sub[k])
<1> DEFINE sub == [k \in DOMAIN ref.sub |-> DeepCopyIngressRule(ref.sub[k])]
<1>1. ref # Nil => RulesCopy(ref) = Ref(New(ref.at), sub)
  BY DEF Remake, RulesCopy
<1>2. Ref(New(ref.at), sub) # Nil /\ Ref(New(ref.at), sub).at = New(ref.at) /\ Ref(New(ref.at), sub).sub = sub
  BY RefIsNotNil
<1>3. ref = Nil => RulesCopy(ref) = Nil
  BY DEF Remake, RulesCopy
<1>4. DOMAIN sub = DOMAIN ref.sub /\ \A k \in DOMAIN ref.sub : sub[k] = DeepCopyIngressRule(ref.sub[k])
  OBVIOUS
<1>5. New(ref.at).by = "copy"
  BY DEF New
<1> HIDE DEF sub
<1> QED BY <1>1, <1>2, <1>3, <1>4, <1>5

LEMMA RulesCopied ==
    ASSUME NEW ref, NEW p, NEW q
    PROVE  Anew(RulesCopy(Anew(ref, p, DecodedRule)), q, DecodedRule) = Anew(ref, q, DecodedRule)
<1> SUFFICES ASSUME NEW new, new = Anew(ref, p, DecodedRule), NEW copy, copy = RulesCopy(new)
             PROVE  Anew(copy, q, DecodedRule) = Anew(ref, q, DecodedRule)
  OBVIOUS
<1>1. CASE ref = Nil \/ DOMAIN ref.sub = {}
  <2>1. new = Nil /\ Anew(ref, q, DecodedRule) = Nil
    BY <1>1, NewRules
  <2>2. RulesCopy(Nil) = Nil /\ Anew(Nil, q, DecodedRule) = Nil
    BY NewRules, RemadeRules
  <2> QED BY <2>1, <2>2
<1>2. CASE ~(ref = Nil \/ DOMAIN ref.sub = {})
  <2>1. /\ new # Nil
        /\ DOMAIN new.sub = DOMAIN ref.sub
        /\ \A k \in DOMAIN ref.sub : new.sub[k] = DecodedRule(ref.sub[k], At(p, k))
    BY <1>2, NewRules
  <2>2. copy # Nil /\ DOMAIN copy.sub = DOMAIN new.sub /\ \A k \in DOMAIN new.sub : copy.sub[k] = DeepCopyIngressRule(new.sub[k])
    BY <2>1, RemadeRules
  <2>3. \A k \in DOMAIN ref.sub : DecodedRule(copy.sub[k], At(q, k)) = DecodedRule(ref.sub[k], At(q, k))
    <3> SUFFICES ASSUME NEW k \in DOMAIN ref.sub PROVE DecodedRule(copy.sub[k], At(q, k)) = DecodedRule(ref.sub[k], At(q, k))
      OBVIOUS
    <3>1. copy.sub[k] = DeepCopyIngressRule(DecodedRule(ref.sub[k], At(p, k)))
      BY <2>1, <2>2
    <3> QED BY <3>1, RuleCopied
  <2> QED BY <1>2, <2>1, <2>2, <2>3, SameRules
<1> QED BY <1>1, <1>2

\* TLS entries, and slices of them.
LEMMA TLSAgain == \A v, p, q : DecodedTLS(DecodedTLS(v, p), q) = DecodedTLS(v, q)
<1> SUFFICES ASSUME NEW v, NEW p, NEW q PROVE DecodedTLS(DecodedTLS(v, p), q) = DecodedTLS(v, q)
  OBVIOUS
<1> DEFINE new == DecodedTLS(v, p)
<1>1. /\ new.Hosts = Anew(v.Hosts, At(p, "Hosts"), Plain)
      /\ new.SecretName = v.SecretName
  BY DEF DecodedTLS
<1> HIDE DEF new
<1>2. /\ Anew(new.Hosts, At(q, "Hosts"), Plain) = Anew(v.Hosts, At(q, "Hosts"), Plain)
  BY <1>1, PlainsAgain
<1>3. DecodedTLS(new, q) = DecodedTLS(v, q)
  BY <1>1, <1>2 DEF DecodedTLS
<1> QED BY <1>3 DEF new

LEMMA TLSCopied == \A v, p, q : DecodedTLS(DeepCopyIngressTLS(DecodedTLS(v, p)), q) = DecodedTLS(v, q)
<1> SUFFICES ASSUME NEW v, NEW p, NEW q PROVE DecodedTLS(DeepCopyIngressTLS(DecodedTLS(v, p)), q) = DecodedTLS(v, q)
  OBVIOUS
<1> DEFINE new == DecodedTLS(v, p)
           copy == DeepCopyIngressTLS(new)
<1>1. /\ copy.Hosts = PlainsCopy(Anew(v.Hosts, At(p, "Hosts"), Plain))
      /\ copy.SecretName = v.SecretName
  BY DEF DecodedTLS, DeepCopyIngressTLS, PlainsCopy
<1> HIDE DEF new, copy
<1>2. /\ Anew(copy.Hosts, At(q, "Hosts"), Plain) = Anew(v.Hosts, At(q, "Hosts"), Plain)
  BY <1>1, PlainsCopied
<1>3. DecodedTLS(copy, q) = DecodedTLS(v, q)
  BY <1>1, <1>2 DEF DecodedTLS
<1> QED BY <1>3 DEF new, copy

LEMMA NewTLSs ==
    ASSUME NEW ref, NEW p
    PROVE  /\ ref = Nil \/ DOMAIN ref.sub = {} => Anew(ref, p, DecodedTLS) = Nil
           /\ ~(ref = Nil \/ DOMAIN ref.sub = {}) =>
                /\ Anew(ref, p, DecodedTLS) # Nil
                /\ Anew(ref, p, DecodedTLS).at = p
                /\ DOMAIN Anew(ref, p, DecodedTLS).sub = DOMAIN ref.sub
                /\ \A k \in DOMAIN ref.sub : Anew(ref, p, DecodedTLS).sub[k] = DecodedTLS(ref.sub[k], At(p, k))
<1> DEFINE sub == [k \in DOMAIN ref.sub |-> DecodedTLS(ref.sub[k], At(p, k))]
<1>1. ~(ref = Nil \/ DOMAIN ref.sub = {}) => Anew(ref, p, DecodedTLS) = Ref(p, sub)
  BY DEF Anew
<1>2. Ref(p, sub) # Nil /\ Ref(p, sub).at = p /\ Ref(p, sub).sub = sub
  BY RefIsNotNil
<1>3. ref = Nil \/ DOMAIN ref.sub = {} => Anew(ref, p, DecodedTLS) = Nil
  BY DEF Anew
<1>4. DOMAIN sub = DOMAIN ref.sub /\ \A k \in DOMAIN ref.sub : sub[k] = DecodedTLS(ref.sub[k], At(p, k))
  OBVIOUS
<1> HIDE DEF sub
<1> QED BY <1>1, <1>2, <1>3, <1>4

LEMMA SameTLSs ==
    ASSUME NEW ref, NEW w, NEW q, ref # Nil, w # Nil, DOMAIN w.sub = DOMAIN ref.sub,
           \A k \in DOMAIN ref.sub : DecodedTLS(w.sub[k], At(q, k)) = DecodedTLS(ref.sub[k], At(q, k))
    PROVE  Anew(w, q, DecodedTLS) = Anew(ref, q, DecodedTLS)
<1>1. [k \in DOMAIN w.sub |-> DecodedTLS(w.sub[k], At(q, k))] = [k \in DOMAIN ref.sub |-> DecodedTLS(ref.sub[k], At(q, k))]
  OBVIOUS
<1> QED BY <1>1 DEF Anew

LEMMA TLSsAgain ==
    ASSUME NEW ref, NEW p, NEW q
    PROVE  Anew(Anew(ref, p, DecodedTLS), q, DecodedTLS) = Anew(ref, q, DecodedTLS)
<1> DEFINE new == Anew(ref, p, DecodedTLS)
<1>1. CASE ref = Nil \/ DOMAIN ref.sub = {}
  <2>1. new = Nil /\ Anew(ref, q, DecodedTLS) = Nil
    BY <1>1, NewTLSs
  <2>2. Anew(Nil, q, DecodedTLS) = Nil
    BY NewTLSs
  <2> QED BY <2>1, <2>2
<1>2. CASE ~(ref = Nil \/ DOMAIN ref.sub = {})
  <2>1. /\ new # Nil
        /\ DOMAIN new.sub = DOMAIN ref.sub
        /\ \A k \in DOMAIN ref.sub : new.sub[k] = DecodedTLS(ref.sub[k], At(p, k))
    BY <1>2, NewTLSs
  <2> HIDE DEF new
  <2>2. \A k \in DOMAIN ref.sub : DecodedTLS(new.sub[k], At(q, k)) = DecodedTLS(ref.sub[k], At(q, k))
    BY <2>1, TLSAgain
  <2>3. Anew(new, q, DecodedTLS) = Anew(ref, q, DecodedTLS)
    BY <1>2, <2>1, <2>2, SameTLSs
  <2> QED BY <2>3 DEF new
<1> QED BY <1>1, <1>2

TLSsCopy(ref) == Remake(ref, DeepCopyIngressTLS)

LEMMA RemadeTLSs ==
    ASSUME NEW ref
    PROVE  /\ ref = Nil => TLSsCopy(ref) = Nil
           /\ ref # Nil =>
                /\ TLSsCopy(ref) # Nil
                /\ TLSsCopy(ref).at.by = "copy"
                /\ DOMAIN TLSsCopy(ref).sub = DOMAIN ref.sub
                /\ \A k \in DOMAIN ref.sub : TLSsCopy(ref).sub[k] = DeepCopyIngressTLS(ref.sub[k])
<1> DEFINE sub == [k \in DOMAIN ref.sub |-> DeepCopyIngressTLS(ref.sub[k])]
<1>1. ref # Nil => TLSsCopy(ref) = Ref(New(ref.at), sub)
  BY DEF Remake, TLSsCopy
<1>2. Ref(New(ref.at), sub) # Nil /\ Ref(New(ref.at), sub).at = New(ref.at) /\ Ref(New(ref.at), sub).sub = sub
  BY RefIsNotNil
<1>3. ref = Nil => TLSsCopy(ref) = Nil
  BY DEF Remake, TLSsCopy
<1>4. DOMAIN sub = DOMAIN ref.sub /\ \A k \in DOMAIN ref.sub : sub[k] = DeepCopyIngressTLS(ref.sub[k])
  OBVIOUS
<1>5. New(ref.at).by = "copy"
  BY DEF New
<1> HIDE DEF sub
<1> QED BY <1>1, <1>2, <1>3, <1>4, <1>5

LEMMA TLSsCopied ==
    ASSUME NEW ref, NEW p, NEW q
    PROVE  Anew(TLSsCopy(Anew(ref, p, DecodedTLS)), q, DecodedTLS) = Anew(ref, q, DecodedTLS)
<1> SUFFICES ASSUME NEW new, new = Anew(ref, p, DecodedTLS), NEW copy, copy = TLSsCopy(new)
             PROVE  Anew(copy, q, DecodedTLS) = Anew(ref, q, DecodedTLS)
  OBVIOUS
<1>1. CASE ref = Nil \/ DOMAIN ref.sub = {}
  <2>1. new = Nil /\ Anew(ref, q, DecodedTLS) = Nil
    BY <1>1, NewTLSs
  <2>2. TLSsCopy(Nil) = Nil /\ Anew(Nil, q, DecodedTLS) = Nil
    BY NewTLSs, RemadeTLSs
  <2> QED BY <2>1, <2>2
<1>2. CASE ~(ref = Nil \/ DOMAIN ref.sub = {})
  <2>1. /\ new # Nil
        /\ DOMAIN new.sub = DOMAIN ref.sub
        /\ \A k \in DOMAIN ref.sub : new.sub[k] = DecodedTLS(ref.sub[k], At(p, k))
    BY <1>2, NewTLSs
  <2>2. copy # Nil /\ DOMAIN copy.sub = DOMAIN new.sub /\ \A k \in DOMAIN new.sub : copy.sub[k] = DeepCopyIngressTLS(new.sub[k])
    BY <2>1, RemadeTLSs
  <2>3. \A k \in DOMAIN ref.sub : DecodedTLS(copy.sub[k], At(q, k)) = DecodedTLS(ref.sub[k], At(q, k))
    <3> SUFFICES ASSUME NEW k \in DOMAIN ref.sub PROVE DecodedTLS(copy.sub[k], At(q, k)) = DecodedTLS(ref.sub[k], At(q, k))
      OBVIOUS
    <3>1. copy.sub[k] = DeepCopyIngressTLS(DecodedTLS(ref.sub[k], At(p, k)))
      BY <2>1, <2>2
    <3> QED BY <3>1, TLSCopied
  <2> QED BY <1>2, <2>1, <2>2, <2>3, SameTLSs
<1> QED BY <1>1, <1>2

\* A whole specification; this is what SpecSurvives rests on.
LEMMA SpecAgain == \A v, p, q : DecodedSpec(DecodedSpec(v, p), q) = DecodedSpec(v, q)
<1> SUFFICES ASSUME NEW v, NEW p, NEW q PROVE DecodedSpec(DecodedSpec(v, p), q) = DecodedSpec(v, q)
  OBVIOUS
<1> DEFINE new == DecodedSpec(v, p)
<1>1. /\ new.Backend = Anew(v.Backend, At(p, "Backend"), Plain)
      /\ new.TLS = Anew(v.TLS, At(p, "TLS"), DecodedTLS)
      /\ new.Rules = Anew(v.Rules, At(p, "Rules"), DecodedRule)
  BY DEF DecodedSpec
<1> HIDE DEF new
<1>2. /\ Anew(new.Backend, At(q, "Backend"), Plain) = Anew(v.Backend, At(q, "Backend"), Plain)
      /\ Anew(new.TLS, At(q, "TLS"), DecodedTLS) = Anew(v.TLS, At(q, "TLS"), DecodedTLS)
      /\ Anew(new.Rules, At(q, "Rules"), DecodedRule) = Anew(v.Rules, At(q, "Rules"), DecodedRule)
  BY <1>1, PlainsAgain, RulesAgain, TLSsAgain
<1>3. DecodedSpec(new, q) = DecodedSpec(v, q)
  BY <1>1, <1>2 DEF DecodedSpec
<1> QED BY <1>3 DEF new

LEMMA SpecCopied == \A v, p, q : DecodedSpec(DeepCopyIngressSpec(DecodedSpec(v, p)), q) = DecodedSpec(v, q)
<1> SUFFICES ASSUME NEW v, NEW p, NEW q PROVE DecodedSpec(DeepCopyIngressSpec(DecodedSpec(v, p)), q) = DecodedSpec(v, q)
  OBVIOUS
<1> DEFINE new == DecodedSpec(v, p)
           copy == DeepCopyIngressSpec(new)
<1>1. /\ copy.Backend = BackendsCopy(Anew(v.Backend, At(p, "Backend"), Plain))
      /\ copy.TLS = TLSsCopy(Anew(v.TLS, At(p, "TLS"), DecodedTLS))
      /\ copy.Rules = RulesCopy(Anew(v.Rules, At(p, "Rules"), DecodedRule))
  BY DEF DecodedSpec, DeepCopyIngressSpec, BackendsCopy, RulesCopy, TLSsCopy
<1> HIDE DEF new, copy
<1>2. /\ Anew(copy.Backend, At(q, "Backend"), Plain) = Anew(v.Backend, At(q, "Backend"), Plain)
      /\ Anew(copy.TLS, At(q, "TLS"), DecodedTLS) = Anew(v.TLS, At(q, "TLS"), DecodedTLS)
      /\ Anew(copy.Rules, At(q, "Rules"), DecodedRule) = Anew(v.Rules, At(q, "Rules"), DecodedRule)
  BY <1>1, BackendsCopied, RulesCopied, TLSsCopied
<1>3. DecodedSpec(copy, q) = DecodedSpec(v, q)
  BY <1>1, <1>2 DEF DecodedSpec
<1> QED BY <1>3 DEF new, copy

------------------------------------------------------------------------------
(***************************************************************************)
(* Memory: where a decoded object lies.                                    *)
(***************************************************************************)
\* Memory that belongs to what was decoded at a place.
Within(p, memory) == \A a \in memory : a.by = "value" \/ (a.by = p.by /\ a.field = p.field)

LEMMA AtPlace == \A p, k : At(p, k).by = p.by /\ At(p, k).field = p.field
BY DEF At

LEMMA PlainWithin == \A v, p : Within(p, NoMemory(Plain(v, p)))
BY DEF Within, NoMemory

LEMMA ValueWithin == \A v, p : Within(p, ValueMemory(DecodedValue(v, p)))
<1> SUFFICES ASSUME NEW v, NEW p, NEW a, a \in ValueMemory(DecodedValue(v, p)) PROVE a.by = "value"
  BY DEF Within
<1> QED BY DEF ValueMemory, DecodedValue

\* The memory of references to plain elements and to values, and what Anew
\* gives them; then the same for what contains them.
PlainsReach(ref) == Reach(ref, NoMemory)

LEMMA ReachingPlains ==
    ASSUME NEW ref
    PROVE  /\ ref = Nil => PlainsReach(ref) = {}
           /\ ref # Nil => \A a : a \in PlainsReach(ref) <=> a = ref.at \/ \E k \in DOMAIN ref.sub : a \in NoMemory(ref.sub[k])
BY DEF PlainsReach, Reach

ValuesReach(ref) == Reach(ref, ValueMemory)

LEMMA ReachingValues ==
    ASSUME NEW ref
    PROVE  /\ ref = Nil => ValuesReach(ref) = {}
           /\ ref # Nil => \A a : a \in ValuesReach(ref) <=> a = ref.at \/ \E k \in DOMAIN ref.sub : a \in ValueMemory(ref.sub[k])
BY DEF ValuesReach, Reach

LEMMA PlainsWithin ==
    ASSUME NEW ref, NEW p
    PROVE  Within(p, PlainsReach(Anew(ref, p, Plain)))
<1> SUFFICES ASSUME NEW new, new = Anew(ref, p, Plain), NEW a, a \in PlainsReach(new)
             PROVE  a.by = "value" \/ (a.by = p.by /\ a.field = p.field)
  BY DEF Within
<1>1. /\ ~(ref = Nil \/ DOMAIN ref.sub = {})
      /\ new # Nil /\ new.at = p /\ DOMAIN new.sub = DOMAIN ref.sub
      /\ \A k \in DOMAIN ref.sub : new.sub[k] = Plain(ref.sub[k], At(p, k))
  BY NewPlains, ReachingPlains
<1>2. CASE a = new.at
  BY <1>1, <1>2
<1>3. ASSUME NEW k \in DOMAIN ref.sub, a \in NoMemory(new.sub[k]) PROVE a.by = "value" \/ (a.by = p.by /\ a.field = p.field)
  <2>1. Within(At(p, k), NoMemory(Plain(ref.sub[k], At(p, k))))
    BY PlainWithin
  <2>2. new.sub[k] = Plain(ref.sub[k], At(p, k))
    BY <1>1
  <2> QED BY <1>3, <2>1, <2>2, AtPlace DEF Within
<1> QED BY <1>1, <1>2, <1>3, ReachingPlains

LEMMA ValuesWithin ==
    ASSUME NEW ref, NEW p
    PROVE  Within(p, ValuesReach(Anew(ref, p, DecodedValue)))
<1> SUFFICES ASSUME NEW new, new = Anew(ref, p, DecodedValue), NEW a, a \in ValuesReach(new)
             PROVE  a.by = "value" \/ (a.by = p.by /\ a.field = p.field)
  BY DEF Within
<1>1. /\ ~(ref = Nil \/ DOMAIN ref.sub = {})
      /\ new # Nil /\ new.at = p /\ DOMAIN new.sub = DOMAIN ref.sub
      /\ \A k \in DOMAIN ref.sub : new.sub[k] = DecodedValue(ref.sub[k], At(p, k))
  BY NewValues, ReachingValues
<1>2. CASE a = new.at
  BY <1>1, <1>2
<1>3. ASSUME NEW k \in DOMAIN ref.sub, a \in ValueMemory(new.sub[k]) PROVE a.by = "value" \/ (a.by = p.by /\ a.field = p.field)
  <2>1. Within(At(p, k), ValueMemory(DecodedValue(ref.sub[k], At(p, k))))
    BY ValueWithin
  <2>2. new.sub[k] = DecodedValue(ref.sub[k], At(p, k))
    BY <1>1
  <2> QED BY <1>3, <2>1, <2>2, AtPlace DEF Within
<1> QED BY <1>1, <1>2, <1>3, ReachingValues

LEMMA PathWithin == \A v, p : Within(p, PathMemory(DecodedPath(v, p)))
<1> SUFFICES ASSUME NEW v, NEW p PROVE Within(p, PathMemory(DecodedPath(v, p)))
  OBVIOUS
<1>1. /\ Within(At(p, "LocationParam"), ValuesReach(Anew(v.LocationParam, At(p, "LocationParam"), DecodedValue)))
      /\ Within(At(p, "UpstreamParam"), ValuesReach(Anew(v.UpstreamParam, At(p, "UpstreamParam"), DecodedValue)))
  BY ValuesWithin
<1>2. PathMemory(DecodedPath(v, p)) =
        ValuesReach(Anew(v.LocationParam, At(p, "LocationParam"), DecodedValue))
        \cup ValuesReach(Anew(v.UpstreamParam, At(p, "UpstreamParam"), DecodedValue))
  BY DEF PathMemory, DecodedPath, ValuesReach
<1> QED BY <1>1, <1>2, AtPlace DEF Within

PathsReach(ref) == Reach(ref, PathMemory)

LEMMA ReachingPaths ==
    ASSUME NEW ref
    PROVE  /\ ref = Nil => PathsReach(ref) = {}
           /\ ref # Nil => \A a : a \in PathsReach(ref) <=> a = ref.at \/ \E k \in DOMAIN ref.sub : a \in PathMemory(ref.sub[k])
BY DEF PathsReach, Reach

LEMMA PathsWithin ==
    ASSUME NEW ref, NEW p
    PROVE  Within(p, PathsReach(Anew(ref, p, DecodedPath)))
<1> SUFFICES ASSUME NEW new, new = Anew(ref, p, DecodedPath), NEW a, a \in PathsReach(new)
             PROVE  a.by = "value" \/ (a.by = p.by /\ a.field = p.field)
  BY DEF Within
<1>1. /\ ~(ref = Nil \/ DOMAIN ref.sub = {})
      /\ new # Nil /\ new.at = p /\ DOMAIN new.sub = DOMAIN ref.sub
      /\ \A k \in DOMAIN ref.sub : new.sub[k] = DecodedPath(ref.sub[k], At(p, k))
  BY NewPaths, ReachingPaths
<1>2. CASE a = new.at
  BY <1>1, <1>2
<1>3. ASSUME NEW k \in DOMAIN ref.sub, a \in PathMemory(new.sub[k]) PROVE a.by = "value" \/ (a.by = p.by /\ a.field = p.field)
  <2>1. Within(At(p, k), PathMemory(DecodedPath(ref.sub[k], At(p, k))))
    BY PathWithin
  <2>2. new.sub[k] = DecodedPath(ref.sub[k], At(p, k))
    BY <1>1
  <2> QED BY <1>3, <2>1, <2>2, AtPlace DEF Within
<1> QED BY <1>1, <1>2, <1>3, ReachingPaths

LEMMA HTTPWithin == \A v, p : Within(p, HTTPMemory(DecodedHTTP(v, p)))
<1> SUFFICES ASSUME NEW v, NEW p PROVE Within(p, HTTPMemory(DecodedHTTP(v, p)))
  OBVIOUS
<1>1. /\ Within(At(p, "Paths"), PathsReach(Anew(v.Paths, At(p, "Paths"), DecodedPath)))
  BY PathsWithin
<1>2. HTTPMemory(DecodedHTTP(v, p)) =
        PathsReach(Anew(v.Paths, At(p, "Paths"), DecodedPath))
  BY DEF HTTPMemory, DecodedHTTP, PathsReach
<1> QED BY <1>1, <1>2, AtPlace DEF Within

HTTPsReach(ref) == Reach(ref, HTTPMemory)

LEMMA ReachingHTTPs ==
    ASSUME NEW ref
    PROVE  /\ ref = Nil => HTTPsReach(ref) = {}
           /\ ref # Nil => \A a : a \in HTTPsReach(ref) <=> a = ref.at \/ \E k \in DOMAIN ref.sub : a \in HTTPMemory(ref.sub[k])
BY DEF HTTPsReach, Reach

LEMMA HTTPsWithin ==
    ASSUME NEW ref, NEW p
    PROVE  Within(p, HTTPsReach(Anew(ref, p, DecodedHTTP)))
<1> SUFFICES ASSUME NEW new, new = Anew(ref, p, DecodedHTTP), NEW a, a \in HTTPsReach(new)
             PROVE  a.by = "value" \/ (a.by = p.by /\ a.field = p.field)
  BY DEF Within
<1>1. /\ ~(ref = Nil \/ DOMAIN ref.sub = {})
      /\ new # Nil /\ new.at = p /\ DOMAIN new.sub = DOMAIN ref.sub
      /\ \A k \in DOMAIN ref.sub : new.sub[k] = DecodedHTTP(ref.sub[k], At(p, k))
  BY NewHTTPs, ReachingHTTPs
<1>2. CASE a = new.at
  BY <1>1, <1>2
<1>3. ASSUME NEW k \in DOMAIN ref.sub, a \in HTTPMemory(new.sub[k]) PROVE a.by = "value" \/ (a.by = p.by /\ a.field = p.field)
  <2>1. Within(At(p, k), HTTPMemory(DecodedHTTP(ref.sub[k], At(p, k))))
    BY HTTPWithin
  <2>2. new.sub[k] = DecodedHTTP(ref.sub[k], At(p, k))
    BY <1>1
  <2> QED BY <1>3, <2>1, <2>2, AtPlace DEF Within
<1> QED BY <1>1, <1>2, <1>3, ReachingHTTPs

LEMMA RuleWithin == \A v, p : Within(p, RuleMemory(DecodedRule(v, p)))
<1> SUFFICES ASSUME NEW v, NEW p PROVE Within(p, RuleMemory(DecodedRule(v, p)))
  OBVIOUS
<1>1. /\ Within(At(p, "HTTP"), HTTPsReach(Anew(v.HTTP, At(p, "HTTP"), DecodedHTTP)))
  BY HTTPsWithin
<1>2. RuleMemory(DecodedRule(v, p)) =
        HTTPsReach(Anew(v.HTTP, At(p, "HTTP"), DecodedHTTP))
  BY DEF RuleMemory, DecodedRule, HTTPsReach
<1> QED BY <1>1, <1>2, AtPlace DEF Within

RulesReach(ref) == Reach(ref, RuleMemory)

LEMMA ReachingRules ==
    ASSUME NEW ref
    PROVE  /\ ref = Nil => RulesReach(ref) = {}
           /\ ref # Nil => \A a : a \in RulesReach(ref) <=> a = ref.at \/ \E k \in DOMAIN ref.sub : a \in RuleMemory(ref.sub[k])
BY DEF RulesReach, Reach

LEMMA RulesWithin ==
    ASSUME NEW ref, NEW p
    PROVE  Within(p, RulesReach(Anew(ref, p, DecodedRule)))
<1> SUFFICES ASSUME NEW new, new = Anew(ref, p, DecodedRule), NEW a, a \in RulesReach(new)
             PROVE  a.by = "value" \/ (a.by = p.by /\ a.field = p.field)
  BY DEF Within
<1>1. /\ ~(ref = Nil \/ DOMAIN ref.sub = {})
      /\ new # Nil /\ new.at = p /\ DOMAIN new.sub = DOMAIN ref.sub
      /\ \A k \in DOMAIN ref.sub : new.sub[k] = DecodedRule(ref.sub[k], At(p, k))
  BY NewRules, ReachingRules
<1>2. CASE a = new.at
  BY <1>1, <1>2
<1>3. ASSUME NEW k \in DOMAIN ref.sub, a \in RuleMemory(new.sub[k]) PROVE a.by = "value" \/ (a.by = p.by /\ a.field = p.field)
  <2>1. Within(At(p, k), RuleMemory(DecodedRule(ref.sub[k], At(p, k))))
    BY RuleWithin
  <2>2. new.sub[k] = DecodedRule(ref.sub[k], At(p, k))
    BY <1>1
  <2> QED BY <1>3, <2>1, <2>2, AtPlace DEF Within
<1> QED BY <1>1, <1>2, <1>3, ReachingRules

LEMMA TLSWithin == \A v, p : Within(p, TLSMemory(DecodedTLS(v, p)))
<1> SUFFICES ASSUME NEW v, NEW p PROVE Within(p, TLSMemory(DecodedTLS(v, p)))
  OBVIOUS
<1>1. /\ Within(At(p, "Hosts"), PlainsReach(Anew(v.Hosts, At(p, "Hosts"), Plain)))
  BY PlainsWithin
<1>2. TLSMemory(DecodedTLS(v, p)) =
        PlainsReach(Anew(v.Hosts, At(p, "Hosts"), Plain))
  BY DEF TLSMemory, DecodedTLS, PlainsReach
<1> QED BY <1>1, <1>2, AtPlace DEF Within

TLSsReach(ref) == Reach(ref, TLSMemory)

LEMMA ReachingTLSs ==
    ASSUME NEW ref
    PROVE  /\ ref = Nil => TLSsReach(ref) = {}
           /\ ref # Nil => \A a : a \in TLSsReach(ref) <=> a = ref.at \/ \E k \in DOMAIN ref.sub : a \in TLSMemory(ref.sub[k])
BY DEF TLSsReach, Reach

LEMMA TLSsWithin ==
    ASSUME NEW ref, NEW p
    PROVE  Within(p, TLSsReach(Anew(ref, p, DecodedTLS)))
<1> SUFFICES ASSUME NEW new, new = Anew(ref, p, DecodedTLS), NEW a, a \in TLSsReach(new)
             PROVE  a.by = "value" \/ (a.by = p.by /\ a.field = p.field)
  BY DEF Within
<1>1. /\ ~(ref = Nil \/ DOMAIN ref.sub = {})
      /\ new # Nil /\ new.at = p /\ DOMAIN new.sub = DOMAIN ref.sub
      /\ \A k \in DOMAIN ref.sub : new.sub[k] = DecodedTLS(ref.sub[k], At(p, k))
  BY NewTLSs, ReachingTLSs
<1>2. CASE a = new.at
  BY <1>1, <1>2
<1>3. ASSUME NEW k \in DOMAIN ref.sub, a \in TLSMemory(new.sub[k]) PROVE a.by = "value" \/ (a.by = p.by /\ a.field = p.field)
  <2>1. Within(At(p, k), TLSMemory(DecodedTLS(ref.sub[k], At(p, k))))
    BY TLSWithin
  <2>2. new.sub[k] = DecodedTLS(ref.sub[k], At(p, k))
    BY <1>1
  <2> QED BY <1>3, <2>1, <2>2, AtPlace DEF Within
<1> QED BY <1>1, <1>2, <1>3, ReachingTLSs

LEMMA SpecWithin == \A v, p : Within(p, SpecMemory(DecodedSpec(v, p)))
<1> SUFFICES ASSUME NEW v, NEW p PROVE Within(p, SpecMemory(DecodedSpec(v, p)))
  OBVIOUS
<1>1. /\ Within(At(p, "Backend"), PlainsReach(Anew(v.Backend, At(p, "Backend"), Plain)))
      /\ Within(At(p, "TLS"), TLSsReach(Anew(v.TLS, At(p, "TLS"), DecodedTLS)))
      /\ Within(At(p, "Rules"), RulesReach(Anew(v.Rules, At(p, "Rules"), DecodedRule)))
  BY PlainsWithin, RulesWithin, TLSsWithin
<1>2. SpecMemory(DecodedSpec(v, p)) =
        PlainsReach(Anew(v.Backend, At(p, "Backend"), Plain))
        \cup TLSsReach(Anew(v.TLS, At(p, "TLS"), DecodedTLS))
        \cup RulesReach(Anew(v.Rules, At(p, "Rules"), DecodedRule))
  BY DEF SpecMemory, DecodedSpec, PlainsReach, RulesReach, TLSsReach
<1> QED BY <1>1, <1>2, AtPlace DEF Within

LEMMA LastWithin == \A v, p : Within(p, LastMemory(DecodedLast(v, p)))
BY PathsWithin DEF LastMemory, DecodedLast, PathsReach

LEMMA NewLasts ==
    ASSUME NEW ref, NEW p
    PROVE  /\ ref = Nil \/ DOMAIN ref.sub = {} => Anew(ref, p, DecodedLast) = Nil
           /\ ~(ref = Nil \/ DOMAIN ref.sub = {}) =>
                /\ Anew(ref, p, DecodedLast) # Nil
                /\ Anew(ref, p, DecodedLast).at = p
                /\ DOMAIN Anew(ref, p, DecodedLast).sub = DOMAIN ref.sub
                /\ \A k \in DOMAIN ref.sub : Anew(ref, p, DecodedLast).sub[k] = DecodedLast(ref.sub[k], At(p, k))
<1> DEFINE sub == [k \in DOMAIN ref.sub |-> DecodedLast(ref.sub[k], At(p, k))]
<1>1. ~(ref = Nil \/ DOMAIN ref.sub = {}) => Anew(ref, p, DecodedLast) = Ref(p, sub)
  BY DEF Anew
<1>2. Ref(p, sub) # Nil /\ Ref(p, sub).at = p /\ Ref(p, sub).sub = sub
  BY RefIsNotNil
<1>3. ref = Nil \/ DOMAIN ref.sub = {} => Anew(ref, p, DecodedLast) = Nil
  BY DEF Anew
<1>4. DOMAIN sub = DOMAIN ref.sub /\ \A k \in DOMAIN ref.sub : sub[k] = DecodedLast(ref.sub[k], At(p, k))
  OBVIOUS
<1> HIDE DEF sub
<1> QED BY <1>1, <1>2, <1>3, <1>4

LastsReach(ref) == Reach(ref, LastMemory)

LEMMA ReachingLasts ==
    ASSUME NEW ref
    PROVE  /\ ref = Nil => LastsReach(ref) = {}
           /\ ref # Nil => \A a : a \in LastsReach(ref) <=> a = ref.at \/ \E k \in DOMAIN ref.sub : a \in LastMemory(ref.sub[k])
BY DEF LastsReach, Reach

LEMMA LastsWithin ==
    ASSUME NEW ref, NEW p
    PROVE  Within(p, LastsReach(Anew(ref, p, DecodedLast)))
<1> SUFFICES ASSUME NEW new, new = Anew(ref, p, DecodedLast), NEW a, a \in LastsReach(new)
             PROVE  a.by = "value" \/ (a.by = p.by /\ a.field = p.field)
  BY DEF Within
<1>1. /\ ~(ref = Nil \/ DOMAIN ref.sub = {})
      /\ new # Nil /\ new.at = p /\ DOMAIN new.sub = DOMAIN ref.sub
      /\ \A k \in DOMAIN ref.sub : new.sub[k] = DecodedLast(ref.sub[k], At(p, k))
  BY NewLasts, ReachingLasts
<1>2. CASE a = new.at
  BY <1>1, <1>2
<1>3. ASSUME NEW k \in DOMAIN ref.sub, a \in LastMemory(new.sub[k]) PROVE a.by = "value" \/ (a.by = p.by /\ a.field = p.field)
  <2>1. Within(At(p, k), LastMemory(DecodedLast(ref.sub[k], At(p, k))))
    BY LastWithin
  <2>2. new.sub[k] = DecodedLast(ref.sub[k], At(p, k))
    BY <1>1
  <2> QED BY <1>3, <2>1, <2>2, AtPlace DEF Within
<1> QED BY <1>1, <1>2, <1>3, ReachingLasts

LEMMA StatusWithin == \A v, p : Within(p, StatusMemory(DecodedStatus(v, p)))
<1> SUFFICES ASSUME NEW v, NEW p PROVE Within(p, StatusMemory(DecodedStatus(v, p)))
  OBVIOUS
<1>1. /\ Within(At(p, "Ingress"), PlainsReach(Anew(v.LoadBalancer.Ingress, At(p, "Ingress"), Plain)))
      /\ Within(At(p, "LastPaths"), LastsReach(Anew(v.LastPaths, At(p, "LastPaths"), DecodedLast)))
  BY PlainsWithin, LastsWithin
<1>2. StatusMemory(DecodedStatus(v, p)) =
        PlainsReach(Anew(v.LoadBalancer.Ingress, At(p, "Ingress"), Plain))
        \cup LastsReach(Anew(v.LastPaths, At(p, "LastPaths"), DecodedLast))
  BY DEF StatusMemory, DecodedStatus, PlainsReach, LastsReach
<1> QED BY <1>1, <1>2, AtPlace DEF Within

------------------------------------------------------------------------------
(***************************************************************************)
(* Memory: what a copy shares with what it was made of.                    *)
(***************************************************************************)
\* What a copy shares of the memory of what it was made of: values only.
Shared(copy, memory) == \A a \in copy : a.by = "copy" \/ (a.by = "value" /\ a \in memory)

PathsMemory(paths) == UNION {PathMemory(paths[k]) : k \in DOMAIN paths}
RulesMemory(rules) == UNION {PathsMemory(PathsOf(rules[k])) : k \in DOMAIN rules}

LEMMA ValueOnly == \A v, p : \A a \in ValueMemory(DecodedValue(v, p)) : a.by = "value"
<1> SUFFICES ASSUME NEW v, NEW p, NEW a, a \in ValueMemory(DecodedValue(v, p)) PROVE a.by = "value"
  OBVIOUS
<1> QED BY DEF ValueMemory, DecodedValue

LEMMA ValuesShared ==
    ASSUME NEW ref, NEW p
    PROVE  Shared(ValuesReach(ValuesCopy(Anew(ref, p, DecodedValue))), ValuesReach(Anew(ref, p, DecodedValue)))
<1> SUFFICES ASSUME NEW new, new = Anew(ref, p, DecodedValue), NEW copy, copy = ValuesCopy(new), NEW a \in ValuesReach(copy)
             PROVE  a.by = "copy" \/ (a.by = "value" /\ a \in ValuesReach(new))
  BY DEF Shared
<1>1. new # Nil /\ copy # Nil
  BY RemadeValues, ReachingValues
<1>4. ~(ref = Nil \/ DOMAIN ref.sub = {})
  BY <1>1, NewValues
<1>5. DOMAIN new.sub = DOMAIN ref.sub /\ \A k \in DOMAIN ref.sub : new.sub[k] = DecodedValue(ref.sub[k], At(p, k))
  BY <1>4, NewValues
<1>2. copy.at.by = "copy" /\ DOMAIN copy.sub = DOMAIN new.sub /\ \A k \in DOMAIN new.sub : copy.sub[k] = Same(new.sub[k])
  BY <1>1, RemadeValues
<1>3. ASSUME NEW k \in DOMAIN copy.sub, a \in ValueMemory(copy.sub[k])
      PROVE  a.by = "value" /\ a \in ValuesReach(new)
  <2>1. copy.sub[k] = new.sub[k]
    BY <1>2 DEF Same
  <2>2. new.sub[k] = DecodedValue(ref.sub[k], At(p, k))
    BY <1>2, <1>5
  <2>3. a.by = "value"
    BY <1>3, <2>1, <2>2, ValueOnly
  <2>4. a \in ValuesReach(new)
    BY <1>1, <1>2, <1>3, <2>1, ReachingValues
  <2> QED BY <2>3, <2>4
<1> QED BY <1>1, <1>2, <1>3, ReachingValues

LEMMA PathShared ==
    ASSUME NEW v, NEW p
    PROVE  Shared(PathMemory(DeepCopyHTTPIngressPath(DecodedPath(v, p))), PathMemory(DecodedPath(v, p)))
<1> DEFINE loc == Anew(v.LocationParam, At(p, "LocationParam"), DecodedValue)
           up == Anew(v.UpstreamParam, At(p, "UpstreamParam"), DecodedValue)
<1>1. PathMemory(DecodedPath(v, p)) = ValuesReach(loc) \cup ValuesReach(up)
  BY DEF PathMemory, DecodedPath, ValuesReach
<1>2. PathMemory(DeepCopyHTTPIngressPath(DecodedPath(v, p))) = ValuesReach(ValuesCopy(loc)) \cup ValuesReach(ValuesCopy(up))
  BY DEF PathMemory, DecodedPath, DeepCopyHTTPIngressPath, ValuesReach, ValuesCopy
<1>3. Shared(ValuesReach(ValuesCopy(loc)), ValuesReach(loc)) /\ Shared(ValuesReach(ValuesCopy(up)), ValuesReach(up))
  BY ValuesShared
<1> HIDE DEF loc, up
<1> QED BY <1>1, <1>2, <1>3 DEF Shared

LEMMA PathsShared ==
    ASSUME NEW ref, NEW p
    PROVE  Shared(PathsReach(PathsCopy(Anew(ref, p, DecodedPath))), PathsMemory(Elements(Anew(ref, p, DecodedPath))))
<1> SUFFICES ASSUME NEW new, new = Anew(ref, p, DecodedPath), NEW copy, copy = PathsCopy(new), NEW a \in PathsReach(copy)
             PROVE  a.by = "copy" \/ (a.by = "value" /\ a \in PathsMemory(Elements(new)))
  BY DEF Shared
<1>1. new # Nil /\ copy # Nil
  BY RemadePaths, ReachingPaths
<1>4. ~(ref = Nil \/ DOMAIN ref.sub = {})
  BY <1>1, NewPaths
<1>5. DOMAIN new.sub = DOMAIN ref.sub /\ \A k \in DOMAIN ref.sub : new.sub[k] = DecodedPath(ref.sub[k], At(p, k))
  BY <1>4, NewPaths
<1>2. copy.at.by = "copy" /\ DOMAIN copy.sub = DOMAIN new.sub
      /\ \A k \in DOMAIN new.sub : copy.sub[k] = DeepCopyHTTPIngressPath(new.sub[k])
  BY <1>1, RemadePaths
<1>3. ASSUME NEW k \in DOMAIN copy.sub, a \in PathMemory(copy.sub[k])
      PROVE  a.by = "copy" \/ (a.by = "value" /\ a \in PathsMemory(Elements(new)))
  <2>1. copy.sub[k] = DeepCopyHTTPIngressPath(new.sub[k])
    BY <1>2
  <2>2. new.sub[k] = DecodedPath(ref.sub[k], At(p, k))
    BY <1>2, <1>5
  <2>3. a.by = "copy" \/ (a.by = "value" /\ a \in PathMemory(new.sub[k]))
    BY <1>3, <2>1, <2>2, PathShared DEF Shared
  <2>4. Elements(new) = new.sub
    BY <1>1 DEF Elements
  <2>5. PathMemory(new.sub[k]) \subseteq PathsMemory(new.sub)
    BY <1>2 DEF PathsMemory
  <2> QED BY <2>3, <2>4, <2>5
<1> QED BY <1>1, <1>2, <1>3, ReachingPaths

LEMMA HTTPShared ==
    ASSUME NEW v, NEW p
    PROVE  Shared(HTTPMemory(DeepCopyHTTPIngressRuleValue(DecodedHTTP(v, p))),
                  PathsMemory(Elements(DecodedHTTP(v, p).Paths)))
<1> DEFINE paths == Anew(v.Paths, At(p, "Paths"), DecodedPath)
<1>1. DecodedHTTP(v, p).Paths = paths
  BY DEF DecodedHTTP
<1>2. HTTPMemory(DeepCopyHTTPIngressRuleValue(DecodedHTTP(v, p))) = PathsReach(PathsCopy(paths))
  BY DEF HTTPMemory, DecodedHTTP, DeepCopyHTTPIngressRuleValue, PathsReach, PathsCopy
<1>3. Shared(PathsReach(PathsCopy(paths)), PathsMemory(Elements(paths)))
  BY PathsShared
<1> HIDE DEF paths
<1> QED BY <1>1, <1>2, <1>3

LEMMA HTTPsShared ==
    ASSUME NEW ref, NEW p, ref # Nil => DOMAIN ref.sub = {"to"}
    PROVE  LET http == Anew(ref, p, DecodedHTTP)
           IN  Shared(HTTPsReach(HTTPsCopy(http)), PathsMemory(IF http = Nil THEN <<>> ELSE Elements(http.sub.to.Paths)))
<1> SUFFICES ASSUME NEW new, new = Anew(ref, p, DecodedHTTP), NEW copy, copy = HTTPsCopy(new), NEW a \in HTTPsReach(copy)
             PROVE  a.by = "copy"
                    \/ (a.by = "value" /\ a \in PathsMemory(IF new = Nil THEN <<>> ELSE Elements(new.sub.to.Paths)))
  BY DEF Shared
<1>1. new # Nil /\ copy # Nil
  BY RemadeHTTPs, ReachingHTTPs
<1>2. copy.at.by = "copy" /\ DOMAIN copy.sub = DOMAIN new.sub
      /\ \A k \in DOMAIN new.sub : copy.sub[k] = DeepCopyHTTPIngressRuleValue(new.sub[k])
  BY <1>1, RemadeHTTPs
<1>4. ~(ref = Nil \/ DOMAIN ref.sub = {})
  BY <1>1, NewHTTPs
<1>5. DOMAIN new.sub = DOMAIN ref.sub /\ \A k \in DOMAIN ref.sub : new.sub[k] = DecodedHTTP(ref.sub[k], At(p, k))
  BY <1>4, NewHTTPs
<1>3. ASSUME NEW k \in DOMAIN copy.sub, a \in HTTPMemory(copy.sub[k])
      PROVE  a.by = "copy"
             \/ (a.by = "value" /\ a \in PathsMemory(IF new = Nil THEN <<>> ELSE Elements(new.sub.to.Paths)))
  <2>1. k = "to"
    BY <1>2, <1>4, <1>5
  <2>2. copy.sub[k] = DeepCopyHTTPIngressRuleValue(DecodedHTTP(ref.sub[k], At(p, k)))
    BY <1>2, <1>5
  <2>3. a.by = "copy" \/ (a.by = "value" /\ a \in PathsMemory(Elements(DecodedHTTP(ref.sub[k], At(p, k)).Paths)))
    BY <1>3, <2>2, HTTPShared DEF Shared
  <2>4. DecodedHTTP(ref.sub[k], At(p, k)).Paths = new.sub.to.Paths
    BY <1>2, <1>5, <2>1
  <2> QED BY <1>1, <2>3, <2>4
<1> QED BY <1>1, <1>2, <1>3, ReachingHTTPs

LEMMA RuleShared ==
    ASSUME NEW v, NEW p, v.HTTP # Nil => DOMAIN v.HTTP.sub = {"to"}
    PROVE  Shared(RuleMemory(DeepCopyIngressRule(DecodedRule(v, p))), PathsMemory(PathsOf(DecodedRule(v, p))))
<1> DEFINE http == Anew(v.HTTP, At(p, "HTTP"), DecodedHTTP)
<1>1. RuleMemory(DeepCopyIngressRule(DecodedRule(v, p))) = HTTPsReach(HTTPsCopy(http))
  BY DEF RuleMemory, DecodedRule, DeepCopyIngressRule, DeepCopyIngressRuleValue, HTTPsReach, HTTPsCopy
<1>2. PathsOf(DecodedRule(v, p)) = IF http = Nil THEN <<>> ELSE Elements(http.sub.to.Paths)
  BY DEF PathsOf, DecodedRule
<1>3. Shared(HTTPsReach(HTTPsCopy(http)), PathsMemory(IF http = Nil THEN <<>> ELSE Elements(http.sub.to.Paths)))
  BY HTTPsShared
<1> HIDE DEF http
<1> QED BY <1>1, <1>2, <1>3

LEMMA RulesShared ==
    ASSUME NEW ref, NEW p,
           \A k \in DOMAIN Elements(ref) : Elements(ref)[k].HTTP # Nil => DOMAIN Elements(ref)[k].HTTP.sub = {"to"}
    PROVE  LET rules == Anew(ref, p, DecodedRule)
           IN  Shared(RulesReach(RulesCopy(rules)), RulesMemory(Elements(rules)))
<1> SUFFICES ASSUME NEW new, new = Anew(ref, p, DecodedRule), NEW copy, copy = RulesCopy(new), NEW a \in RulesReach(copy)
             PROVE  a.by = "copy" \/ (a.by = "value" /\ a \in RulesMemory(Elements(new)))
  BY DEF Shared
<1>1. new # Nil /\ copy # Nil
  BY RemadeRules, ReachingRules
<1>2. copy.at.by = "copy" /\ DOMAIN copy.sub = DOMAIN new.sub
      /\ \A k \in DOMAIN new.sub : copy.sub[k] = DeepCopyIngressRule(new.sub[k])
  BY <1>1, RemadeRules
<1>4. ~(ref = Nil \/ DOMAIN ref.sub = {})
  BY <1>1, NewRules
<1>5. DOMAIN new.sub = DOMAIN ref.sub /\ \A k \in DOMAIN ref.sub : new.sub[k] = DecodedRule(ref.sub[k], At(p, k))
  BY <1>4, NewRules
<1>6. Elements(ref) = ref.sub /\ Elements(new) = new.sub
  BY <1>1, <1>4 DEF Elements
<1>3. ASSUME NEW k \in DOMAIN copy.sub, a \in RuleMemory(copy.sub[k])
      PROVE  a.by = "copy" \/ (a.by = "value" /\ a \in RulesMemory(Elements(new)))
  <2>1. ref.sub[k].HTTP # Nil => DOMAIN ref.sub[k].HTTP.sub = {"to"}
    BY <1>2, <1>5, <1>6
  <2>2. copy.sub[k] = DeepCopyIngressRule(DecodedRule(ref.sub[k], At(p, k)))
    BY <1>2, <1>5
  <2>3. a.by = "copy" \/ (a.by = "value" /\ a \in PathsMemory(PathsOf(DecodedRule(ref.sub[k], At(p, k)))))
    BY <1>3, <2>1, <2>2, RuleShared DEF Shared
  <2>4. DecodedRule(ref.sub[k], At(p, k)) = new.sub[k]
    BY <1>2, <1>5
  <2>5. PathsMemory(PathsOf(new.sub[k])) \subseteq RulesMemory(new.sub)
    BY <1>2 DEF RulesMemory
  <2> QED BY <1>6, <2>3, <2>4, <2>5
<1> QED BY <1>1, <1>2, <1>3, ReachingRules

\* What has no maps in it is copied in whole.
LEMMA PlainsShared ==
    ASSUME NEW ref
    PROVE  Shared(PlainsReach(PlainsCopy(ref)), {}) /\ Shared(PlainsReach(BackendsCopy(ref)), {})
<1>1. ASSUME NEW copy, NEW a \in PlainsReach(copy), copy # Nil => copy.at.by = "copy"
      PROVE  a.by = "copy"
  <2>1. \A v : NoMemory(v) = {}
    BY DEF NoMemory
  <2> QED BY <1>1, <2>1, ReachingPlains
<1>2. /\ PlainsCopy(ref) # Nil => PlainsCopy(ref).at.by = "copy"
      /\ BackendsCopy(ref) # Nil => BackendsCopy(ref).at.by = "copy"
  BY RemadePlains, RemadeBackends
<1> QED BY <1>1, <1>2 DEF Shared

LEMMA TLSShared == \A v, p : Shared(TLSMemory(DeepCopyIngressTLS(DecodedTLS(v, p))), {})
<1> SUFFICES ASSUME NEW v, NEW p PROVE Shared(TLSMemory(DeepCopyIngressTLS(DecodedTLS(v, p))), {})
  OBVIOUS
<1>1. TLSMemory(DeepCopyIngressTLS(DecodedTLS(v, p))) = PlainsReach(PlainsCopy(Anew(v.Hosts, At(p, "Hosts"), Plain)))
  BY DEF TLSMemory, DeepCopyIngressTLS, DecodedTLS, PlainsReach, PlainsCopy
<1> QED BY <1>1, PlainsShared

LEMMA TLSsShared ==
    ASSUME NEW ref, NEW p
    PROVE  Shared(TLSsReach(TLSsCopy(Anew(ref, p, DecodedTLS))), {})
<1> SUFFICES ASSUME NEW new, new = Anew(ref, p, DecodedTLS), NEW copy, copy = TLSsCopy(new), NEW a \in TLSsReach(copy)
             PROVE  a.by = "copy"
  BY DEF Shared
<1>1. new # Nil /\ copy # Nil
  BY RemadeTLSs, ReachingTLSs
<1>2. copy.at.by = "copy" /\ DOMAIN copy.sub = DOMAIN new.sub
      /\ \A k \in DOMAIN new.sub : copy.sub[k] = DeepCopyIngressTLS(new.sub[k])
  BY <1>1, RemadeTLSs
<1>4. ~(ref = Nil \/ DOMAIN ref.sub = {})
  BY <1>1, NewTLSs
<1>5. DOMAIN new.sub = DOMAIN ref.sub /\ \A k \in DOMAIN ref.sub : new.sub[k] = DecodedTLS(ref.sub[k], At(p, k))
  BY <1>4, NewTLSs
<1>3. ASSUME NEW k \in DOMAIN copy.sub, a \in TLSMemory(copy.sub[k]) PROVE a.by = "copy"
  <2>1. copy.sub[k] = DeepCopyIngressTLS(DecodedTLS(ref.sub[k], At(p, k)))
    BY <1>2, <1>5
  <2> QED BY <1>3, <2>1, TLSShared DEF Shared
<1> QED BY <1>1, <1>2, <1>3, ReachingTLSs

------------------------------------------------------------------------------
(***************************************************************************)
(* What a decoded specification says.                                      *)
(***************************************************************************)
\* A rule has one value or none.
Pointers(spec) == \A k \in DOMAIN Rules(spec) : Rules(spec)[k].HTTP # Nil => DOMAIN Rules(spec)[k].HTTP.sub = {"to"}

GoodSpec(spec) ==
    /\ Rules(spec) \in Seq(ToSet(Rules(spec)))
    /\ \A k \in DOMAIN Rules(spec) :
            /\ Rules(spec)[k].Host \in Seq(Tokens)
            /\ Rules(spec)[k].HTTP # Nil => DOMAIN Rules(spec)[k].HTTP.sub = {"to"}
            /\ PathsOf(Rules(spec)[k]) \in Seq(PathsIn(spec))
    /\ \A path \in PathsIn(spec) : PathAssumption(path)

LEMMA ElementsOfPaths ==
    ASSUME NEW ref, NEW p
    PROVE  /\ DOMAIN Elements(Anew(ref, p, DecodedPath)) = DOMAIN Elements(ref)
           /\ \A n \in DOMAIN Elements(ref) :
                Elements(Anew(ref, p, DecodedPath))[n] = DecodedPath(Elements(ref)[n], At(p, n))
<1> SUFFICES ASSUME NEW new, new = Anew(ref, p, DecodedPath)
             PROVE  /\ DOMAIN Elements(new) = DOMAIN Elements(ref)
                    /\ \A n \in DOMAIN Elements(ref) : Elements(new)[n] = DecodedPath(Elements(ref)[n], At(p, n))
  OBVIOUS
<1>0. DOMAIN <<>> = {}
  OBVIOUS
<1>1. CASE ref = Nil \/ DOMAIN ref.sub = {}
  <2>1. new = Nil
    BY <1>1, NewPaths
  <2>2. DOMAIN Elements(new) = {} /\ DOMAIN Elements(ref) = {}
    BY <1>0, <1>1, <2>1 DEF Elements
  <2> QED BY <2>2
<1>2. CASE ~(ref = Nil \/ DOMAIN ref.sub = {})
  <2>1. new # Nil /\ DOMAIN new.sub = DOMAIN ref.sub
        /\ \A k \in DOMAIN ref.sub : new.sub[k] = DecodedPath(ref.sub[k], At(p, k))
    BY <1>2, NewPaths
  <2>2. Elements(new) = new.sub /\ Elements(ref) = ref.sub
    BY <1>2, <2>1 DEF Elements
  <2> QED BY <2>1, <2>2
<1> QED BY <1>1, <1>2

LEMMA ElementsOfRules ==
    ASSUME NEW ref, NEW p
    PROVE  /\ DOMAIN Elements(Anew(ref, p, DecodedRule)) = DOMAIN Elements(ref)
           /\ \A n \in DOMAIN Elements(ref) :
                Elements(Anew(ref, p, DecodedRule))[n] = DecodedRule(Elements(ref)[n], At(p, n))
<1> SUFFICES ASSUME NEW new, new = Anew(ref, p, DecodedRule)
             PROVE  /\ DOMAIN Elements(new) = DOMAIN Elements(ref)
                    /\ \A n \in DOMAIN Elements(ref) : Elements(new)[n] = DecodedRule(Elements(ref)[n], At(p, n))
  OBVIOUS
<1>0. DOMAIN <<>> = {}
  OBVIOUS
<1>1. CASE ref = Nil \/ DOMAIN ref.sub = {}
  <2>1. new = Nil
    BY <1>1, NewRules
  <2>2. DOMAIN Elements(new) = {} /\ DOMAIN Elements(ref) = {}
    BY <1>0, <1>1, <2>1 DEF Elements
  <2> QED BY <2>2
<1>2. CASE ~(ref = Nil \/ DOMAIN ref.sub = {})
  <2>1. new # Nil /\ DOMAIN new.sub = DOMAIN ref.sub
        /\ \A k \in DOMAIN ref.sub : new.sub[k] = DecodedRule(ref.sub[k], At(p, k))
    BY <1>2, NewRules
  <2>2. Elements(new) = new.sub /\ Elements(ref) = ref.sub
    BY <1>2, <2>1 DEF Elements
  <2> QED BY <2>1, <2>2
<1> QED BY <1>1, <1>2

LEMMA RuleSays ==
    ASSUME NEW v, NEW p, v.HTTP # Nil => DOMAIN v.HTTP.sub = {"to"}
    PROVE  LET rule == DecodedRule(v, p)
               q == At(At(At(p, "HTTP"), "to"), "Paths")
           IN  /\ rule.Host = v.Host
               /\ (rule.HTTP # Nil <=> v.HTTP # Nil)
               /\ rule.HTTP # Nil => DOMAIN rule.HTTP.sub = {"to"}
               /\ DOMAIN PathsOf(rule) = DOMAIN PathsOf(v)
               /\ \A n \in DOMAIN PathsOf(v) : PathsOf(rule)[n] = DecodedPath(PathsOf(v)[n], At(q, n))
<1> DEFINE q == At(At(At(p, "HTTP"), "to"), "Paths")
<1> SUFFICES ASSUME NEW rule, rule = DecodedRule(v, p)
             PROVE  /\ rule.Host = v.Host
                    /\ (rule.HTTP # Nil <=> v.HTTP # Nil)
                    /\ rule.HTTP # Nil => DOMAIN rule.HTTP.sub = {"to"}
                    /\ DOMAIN PathsOf(rule) = DOMAIN PathsOf(v)
                    /\ \A n \in DOMAIN PathsOf(v) : PathsOf(rule)[n] = DecodedPath(PathsOf(v)[n], At(q, n))
  OBVIOUS
<1>1. rule.Host = v.Host /\ rule.HTTP = Anew(v.HTTP, At(p, "HTTP"), DecodedHTTP)
  BY DEF DecodedRule
<1>2. CASE v.HTTP = Nil
  <2>1. rule.HTTP = Nil
    BY <1>1, <1>2, NewHTTPs
  <2>2. PathsOf(rule) = <<>> /\ PathsOf(v) = <<>>
    BY <1>2, <2>1 DEF PathsOf
  <2>3. DOMAIN <<>> = {}
    OBVIOUS
  <2> QED BY <1>1, <1>2, <2>1, <2>2, <2>3
<1>3. CASE v.HTTP # Nil
  <2>1. ~(v.HTTP = Nil \/ DOMAIN v.HTTP.sub = {}) /\ "to" \in DOMAIN v.HTTP.sub
    BY <1>3
  <2>2. rule.HTTP # Nil /\ DOMAIN rule.HTTP.sub = {"to"}
        /\ rule.HTTP.sub["to"] = DecodedHTTP(v.HTTP.sub["to"], At(At(p, "HTTP"), "to"))
    <3> DEFINE ref == v.HTTP
               place == At(p, "HTTP")
               new == Anew(ref, place, DecodedHTTP)
    <3> HIDE DEF ref, place
    <3>1. ~(ref = Nil \/ DOMAIN ref.sub = {}) /\ "to" \in DOMAIN ref.sub /\ DOMAIN ref.sub = {"to"}
      BY <1>3, <2>1 DEF ref
    <3>2. new # Nil /\ DOMAIN new.sub = DOMAIN ref.sub
      BY <3>1, NewHTTPs
    <3>3. new.sub["to"] = DecodedHTTP(ref.sub["to"], At(place, "to"))
      BY <3>1, NewHTTPs
    <3>4. rule.HTTP = new
      BY <1>1 DEF ref, place
    <3> HIDE DEF new
    <3>5. rule.HTTP # Nil /\ DOMAIN rule.HTTP.sub = {"to"} /\ rule.HTTP.sub["to"] = DecodedHTTP(ref.sub["to"], At(place, "to"))
      BY <3>1, <3>2, <3>3, <3>4
    <3> QED BY <3>5 DEF ref, place
  <2>3. rule.HTTP.sub.to.Paths = Anew(v.HTTP.sub.to.Paths, q, DecodedPath)
    BY <2>2 DEF DecodedHTTP
  <2>4. PathsOf(rule) = Elements(rule.HTTP.sub.to.Paths) /\ PathsOf(v) = Elements(v.HTTP.sub.to.Paths)
    BY <1>3, <2>2 DEF PathsOf
  <2> HIDE DEF q
  <2>5. /\ DOMAIN PathsOf(rule) = DOMAIN PathsOf(v)
        /\ \A n \in DOMAIN PathsOf(v) : PathsOf(rule)[n] = DecodedPath(PathsOf(v)[n], At(q, n))
    <3> DEFINE ref == v.HTTP.sub.to.Paths
    <3>1. PathsOf(rule) = Elements(Anew(ref, q, DecodedPath)) /\ PathsOf(v) = Elements(ref)
      BY <2>3, <2>4
    <3> HIDE DEF ref
    <3>2. /\ DOMAIN Elements(Anew(ref, q, DecodedPath)) = DOMAIN Elements(ref)
          /\ \A n \in DOMAIN Elements(ref) :
                Elements(Anew(ref, q, DecodedPath))[n] = DecodedPath(Elements(ref)[n], At(q, n))
      BY ElementsOfPaths
    <3> QED BY <3>1, <3>2
  <2> QED BY <1>1, <1>3, <2>2, <2>5
<1> QED BY <1>2, <1>3

\* The paths of a rule, with the same path and backend.
AlikePaths(some, others) ==
    /\ DOMAIN some = DOMAIN others
    /\ \A n \in DOMAIN others : some[n].Path = others[n].Path /\ some[n].Backend = others[n].Backend

LEMMA SpecSays ==
    ASSUME NEW v, NEW p, Pointers(v)
    PROVE  LET spec == DecodedSpec(v, p)
           IN  /\ Pointers(spec)
               /\ DOMAIN Rules(spec) = DOMAIN Rules(v)
               /\ \A k \in DOMAIN Rules(v) :
                    /\ Rules(spec)[k].Host = Rules(v)[k].Host
                    /\ Rules(spec)[k].HTTP # Nil <=> Rules(v)[k].HTTP # Nil
                    /\ AlikePaths(PathsOf(Rules(spec)[k]), PathsOf(Rules(v)[k]))
<1> SUFFICES ASSUME NEW spec, spec = DecodedSpec(v, p)
             PROVE  /\ Pointers(spec)
                    /\ DOMAIN Rules(spec) = DOMAIN Rules(v)
                    /\ \A k \in DOMAIN Rules(v) :
                         /\ Rules(spec)[k].Host = Rules(v)[k].Host
                         /\ Rules(spec)[k].HTTP # Nil <=> Rules(v)[k].HTTP # Nil
                         /\ AlikePaths(PathsOf(Rules(spec)[k]), PathsOf(Rules(v)[k]))
  OBVIOUS
<1>1. spec.Rules = Anew(v.Rules, At(p, "Rules"), DecodedRule)
  BY DEF DecodedSpec
<1>2. /\ DOMAIN Rules(spec) = DOMAIN Rules(v)
      /\ \A k \in DOMAIN Rules(v) : Rules(spec)[k] = DecodedRule(Rules(v)[k], At(At(p, "Rules"), k))
  BY <1>1, ElementsOfRules DEF Rules
<1>3. ASSUME NEW k \in DOMAIN Rules(v)
      PROVE  /\ Rules(spec)[k].Host = Rules(v)[k].Host
             /\ Rules(spec)[k].HTTP # Nil <=> Rules(v)[k].HTTP # Nil
             /\ Rules(spec)[k].HTTP # Nil => DOMAIN Rules(spec)[k].HTTP.sub = {"to"}
             /\ AlikePaths(PathsOf(Rules(spec)[k]), PathsOf(Rules(v)[k]))
  <2> DEFINE old == Rules(v)[k]
             rule == Rules(spec)[k]
             place == At(At(p, "Rules"), k)
             q == At(At(At(place, "HTTP"), "to"), "Paths")
  <2>1. rule = DecodedRule(old, place) /\ (old.HTTP # Nil => DOMAIN old.HTTP.sub = {"to"})
    BY <1>2 DEF Pointers
  <2> HIDE DEF old, rule, place
  <2>2. /\ rule.Host = old.Host
        /\ (rule.HTTP # Nil <=> old.HTTP # Nil)
        /\ rule.HTTP # Nil => DOMAIN rule.HTTP.sub = {"to"}
        /\ DOMAIN PathsOf(rule) = DOMAIN PathsOf(old)
        /\ \A n \in DOMAIN PathsOf(old) : PathsOf(rule)[n] = DecodedPath(PathsOf(old)[n], At(q, n))
    BY <2>1, RuleSays
  <2> HIDE DEF q
  <2>3. \A w, r : DecodedPath(w, r).Path = w.Path /\ DecodedPath(w, r).Backend = w.Backend
    BY DEF DecodedPath
  <2>4. AlikePaths(PathsOf(rule), PathsOf(old))
    BY <2>2, <2>3 DEF AlikePaths
  <2> QED BY <2>2, <2>4 DEF rule, old
<1> QED BY <1>2, <1>3 DEF Pointers

LEMMA PathAt ==
    ASSUME NEW spec, NEW path
    PROVE  path \in PathsIn(spec) <=>
           \E k \in DOMAIN Rules(spec) : \E n \in DOMAIN PathsOf(Rules(spec)[k]) : path = PathsOf(Rules(spec)[k])[n]
BY DEF PathsIn, ToSet

LEMMA PathsDecoded ==
    ASSUME NEW v, NEW p, Pointers(v), NEW path \in PathsIn(DecodedSpec(v, p))
    PROVE  \E w, q : path = DecodedPath(w, q) /\ q.by = p.by
<1> SUFFICES ASSUME NEW spec, spec = DecodedSpec(v, p), path \in PathsIn(spec)
             PROVE  \E w, q : path = DecodedPath(w, q) /\ q.by = p.by
  OBVIOUS
<1>1. spec.Rules = Anew(v.Rules, At(p, "Rules"), DecodedRule)
  BY DEF DecodedSpec
<1>2. /\ DOMAIN Rules(spec) = DOMAIN Rules(v)
      /\ \A k \in DOMAIN Rules(v) : Rules(spec)[k] = DecodedRule(Rules(v)[k], At(At(p, "Rules"), k))
  BY <1>1, ElementsOfRules DEF Rules
<1>3. PICK k \in DOMAIN Rules(spec) : \E n \in DOMAIN PathsOf(Rules(spec)[k]) : path = PathsOf(Rules(spec)[k])[n]
  BY PathAt
<1>4. PICK n \in DOMAIN PathsOf(Rules(spec)[k]) : path = PathsOf(Rules(spec)[k])[n]
  BY <1>3
<1> DEFINE old == Rules(v)[k]
           rule == Rules(spec)[k]
           place == At(At(p, "Rules"), k)
           q == At(At(At(place, "HTTP"), "to"), "Paths")
<1>5. rule = DecodedRule(old, place) /\ (old.HTTP # Nil => DOMAIN old.HTTP.sub = {"to"})
  BY <1>2 DEF Pointers
<1>6. place.by = p.by /\ At(q, n).by = place.by
  BY AtPlace
<1>7. n \in DOMAIN PathsOf(rule) /\ path = PathsOf(rule)[n]
  BY <1>4
<1> HIDE DEF old, rule, place
<1>8. /\ DOMAIN PathsOf(rule) = DOMAIN PathsOf(old)
      /\ \A i \in DOMAIN PathsOf(old) : PathsOf(rule)[i] = DecodedPath(PathsOf(old)[i], At(q, i))
  BY <1>5, RuleSays
<1> HIDE DEF q
<1>9. path = DecodedPath(PathsOf(old)[n], At(q, n))
  BY <1>7, <1>8
<1> QED BY <1>6, <1>9

\* The parameters of paths lie in memory of their own, by whoever made it.
LEMMA ParamMapsOf ==
    ASSUME NEW v, NEW p, Pointers(v), NEW a \in ParamMaps(DecodedSpec(v, p))
    PROVE  a.by = p.by
<1>1. PICK path \in PathsIn(DecodedSpec(v, p)) :
        \E ref \in {path.LocationParam, path.UpstreamParam} : ref # Nil /\ a = ref.at
  <2> DEFINE paths == PathsIn(DecodedSpec(v, p))
             params == UNION {{path.LocationParam, path.UpstreamParam} : path \in paths}
  <2>0. ParamMaps(DecodedSpec(v, p)) = {ref.at : ref \in params \ {Nil}}
    BY Zenon DEF ParamMaps
  <2>1. a \in {ref.at : ref \in params \ {Nil}}
    BY <2>0
  <2> HIDE DEF params
  <2>2. PICK ref \in params \ {Nil} : a = ref.at
    BY <2>1
  <2> HIDE DEF paths
  <2>3. PICK path \in paths : ref \in {path.LocationParam, path.UpstreamParam}
    BY <2>2 DEF params
  <2> QED BY <2>2, <2>3 DEF paths
<1>2. PICK w, q : path = DecodedPath(w, q) /\ q.by = p.by
  BY PathsDecoded
<1>3. /\ path.LocationParam = Anew(w.LocationParam, At(q, "LocationParam"), DecodedValue)
      /\ path.UpstreamParam = Anew(w.UpstreamParam, At(q, "UpstreamParam"), DecodedValue)
  BY <1>2 DEF DecodedPath
<1>4. \A ref, r : Anew(ref, r, DecodedValue) # Nil => Anew(ref, r, DecodedValue).at = r
  BY NewValues
<1>5. a = At(q, "LocationParam") \/ a = At(q, "UpstreamParam")
  BY <1>1, <1>3, <1>4
<1> QED BY <1>2, <1>5, AtPlace

LEMMA RulesAreParams == \A spec : RulesMemory(Rules(spec)) = ParamMemory(spec)
<1> SUFFICES ASSUME NEW spec, NEW a PROVE a \in RulesMemory(Rules(spec)) <=> a \in ParamMemory(spec)
  OBVIOUS
<1>1. a \in RulesMemory(Rules(spec)) <=>
      \E k \in DOMAIN Rules(spec) : \E n \in DOMAIN PathsOf(Rules(spec)[k]) : a \in PathMemory(PathsOf(Rules(spec)[k])[n])
  BY DEF RulesMemory, PathsMemory
<1>2. a \in ParamMemory(spec) <=> \E path \in PathsIn(spec) : a \in PathMemory(path)
  BY DEF ParamMemory
<1> QED BY <1>1, <1>2, PathAt

LEMMA SpecShared ==
    ASSUME NEW v, NEW p, Pointers(v)
    PROVE  Shared(SpecMemory(DeepCopyIngressSpec(DecodedSpec(v, p))), ParamMemory(DecodedSpec(v, p)))
<1> DEFINE spec == DecodedSpec(v, p)
           backend == Anew(v.Backend, At(p, "Backend"), Plain)
           tls == Anew(v.TLS, At(p, "TLS"), DecodedTLS)
           rules == Anew(v.Rules, At(p, "Rules"), DecodedRule)
<1>1. SpecMemory(DeepCopyIngressSpec(spec)) =
        PlainsReach(BackendsCopy(backend)) \cup TLSsReach(TLSsCopy(tls)) \cup RulesReach(RulesCopy(rules))
  BY DEF SpecMemory, DeepCopyIngressSpec, DecodedSpec, PlainsReach, TLSsReach, RulesReach, BackendsCopy, TLSsCopy, RulesCopy
<1>2. Shared(PlainsReach(BackendsCopy(backend)), {}) /\ Shared(TLSsReach(TLSsCopy(tls)), {})
  BY PlainsShared, TLSsShared
<1>3. Shared(RulesReach(RulesCopy(rules)), RulesMemory(Elements(rules)))
  BY RulesShared DEF Pointers, Rules
<1>4. Elements(rules) = Rules(spec)
  BY DEF DecodedSpec, Rules
<1>5. RulesMemory(Elements(rules)) = ParamMemory(spec)
  BY <1>4, RulesAreParams
<1> HIDE DEF spec, backend, tls, rules
<1>6. Shared(SpecMemory(DeepCopyIngressSpec(spec)), ParamMemory(spec))
  BY <1>1, <1>2, <1>3, <1>5 DEF Shared
<1> QED BY <1>6 DEF spec

LEMMA RulesAreSeq ==
    ASSUME NEW ref, NEW p, NEW m \in Nat, DOMAIN Elements(ref) = 1..m
    PROVE  Elements(Anew(ref, p, DecodedRule)) \in Seq(ToSet(Elements(Anew(ref, p, DecodedRule))))
<1> DEFINE new == Anew(ref, p, DecodedRule)
           sub == [k \in DOMAIN ref.sub |-> DecodedRule(ref.sub[k], At(p, k))]
<1>1. CASE ref = Nil \/ DOMAIN ref.sub = {}
  <2>1. Elements(new) = <<>>
    BY <1>1, NewRules DEF Elements
  <2> QED BY <2>1
<1>2. CASE ~(ref = Nil \/ DOMAIN ref.sub = {})
  <2>1. new = Ref(p, sub)
    BY <1>2 DEF Anew
  <2>2. Elements(new) = sub
    BY <2>1, RefIsNotNil DEF Elements
  <2>3. DOMAIN ref.sub = 1..m
    BY <1>2 DEF Elements
  <2>4. sub \in [1..m -> ToSet(sub)]
    BY <2>3 DEF ToSet
  <2> HIDE DEF new, sub
  <2>5. Elements(new) \in Seq(ToSet(Elements(new)))
    BY <2>2, <2>4
  <2> QED BY <2>5 DEF new
<1> QED BY <1>1, <1>2

LEMMA PathsAreSeq ==
    ASSUME NEW ref, NEW p, NEW m \in Nat, DOMAIN Elements(ref) = 1..m
    PROVE  Elements(Anew(ref, p, DecodedPath)) \in Seq(ToSet(Elements(Anew(ref, p, DecodedPath))))
<1> DEFINE new == Anew(ref, p, DecodedPath)
           sub == [k \in DOMAIN ref.sub |-> DecodedPath(ref.sub[k], At(p, k))]
<1>1. CASE ref = Nil \/ DOMAIN ref.sub = {}
  <2>1. Elements(new) = <<>>
    BY <1>1, NewPaths DEF Elements
  <2> QED BY <2>1
<1>2. CASE ~(ref = Nil \/ DOMAIN ref.sub = {})
  <2>1. new = Ref(p, sub)
    BY <1>2 DEF Anew
  <2>2. Elements(new) = sub
    BY <2>1, RefIsNotNil DEF Elements
  <2>3. DOMAIN ref.sub = 1..m
    BY <1>2 DEF Elements
  <2>4. sub \in [1..m -> ToSet(sub)]
    BY <2>3 DEF ToSet
  <2> HIDE DEF new, sub
  <2>5. Elements(new) \in Seq(ToSet(Elements(new)))
    BY <2>2, <2>4
  <2> QED BY <2>5 DEF new
<1> QED BY <1>1, <1>2

LEMMA PathsOfRule ==
    ASSUME NEW v, NEW p, v.HTTP # Nil => DOMAIN v.HTTP.sub = {"to"}, NEW m \in Nat, DOMAIN PathsOf(v) = 1..m
    PROVE  PathsOf(DecodedRule(v, p)) \in Seq(ToSet(PathsOf(DecodedRule(v, p))))
<1> SUFFICES ASSUME NEW rule, rule = DecodedRule(v, p) PROVE PathsOf(rule) \in Seq(ToSet(PathsOf(rule)))
  OBVIOUS
<1>1. rule.HTTP = Anew(v.HTTP, At(p, "HTTP"), DecodedHTTP)
  BY DEF DecodedRule
<1>2. CASE v.HTTP = Nil
  <2>1. rule.HTTP = Nil
    BY <1>1, <1>2, NewHTTPs
  <2>2. PathsOf(rule) = <<>>
    BY <2>1 DEF PathsOf
  <2> QED BY <2>2
<1>3. CASE v.HTTP # Nil
  <2> DEFINE ref == v.HTTP
             place == At(p, "HTTP")
             new == Anew(ref, place, DecodedHTTP)
  <2>1. rule.HTTP = new
    BY <1>1
  <2>2. ref # Nil /\ DOMAIN ref.sub = {"to"}
    BY <1>3
  <2>3. PathsOf(v) = Elements(ref.sub["to"].Paths)
    BY <1>3 DEF PathsOf
  <2> HIDE DEF ref, place
  <2>4. ~(ref = Nil \/ DOMAIN ref.sub = {}) /\ "to" \in DOMAIN ref.sub
    BY <2>2
  <2>5. new # Nil
    BY <2>4, NewHTTPs
  <2>6. new.sub["to"] = DecodedHTTP(ref.sub["to"], At(place, "to"))
    BY <2>4, NewHTTPs
  <2> HIDE DEF new
  <2> DEFINE paths == ref.sub["to"].Paths
             q == At(At(place, "to"), "Paths")
  <2>7. PathsOf(rule) = Elements(Anew(paths, q, DecodedPath))
    BY <2>1, <2>5, <2>6 DEF PathsOf, DecodedHTTP
  <2>8. DOMAIN Elements(paths) = 1..m
    BY <2>3
  <2> HIDE DEF paths, q
  <2> QED BY <2>7, <2>8, PathsAreSeq
<1> QED BY <1>2, <1>3

LEMMA DecodedGood ==
    ASSUME NEW v, NEW p, GoodSpec(v)
    PROVE  GoodSpec(DecodedSpec(v, p))
<1> SUFFICES ASSUME NEW spec, spec = DecodedSpec(v, p) PROVE GoodSpec(spec)
  OBVIOUS
<1>1. Pointers(v)
  BY DEF GoodSpec, Pointers
<1>2. /\ Pointers(spec)
      /\ DOMAIN Rules(spec) = DOMAIN Rules(v)
      /\ \A k \in DOMAIN Rules(v) :
            /\ Rules(spec)[k].Host = Rules(v)[k].Host
            /\ Rules(spec)[k].HTTP # Nil <=> Rules(v)[k].HTTP # Nil
            /\ AlikePaths(PathsOf(Rules(spec)[k]), PathsOf(Rules(v)[k]))
  BY <1>1, SpecSays
<1>3. spec.Rules = Anew(v.Rules, At(p, "Rules"), DecodedRule)
  BY DEF DecodedSpec
<1>4. /\ DOMAIN Rules(spec) = DOMAIN Rules(v)
      /\ \A k \in DOMAIN Rules(v) : Rules(spec)[k] = DecodedRule(Rules(v)[k], At(At(p, "Rules"), k))
  BY <1>3, ElementsOfRules DEF Rules
<1>5. Rules(spec) \in Seq(ToSet(Rules(spec)))
  <2>1. PICK m \in Nat : DOMAIN Elements(v.Rules) = 1..m
    <3>1. \A S : \A s \in Seq(S) : Len(s) \in Nat /\ DOMAIN s = 1..Len(s)
      OBVIOUS
    <3> QED BY <3>1 DEF GoodSpec, Rules
  <2> QED BY <1>3, <2>1, RulesAreSeq DEF Rules
<1>6. ASSUME NEW k \in DOMAIN Rules(spec) PROVE PathsOf(Rules(spec)[k]) \in Seq(PathsIn(spec))
  <2> DEFINE old == Rules(v)[k]
             rule == Rules(spec)[k]
             place == At(At(p, "Rules"), k)
  <2>1. rule = DecodedRule(old, place) /\ (old.HTTP # Nil => DOMAIN old.HTTP.sub = {"to"})
    BY <1>1, <1>4 DEF Pointers
  <2>2. PICK m \in Nat : DOMAIN PathsOf(old) = 1..m
    <3>1. PathsOf(old) \in Seq(PathsIn(v))
      BY <1>4 DEF GoodSpec
    <3> HIDE DEF old
    <3>2. Len(PathsOf(old)) \in Nat /\ DOMAIN PathsOf(old) = 1..Len(PathsOf(old))
      BY <3>1
    <3> QED BY <3>2
  <2>3. ToSet(PathsOf(rule)) \subseteq PathsIn(spec)
    BY DEF PathsIn
  <2> HIDE DEF old, rule, place
  <2>4. PathsOf(rule) \in Seq(ToSet(PathsOf(rule)))
    BY <2>1, <2>2, PathsOfRule
  <2>5. PathsOf(rule) \in Seq(PathsIn(spec))
    BY <2>3, <2>4
  <2> QED BY <2>5 DEF rule
<1>7. ASSUME NEW path \in PathsIn(spec) PROVE PathAssumption(path)
  <2>1. PICK k \in DOMAIN Rules(spec) : \E n \in DOMAIN PathsOf(Rules(spec)[k]) : path = PathsOf(Rules(spec)[k])[n]
    BY <1>7, PathAt
  <2>2. PICK n \in DOMAIN PathsOf(Rules(spec)[k]) : path = PathsOf(Rules(spec)[k])[n]
    BY <2>1
  <2> DEFINE old == PathsOf(Rules(v)[k])[n]
  <2>3. /\ n \in DOMAIN PathsOf(Rules(v)[k])
        /\ path.Path = old.Path /\ path.Backend = old.Backend
    BY <1>2, <2>1, <2>2 DEF AlikePaths
  <2>4. old \in PathsIn(v)
    BY <1>2, <2>1, <2>3, PathAt
  <2>5. PathAssumption(old)
    BY <2>4 DEF GoodSpec
  <2> HIDE DEF old
  <2> QED BY <2>3, <2>5 DEF PathAssumption
<1>8. \A k \in DOMAIN Rules(spec) :
        /\ Rules(spec)[k].Host \in Seq(Tokens)
        /\ Rules(spec)[k].HTTP # Nil => DOMAIN Rules(spec)[k].HTTP.sub = {"to"}
  BY <1>2 DEF GoodSpec, Pointers
<1> QED BY <1>5, <1>6, <1>7, <1>8 DEF GoodSpec

------------------------------------------------------------------------------
(***************************************************************************)
(* The keys of an object, read back: what TextProofs says, for the texts   *)
(* of objects.                                                             *)
(***************************************************************************)
\* What names are made of.
Words == Tokens \ {"/", "_", "ExtendIngress", "Endpoint", "Del"}

LEMMA NameWords == \A text \in Names : text \in Seq(Words)
BY Narrow DEF Names, Words

LEMMA IdWords ==
    ASSUME NEW id \in Ids
    PROVE  id.ns \in Seq(Words) /\ id.name \in Seq(Words) /\ id = [ns |-> id.ns, name |-> id.name]
<1>1. id \in [ns : Names, name : Names]
  BY NamesAssumption
<1>2. id.ns \in Names /\ id.name \in Names /\ id = [ns |-> id.ns, name |-> id.name]
  BY <1>1
<1> QED BY <1>2, NameWords

LEMMA SyncKey ==
    ASSUME NEW id \in Ids, NEW event \in {"ADD", "Update"}, NEW servers
    PROVE  ReadKey(enqueueExtendIngress(event, id, servers)) = [does |-> "sync", id |-> id]
<1>1. Words \cap {"/", "Del"} = {}
  BY DEF Words
<1>2. id.ns \in Seq(Words) /\ id.name \in Seq(Words) /\ id = [ns |-> id.ns, name |-> id.name]
  BY IdWords
<1>3. ReadKey(enqueueExtendIngress(event, id, servers)) = [does |-> "sync", id |-> [ns |-> id.ns, name |-> id.name]]
  BY <1>1, <1>2, ReadSync
<1> QED BY <1>2, <1>3

LEMMA ConfigmapKey ==
    ASSUME NEW c \in DOMAIN ConfigMap, NEW event \in Events
    PROVE  ReadKey(handleConfigmapObj(event, c, ConfigMap[c]))
           = [does |-> "configmap", conf |-> {c}, id |-> ConfigMap[c]]
<1> DEFINE id == ConfigMap[c]
<1>1. Words \cap {"/", "ExtendIngress", "Endpoint"} = {}
  BY DEF Words
<1>2. id \in [ns : Names, name : Names] /\ c \in {"common", "event", "http"}
  BY NamesAssumption
<1>3. id.ns \in Names /\ id.name \in Names /\ id = [ns |-> id.ns, name |-> id.name]
  BY <1>2
<1> HIDE DEF id
<1>4. id.ns \in Seq(Words) /\ id.name \in Seq(Words)
  BY <1>3, NameWords
<1>5. event \in {"ADD", "Update", "Del"}
  BY EventsAssumption
<1>6. ReadKey(handleConfigmapObj(event, c, id))
      = [does |-> "configmap", conf |-> {c}, id |-> [ns |-> id.ns, name |-> id.name]]
  BY <1>1, <1>2, <1>4, <1>5, ReadBackConfigmap
<1>7. ReadKey(handleConfigmapObj(event, c, id)) = [does |-> "configmap", conf |-> {c}, id |-> id]
  BY <1>3, <1>6
<1> QED BY <1>7 DEF id

LEMMA Behead ==
    ASSUME NEW T, NEW path \in Seq(T), path # <<>>, Head(path) = "/"
    PROVE  Slashed(path, Tail(path)) /\ Tail(path) \in Seq(T) /\ "/" \in T
<1>1. Len(path) \in Nat /\ Len(path) # 0 /\ path \in [1..Len(path) -> T]
  BY EmptySeq, LenProperties
<1>2. path = <<Head(path)>> \o Tail(path) /\ Tail(path) \in Seq(T) /\ Head(path) \in T
  BY HeadTailProperties
<1> QED BY <1>2 DEF Slashed

\* The servers of a specification that no separator can be mistaken in.
LEMMA ServerReadable ==
    ASSUME NEW W, W = Tokens \ {"-", "/"}, NEW host \in Seq(Tokens), ~Has(host, {"-", "/"}),
           NEW m \in Nat, NEW paths, paths = [n \in 1..m |-> paths[n]],
           \A n \in 1..m : /\ paths[n] \in Seq(Tokens) /\ paths[n] # <<>> /\ Head(paths[n]) = "/"
                           /\ ~Has(Tail(paths[n]), {"-", "/"})
    PROVE  [host |-> host, paths |-> paths] \in Readable(W)
<1>1. host \in Seq(W)
  BY Narrow DEF Has
<1>2. ASSUME NEW n \in 1..m PROVE paths[n] \in {<<"/">> \o w : w \in Seq(W)}
  <2> DEFINE path == paths[n]
  <2>1. path \in Seq(Tokens) /\ path # <<>> /\ Head(path) = "/" /\ ~Has(Tail(path), {"-", "/"})
    OBVIOUS
  <2> HIDE DEF path
  <2>2. path = <<"/">> \o Tail(path) /\ Tail(path) \in Seq(Tokens)
    BY <2>1, Behead DEF Slashed
  <2>3. Tail(path) \in Seq(W)
    <3> DEFINE tail == Tail(path)
    <3>1. tail \in Seq(Tokens) /\ ToSet(tail) \cap {"-", "/"} = {}
      BY <2>1, <2>2 DEF Has
    <3> HIDE DEF tail
    <3>2. tail \in Seq(W)
      BY <3>1, Narrow
    <3> QED BY <3>2 DEF tail
  <2>4. path \in {<<"/">> \o w : w \in Seq(W)}
    BY <2>2, <2>3
  <2> QED BY <2>4 DEF path
<1> DEFINE P == {<<"/">> \o w : w \in Seq(W)}
<1> HIDE DEF P
<1>3. paths \in [1..m -> P]
  BY <1>2 DEF P
<1>4. paths \in Seq(P)
  BY <1>3
<1> QED BY <1>1, <1>4 DEF Readable, P

LEMMA DeleteKey ==
    ASSUME NEW id \in Ids, NEW spec, GoodSpec(spec), \A p \in PathsIn(spec) : Sliceable(p.Path),
           ~Misreadable([does |-> "delete", servers |-> ServersOf(spec)])
    PROVE  ReadKey(enqueueExtendIngress("Del", id, ServersOf(spec))) = [does |-> "delete", servers |-> ServersOf(spec)]
<1> DEFINE servers == ServersOf(spec)
           W == Tokens \ {"-", "/"}
<1>1. DOMAIN servers = DOMAIN Rules(spec) /\ servers = [k \in DOMAIN servers |-> servers[k]]
  BY DEF ServersOf
<1>2. ASSUME NEW k \in DOMAIN Rules(spec) PROVE servers[k] \in Readable(W)
  <2> DEFINE paths == PathsOf(Rules(spec)[k])
             texts == [n \in DOMAIN paths |-> paths[n].Path]
             host == Rules(spec)[k].Host
  <2>1. servers[k] = [host |-> host, paths |-> texts]
    BY DEF ServersOf
  <2>2. /\ ~Has(host, {"-", "/"})
        /\ \A n \in DOMAIN texts : Absolute(texts[n]) /\ ~Has(Tail(texts[n]), {"-", "/"})
    <3>1. servers[k].host = host /\ servers[k].paths = texts
      BY <2>1
    <3> HIDE DEF texts, host
    <3>2. ~(\/ Has(servers[k].host, {"-", "/"})
            \/ \E n \in DOMAIN servers[k].paths :
                    ~Absolute(servers[k].paths[n]) \/ Has(Tail(servers[k].paths[n]), {"-", "/"}))
      BY <1>1 DEF Misreadable
    <3> QED BY <3>1, <3>2
  <2>3. host \in Seq(Tokens) /\ paths \in Seq(PathsIn(spec))
    BY DEF GoodSpec
  <2>4. \A n \in DOMAIN paths : paths[n] \in PathsIn(spec)
    BY PathAt
  <2>5. \A n \in DOMAIN paths : texts[n] \in Seq(Tokens)
    BY <2>4 DEF GoodSpec, PathAssumption
  <2>6. PICK m \in Nat : DOMAIN paths = 1..m
    <3> HIDE DEF paths
    <3>1. Len(paths) \in Nat /\ DOMAIN paths = 1..Len(paths)
      BY <2>3
    <3> QED BY <3>1
  <2>7. texts = [n \in 1..m |-> texts[n]]
    BY <2>6
  <2>8. DOMAIN texts = 1..m /\ DOMAIN paths = 1..m
    BY <2>6
  <2> HIDE DEF paths, texts, host, servers
  <2>9. [host |-> host, paths |-> texts] \in Readable(W)
    <3>1. \A n \in 1..m : /\ texts[n] \in Seq(Tokens) /\ texts[n] # <<>> /\ Head(texts[n]) = "/"
                          /\ ~Has(Tail(texts[n]), {"-", "/"})
      BY <2>2, <2>5, <2>8 DEF Absolute
    <3> QED BY <2>2, <2>3, <2>7, <3>1, ServerReadable
  <2> QED BY <2>1, <2>9
<1>3. servers \in Seq(Readable(W))
  <2>1. PICK m \in Nat : DOMAIN Rules(spec) = 1..m
    <3> DEFINE rules == Rules(spec)
    <3>1. rules \in Seq(ToSet(rules))
      BY DEF GoodSpec
    <3> HIDE DEF rules
    <3>2. Len(rules) \in Nat /\ DOMAIN rules = 1..Len(rules)
      BY <3>1
    <3> QED BY <3>2 DEF rules
  <2> HIDE DEF servers, W
  <2>2. servers \in [1..m -> Readable(W)]
    BY <1>1, <1>2, <2>1
  <2> QED BY <2>2
<1>4. W \cap {"/", "-"} = {} /\ "/" \notin Words
  BY DEF Words
<1>5. id.ns \in Seq(Words) /\ id.name \in Seq(Words)
  BY IdWords
<1> HIDE DEF servers, W
<1>6. ReadKey(enqueueExtendIngress("Del", id, servers)) = [does |-> "delete", servers |-> servers]
  BY <1>3, <1>4, <1>5, ReadDeleted
<1> QED BY <1>6 DEF servers

LEMMA EndpointKey ==
    ASSUME NEW id \in Ids, NEW svc \in Services, NEW p, PathAssumption(p), Sliceable(p.Path), NEW event \in Events,
           NEW meant, meant = [does |-> "endpoints", id |-> id, svc |-> svc, port |-> p.Backend.ServicePort, path |-> p.Path],
           ~Misreadable(meant)
    PROVE  ReadKey(enqueueEndpoint(event, ProxyPass(id, svc, p.Backend.ServicePort, p.Path))) = meant
<1> DEFINE port == p.Backend.ServicePort
           path == p.Path
           tail == Tail(path)
           V == Tokens \ {"_", "ExtendIngress"}
<1>1. path \in Seq(Tokens) /\ port \in Seq(Tokens) /\ svc \in Names
  BY NamesAssumption DEF PathAssumption
<1>2. /\ ~Has(path, {"_", "ExtendIngress"}) /\ ~Has(port, {"_", "ExtendIngress"})
      /\ path # <<>> /\ Head(path) = "/"
  BY DEF Misreadable, Absolute
<1> HIDE DEF path, port
<1>3. path \in Seq(V) /\ port \in Seq(V)
  BY <1>1, <1>2, Narrow DEF Has
<1>4. Slashed(path, tail) /\ Text(V, tail)
  BY <1>2, <1>3, Behead DEF Text
<1> HIDE DEF tail
<1>12. Words \subseteq V
  BY DEF Words
<1>7. V \cap {"_", "ExtendIngress"} = {}
  OBVIOUS
<1>8. event \in {"ADD", "Update", "Del"}
  BY EventsAssumption
<1> HIDE DEF V
<1>13. \A text \in Seq(Words) : text \in Seq(V)
  BY <1>12, SeqMonotonic
<1>5. Text(V, port) /\ Text(V, svc)
  BY <1>1, <1>3, <1>13, NameWords DEF Text
<1>6. Text(V, id.ns) /\ Text(V, id.name)
  BY <1>13, IdWords DEF Text
<1>11. EndpointWords(V, V, id, svc, port, path, tail, event)
  BY <1>4, <1>5, <1>6, <1>7, <1>8 DEF EndpointWords
<1>9. ReadKey(enqueueEndpoint(event, ProxyPass(id, svc, port, path))) = EndpointsTask(id.ns, id.name, svc, port, path)
  BY <1>11, ReadBackEndpoints
<1>10. EndpointsTask(id.ns, id.name, svc, port, path) = meant
  BY IdWords DEF EndpointsTask, port, path
<1> QED BY <1>9, <1>10 DEF port, path

------------------------------------------------------------------------------
(***************************************************************************)
(* The objects of the cache and the copies of them, as memory.             *)
(***************************************************************************)
\* Who decodes an object for the cache.
Makers == {"event", "stored"}

\* An address the informer made for a field, or the inside of a value.
Informers(field, a) == a.by = "value" \/ (a.by \in Makers /\ a.field = field)

\* An address of LastPaths itself, or of one of its slices.
OfLast(a) == a.by \in Makers /\ a.field = "Status"

LastAt(ref) == ref # Nil => OfLast(ref.at) /\ \A h \in DOMAIN ref.sub : ref.sub[h] # Nil => OfLast(ref.sub[h].at)

Cacheable(obj) ==
    /\ DOMAIN obj = {"ObjectMeta", "Spec", "Status"}
    /\ DOMAIN obj.ObjectMeta = {"Labels"}
    /\ DOMAIN obj.Status = {"LoadBalancer", "State", "LastPaths"}
    /\ DOMAIN obj.Status.LoadBalancer = {"Ingress"}
    /\ \A a \in MetaMemory(obj.ObjectMeta) : Informers("ObjectMeta", a)
    /\ \A a \in StatusMemory(obj.Status) : Informers("Status", a)
    /\ LastAt(obj.Status.LastPaths)

LEMMA DecodedLastAt ==
    ASSUME NEW ref, NEW p, OfLast(p)
    PROVE  LastAt(Anew(ref, p, DecodedLast))
<1> SUFFICES ASSUME NEW new, new = Anew(ref, p, DecodedLast), new # Nil
             PROVE  OfLast(new.at) /\ \A h \in DOMAIN new.sub : new.sub[h] # Nil => OfLast(new.sub[h].at)
  BY DEF LastAt
<1>1. ~(ref = Nil \/ DOMAIN ref.sub = {})
  BY NewLasts
<1>2. new.at = p /\ DOMAIN new.sub = DOMAIN ref.sub
  BY <1>1, NewLasts
<1>3. \A k \in DOMAIN ref.sub : new.sub[k] = DecodedLast(ref.sub[k], At(p, k))
  BY <1>1, NewLasts
<1>4. ASSUME NEW h \in DOMAIN new.sub, new.sub[h] # Nil PROVE OfLast(new.sub[h].at)
  <2>1. new.sub[h] = Anew(ref.sub[h], At(p, h), DecodedPath)
    BY <1>2, <1>3 DEF DecodedLast
  <2>2. \A r, q : Anew(r, q, DecodedPath) # Nil => Anew(r, q, DecodedPath).at = q
    BY NewPaths
  <2>3. new.sub[h].at = At(p, h)
    BY <1>4, <2>1, <2>2
  <2> QED BY <2>3, AtPlace DEF OfLast
<1> QED BY <1>2, <1>4

LEMMA DecodedCacheable ==
    ASSUME NEW obj, NEW by \in Makers, NEW of
    PROVE  /\ Cacheable(Decoded(obj, by, of))
           /\ Decoded(obj, by, of).Spec = DecodedSpec(obj.Spec, Place(by, of, "Spec"))
<1> SUFFICES ASSUME NEW new, new = Decoded(obj, by, of)
             PROVE  Cacheable(new) /\ new.Spec = DecodedSpec(obj.Spec, Place(by, of, "Spec"))
  OBVIOUS
<1> DEFINE meta == Place(by, of, "ObjectMeta")
           status == Place(by, of, "Status")
<1>1. /\ meta.by \in Makers /\ meta.field = "ObjectMeta"
      /\ status.by \in Makers /\ status.field = "Status"
  BY DEF Place
<1>2. /\ DOMAIN new = {"ObjectMeta", "Spec", "Status"}
      /\ new.ObjectMeta = [Labels |-> Anew(obj.ObjectMeta.Labels, meta, Plain)]
      /\ new.Spec = DecodedSpec(obj.Spec, Place(by, of, "Spec"))
      /\ new.Status = DecodedStatus(obj.Status, status)
  BY DEF Decoded
<1> HIDE DEF meta, status
<1>3. DOMAIN new.ObjectMeta = {"Labels"} /\ DOMAIN new.Status = {"LoadBalancer", "State", "LastPaths"}
  BY <1>2 DEF DecodedStatus
<1>4. DOMAIN new.Status.LoadBalancer = {"Ingress"}
  BY <1>2 DEF DecodedStatus
<1>5. ASSUME NEW a \in MetaMemory(new.ObjectMeta) PROVE Informers("ObjectMeta", a)
  <2>1. MetaMemory(new.ObjectMeta) = PlainsReach(Anew(obj.ObjectMeta.Labels, meta, Plain))
    BY <1>2 DEF MetaMemory, PlainsReach
  <2>2. Within(meta, PlainsReach(Anew(obj.ObjectMeta.Labels, meta, Plain)))
    BY PlainsWithin
  <2> QED BY <1>1, <1>5, <2>1, <2>2 DEF Within, Informers
<1>6. ASSUME NEW a \in StatusMemory(new.Status) PROVE Informers("Status", a)
  BY <1>1, <1>2, <1>6, StatusWithin DEF Within, Informers
<1>7. LastAt(new.Status.LastPaths)
  <2>1. new.Status.LastPaths = Anew(obj.Status.LastPaths, At(status, "LastPaths"), DecodedLast)
    BY <1>2 DEF DecodedStatus
  <2>2. OfLast(At(status, "LastPaths"))
    BY <1>1, AtPlace DEF OfLast
  <2> QED BY <2>1, <2>2, DecodedLastAt
<1> QED BY <1>2, <1>3, <1>4, <1>5, <1>6, <1>7 DEF Cacheable

\* Installing a configuration takes hosts out of LastPaths, and nothing else.
LEMMA TakenOut ==
    ASSUME NEW obj, Cacheable(obj)
    PROVE  /\ Cacheable(WithoutTaken(obj))
           /\ WithoutTaken(obj) # Nil
           /\ WithoutTaken(obj).Spec = obj.Spec
           /\ WithoutTaken(obj).ObjectMeta = obj.ObjectMeta
           /\ \A a \in WrittenByInstall(obj) : OfLast(a)
<1> SUFFICES ASSUME NEW rest, rest = WithoutTaken(obj)
             PROVE  /\ Cacheable(rest) /\ rest # Nil /\ rest.Spec = obj.Spec /\ rest.ObjectMeta = obj.ObjectMeta
                    /\ \A a \in WrittenByInstall(obj) : OfLast(a)
  OBVIOUS
<1> DEFINE last == obj.Status.LastPaths
<1>0. \A d : DOMAIN d = {"ObjectMeta", "Spec", "Status"} => d # Nil
  BY DEF Nil
<1>1. CASE Taken(obj) = {}
  BY <1>0, <1>1 DEF WithoutTaken, WrittenByInstall, Cacheable
<1>2. CASE Taken(obj) # {}
  <2>1. last # Nil
    <3>1. DOMAIN <<>> = {}
      OBVIOUS
    <3> QED BY <1>2, <3>1 DEF Taken, LastPathsOf, Elements
  <2>2. Elements(last) = last.sub /\ LastPathsOf(obj) = last.sub
    BY <2>1 DEF Elements, LastPathsOf
  <2> DEFINE sub == [h \in DOMAIN last.sub \ Taken(obj) |-> last.sub[h]]
             less == Ref(last.at, sub)
  <2>3. rest = [obj EXCEPT !.Status = [obj.Status EXCEPT !.LastPaths = less]]
    BY <1>2 DEF WithoutTaken
  <2>4. less # Nil /\ less.at = last.at /\ less.sub = sub
    BY RefIsNotNil
  <2>5. DOMAIN sub \subseteq DOMAIN last.sub /\ \A h \in DOMAIN sub : sub[h] = last.sub[h]
    OBVIOUS
  <2> HIDE DEF less, sub
  <2>6. /\ DOMAIN rest = {"ObjectMeta", "Spec", "Status"}
        /\ rest.Spec = obj.Spec /\ rest.ObjectMeta = obj.ObjectMeta
        /\ rest.Status = [obj.Status EXCEPT !.LastPaths = less]
    BY <2>3 DEF Cacheable
  <2>7. /\ DOMAIN rest.Status = {"LoadBalancer", "State", "LastPaths"}
        /\ rest.Status.LoadBalancer = obj.Status.LoadBalancer
        /\ rest.Status.LastPaths = less
    BY <2>6 DEF Cacheable
  <2> HIDE DEF last
  <2>8. LastsReach(less) \subseteq LastsReach(last)
    BY <2>1, <2>4, <2>5, ReachingLasts
  <2>9. StatusMemory(rest.Status) \subseteq StatusMemory(obj.Status)
    BY <2>7, <2>8 DEF StatusMemory, LastsReach, last
  <2>10. LastAt(less)
    <3>1. LastAt(last)
      BY DEF Cacheable, last
    <3> QED BY <2>1, <2>4, <2>5, <3>1 DEF LastAt
  <2>11. Cacheable(rest)
    BY <2>6, <2>7, <2>9, <2>10 DEF Cacheable
  <2>12. ASSUME NEW a \in WrittenByInstall(obj) PROVE OfLast(a)
    <3>1. PICK ref \in ({last} \cup {LastPathsOf(obj)[h] : h \in Taken(obj)}) \ {Nil} : a = ref.at
      BY <1>2 DEF WrittenByInstall, last
    <3>2. ref = last \/ \E h \in DOMAIN last.sub : ref = last.sub[h]
      BY <2>2, <3>1 DEF Taken
    <3>3. LastAt(last)
      BY DEF Cacheable, last
    <3> QED BY <2>1, <3>1, <3>2, <3>3 DEF LastAt
  <2> QED BY <1>0, <2>6, <2>11, <2>12
<1> QED BY <1>1, <1>2

LEMMA PathsOfHostIn ==
    ASSUME NEW spec, GoodSpec(spec), NEW host
    PROVE  \A k \in DOMAIN PathsOfHost(spec, host) : PathsOfHost(spec, host)[k] \in PathsIn(spec)
<1> DEFINE paths == PathsIn(spec)
           ss == [k \in DOMAIN Rules(spec) |-> IF Rules(spec)[k].Host = host THEN PathsOf(Rules(spec)[k]) ELSE <<>>]
<1>1. PICK m \in Nat : DOMAIN Rules(spec) = 1..m
  <2> DEFINE rules == Rules(spec)
  <2>1. rules \in Seq(ToSet(rules))
    BY DEF GoodSpec
  <2> HIDE DEF rules
  <2>2. Len(rules) \in Nat /\ DOMAIN rules = 1..Len(rules)
    BY <2>1
  <2> QED BY <2>2 DEF rules
<1>2. \A k \in 1..m : ss[k] \in Seq(paths)
  <2>1. <<>> \in Seq(paths)
    OBVIOUS
  <2> QED BY <1>1, <2>1 DEF GoodSpec
<1>3. ss = [k \in 1..m |-> ss[k]]
  BY <1>1
<1>4. PathsOfHost(spec, host) = FlattenSeq(ss)
  BY DEF PathsOfHost
<1> HIDE DEF ss, paths
<1>5. ss \in Seq(Seq(paths))
  <2> DEFINE S == Seq(paths)
  <2> HIDE DEF S
  <2>1. ss \in [1..m -> S]
    BY <1>2, <1>3 DEF S
  <2>2. ss \in Seq(S)
    BY <2>1
  <2> QED BY <2>2 DEF S
<1> DEFINE flat == FlattenSeq(ss)
<1>6. flat \in Seq(paths)
  BY <1>5, JoinedIsText
<1> HIDE DEF flat
<1>7. \A k \in DOMAIN flat : flat[k] \in paths
  BY <1>6
<1> QED BY <1>4, <1>7 DEF flat, paths

LEMMA LastPathsMemory ==
    ASSUME NEW spec, GoodSpec(spec), NEW a \in LastsReach(LastPathsFor(spec))
    PROVE  a.by = "last" \/ a \in ParamMemory(spec)
<1> DEFINE at == [by |-> "last"]
           sub == [h \in HostsIn(spec) |-> Ref([by |-> "last", of |-> h], PathsOfHost(spec, h))]
           last == Ref(at, sub)
<1>1. LastPathsFor(spec) = last
  BY DEF LastPathsFor
<1>2. last # Nil /\ last.at = at /\ last.sub = sub /\ at.by = "last"
  BY RefIsNotNil
<1>3. \A h \in HostsIn(spec) : sub[h] = Ref([by |-> "last", of |-> h], PathsOfHost(spec, h))
  OBVIOUS
<1>4. DOMAIN sub = HostsIn(spec)
  OBVIOUS
<1> HIDE DEF at, sub, last
<1>5. CASE a = at
  BY <1>2, <1>5
<1>6. ASSUME NEW h \in HostsIn(spec), a \in LastMemory(sub[h]) PROVE a.by = "last" \/ a \in ParamMemory(spec)
  <2> DEFINE own == [by |-> "last", of |-> h]
             paths == PathsOfHost(spec, h)
             ref == Ref(own, paths)
  <2>1. a \in PathsReach(ref)
    BY <1>3, <1>6 DEF LastMemory, PathsReach
  <2>2. ref # Nil /\ ref.at = own /\ ref.sub = paths /\ own.by = "last"
    BY RefIsNotNil
  <2>3. \A k \in DOMAIN paths : paths[k] \in PathsIn(spec)
    BY PathsOfHostIn
  <2> HIDE DEF own, paths, ref
  <2>4. a = own \/ \E k \in DOMAIN paths : a \in PathMemory(paths[k])
    BY <2>1, <2>2, ReachingPaths
  <2>5. ASSUME NEW k \in DOMAIN paths, a \in PathMemory(paths[k]) PROVE a \in ParamMemory(spec)
    BY <2>3, <2>5 DEF ParamMemory
  <2> QED BY <2>2, <2>4, <2>5
<1> QED BY <1>1, <1>2, <1>4, <1>5, <1>6, ReachingLasts

LEMMA LoadBalancerCopied ==
    ASSUME NEW ref, NEW a \in Reach(Remake(ref, DeepCopyLoadBalancerIngress), NoMemory)
    PROVE  a.by = "copy"
<1> DEFINE sub == [k \in DOMAIN ref.sub |-> DeepCopyLoadBalancerIngress(ref.sub[k])]
           copy == Ref(New(ref.at), sub)
<1>1. ref # Nil
  BY DEF Remake, Reach
<1>2. a \in Reach(copy, NoMemory)
  BY <1>1 DEF Remake
<1>3. copy # Nil /\ copy.at = New(ref.at)
  BY RefIsNotNil
<1> HIDE DEF copy
<1>4. a \in PlainsReach(copy)
  BY <1>2 DEF PlainsReach
<1>5. a = copy.at
  BY <1>3, <1>4, ReachingPlains DEF NoMemory
<1> QED BY <1>3, <1>5 DEF New

LEMMA PodsMemory ==
    ASSUME NEW list, NEW a \in Reach(MatchingPods(list), NoMemory)
    PROVE  a.by = "pods"
<1> DEFINE pods == Ref([by |-> "pods"], list)
<1>1. MatchingPods(list) = Nil \/ MatchingPods(list) = pods
  BY DEF MatchingPods
<1>2. pods # Nil /\ pods.at = [by |-> "pods"]
  BY RefIsNotNil
<1> HIDE DEF pods
<1>3. a \in PlainsReach(pods)
  BY <1>1, ReachingPlains DEF PlainsReach
<1>4. a = pods.at
  BY <1>2, <1>3, ReachingPlains DEF NoMemory
<1> QED BY <1>2, <1>4

LEMMA MetaCopied ==
    ASSUME NEW meta, DOMAIN meta = {"Labels"}, NEW a \in MetaMemory(DeepCopyObjectMeta(meta))
    PROVE  a.by = "copy"
<1>1. MetaMemory(DeepCopyObjectMeta(meta)) = PlainsReach(PlainsCopy(meta.Labels))
  BY DEF MetaMemory, DeepCopyObjectMeta, PlainsReach, PlainsCopy
<1> QED BY <1>1, PlainsShared DEF Shared

\* What the worker sends to the API server.
Own(a, spec) == a.by \in {"copy", "pods", "last"} \/ a \in ParamMemory(spec)

LEMMA UpdateMade ==
    ASSUME NEW obj, Cacheable(obj), GoodSpec(obj.Spec), NEW verdict, NEW pods
    PROVE  LET copy == updateExtendIngressStatus(obj, verdict, pods)
           IN  /\ "Spec" \in DOMAIN copy
               /\ copy.Spec = DeepCopyIngressSpec(obj.Spec)
               /\ \A a \in MetaMemory(copy.ObjectMeta) : a.by = "copy"
               /\ \A a \in StatusMemory(copy.Status) : Own(a, obj.Spec)
<1> SUFFICES ASSUME NEW copy, copy = updateExtendIngressStatus(obj, verdict, pods)
             PROVE  /\ "Spec" \in DOMAIN copy
                    /\ copy.Spec = DeepCopyIngressSpec(obj.Spec)
                    /\ \A a \in MetaMemory(copy.ObjectMeta) : a.by = "copy"
                    /\ \A a \in StatusMemory(copy.Status) : Own(a, obj.Spec)
  OBVIOUS
<1> DEFINE new == DeepCopy(obj)
           lb == IF pods = Nil THEN new.Status.LoadBalancer ELSE [Ingress |-> MatchingPods(pods.list)]
           state == IF verdict = "test failed" THEN "unReady"
                    ELSE IF verdict = "successful" THEN "Ready" ELSE new.Status.State
           status == [LoadBalancer |-> lb, State |-> state, LastPaths |-> LastPathsFor(obj.Spec)]
<1>1. copy = [new EXCEPT !.Status = status]
  BY DEF updateExtendIngressStatus
<1>2. /\ DOMAIN new = {"ObjectMeta", "Spec", "Status"}
      /\ new.ObjectMeta = DeepCopyObjectMeta(obj.ObjectMeta)
      /\ new.Spec = DeepCopyIngressSpec(obj.Spec)
      /\ new.Status = DeepCopyIngressStatus(obj.Status)
  BY DEF DeepCopy, Cacheable
<1>3. status.LoadBalancer = lb /\ status.LastPaths = LastPathsFor(obj.Spec)
  OBVIOUS
<1> HIDE DEF new, status
<1>4. /\ DOMAIN copy = {"ObjectMeta", "Spec", "Status"}
      /\ copy.ObjectMeta = DeepCopyObjectMeta(obj.ObjectMeta)
      /\ copy.Spec = DeepCopyIngressSpec(obj.Spec)
      /\ copy.Status = status
  BY <1>1, <1>2
<1>5. new.Status.LoadBalancer.Ingress = Remake(obj.Status.LoadBalancer.Ingress, DeepCopyLoadBalancerIngress)
  <2>1. new.Status.LoadBalancer = DeepCopyLoadBalancerStatus(obj.Status.LoadBalancer)
    BY <1>2 DEF DeepCopyIngressStatus, Cacheable
  <2> QED BY <2>1 DEF DeepCopyLoadBalancerStatus, Cacheable
<1>6. ASSUME NEW a \in StatusMemory(copy.Status) PROVE Own(a, obj.Spec)
  <2>1. a \in Reach(lb.Ingress, NoMemory) \/ a \in LastsReach(LastPathsFor(obj.Spec))
    BY <1>3, <1>4, <1>6 DEF StatusMemory, LastsReach
  <2>2. lb.Ingress = IF pods = Nil THEN new.Status.LoadBalancer.Ingress ELSE MatchingPods(pods.list)
    OBVIOUS
  <2> HIDE DEF lb
  <2>3. CASE a \in Reach(lb.Ingress, NoMemory)
    BY <1>5, <2>2, <2>3, LoadBalancerCopied, PodsMemory DEF Own
  <2>4. CASE a \in LastsReach(LastPathsFor(obj.Spec))
    BY <2>4, LastPathsMemory DEF Own
  <2> QED BY <2>1, <2>3, <2>4
<1>7. \A a \in MetaMemory(copy.ObjectMeta) : a.by = "copy"
  BY <1>4, MetaCopied DEF Cacheable
<1> QED BY <1>4, <1>6, <1>7

------------------------------------------------------------------------------
(***************************************************************************)
(* The inductive invariant.                                                *)
(***************************************************************************)
Tables == DOMAIN stored = Ids /\ DOMAIN cached = Ids /\ DOMAIN asked = Ids /\ events \in Nat

KeysInv == \A key \in keys : ReadKey(key.text) = key.meant \/ Misreadable(key.meant)

StoredInv == \A id \in Ids : stored[id] # Nil => "Spec" \in DOMAIN stored[id]

\* What an object says was asked for, and was decoded at some event.
FromSpec(id) ==
    \E v \in Specs, by \in Makers, n \in 0..events :
        asked[id] = Content(v) /\ cached[id].Spec = DecodedSpec(v, Place(by, <<n, id>>, "Spec"))

CachedInv == \A id \in Ids : cached[id] # Nil => Cacheable(cached[id]) /\ FromSpec(id)

UpdateInv ==
    update # Nothing =>
        /\ update.id \in Ids /\ cached[update.id] # Nil /\ "Spec" \in DOMAIN update.obj
        /\ update.obj.Spec = DeepCopyIngressSpec(cached[update.id].Spec)
        /\ \A a \in MetaMemory(update.obj.ObjectMeta) : a.by = "copy"
        /\ \A a \in StatusMemory(update.obj.Status) : Own(a, cached[update.id].Spec)

WrittenInv == \A a \in written : a.by = "conf" \/ OfLast(a)

ObjectInv ==
    /\ Tables /\ KeysInv /\ KeysKeepMeaning /\ StoredInv /\ CachedInv /\ UpdateInv /\ WrittenInv /\ HandlersSurvive

LEMMA SpecsAreGood == \A spec \in Specs : GoodSpec(spec)
BY SpecsAssumption DEF GoodSpec

LEMMA CachedGood ==
    ASSUME CachedInv, NEW id \in Ids, cached[id] # Nil
    PROVE  GoodSpec(cached[id].Spec)
<1>1. PICK v \in Specs, by \in Makers, n \in 0..events : cached[id].Spec = DecodedSpec(v, Place(by, <<n, id>>, "Spec"))
  BY DEF CachedInv, FromSpec
<1>2. GoodSpec(v)
  BY SpecsAreGood
<1> QED BY <1>1, <1>2, DecodedGood

LEMMA ObjectInit == Init => ObjectInv
<1> SUFFICES ASSUME Init PROVE ObjectInv
  OBVIOUS
<1>1. Tables
  BY DEF Init, Tables
<1>2. (\A id \in Ids : stored[id] = Nil) /\ (\A id \in Ids : cached[id] = Nil)
  BY DEF Init
<1>3. keys = {} /\ read = Nil /\ update = Nothing /\ written = {} /\ crashed = FALSE
  BY DEF Init
<1> QED BY <1>1, <1>2, <1>3 DEF ObjectInv, KeysInv, KeysKeepMeaning, StoredInv, CachedInv, UpdateInv, WrittenInv, HandlersSurvive

\* An object that stays, or only has its status changed.
LEMMA StillFromSpec ==
    ASSUME Tables, Tables', NEW id \in Ids, cached'[id].Spec = cached[id].Spec, asked'[id] = asked[id], events <= events',
           FromSpec(id)
    PROVE  FromSpec(id)'
<1>1. PICK v \in Specs, by \in Makers, n \in 0..events :
        asked[id] = Content(v) /\ cached[id].Spec = DecodedSpec(v, Place(by, <<n, id>>, "Spec"))
  BY DEF FromSpec
<1>2. n \in 0..events'
  BY DEF Tables
<1> QED BY <1>1, <1>2 DEF FromSpec

LEMMA ApplyStep ==
    ASSUME ObjectInv, NEW id \in Ids, NEW spec \in Specs, Apply(id, spec)
    PROVE  ObjectInv'
<1> DEFINE event == IF stored[id] = Nil THEN "ADD" ELSE "Update"
           obj == IF stored[id] = Nil THEN NewObject(spec) ELSE [stored[id] EXCEPT !.Spec = spec]
           new == Decoded(obj, "event", <<events, id>>)
           key == [text |-> enqueueExtendIngress(event, id, ServersOf(spec)), meant |-> [does |-> "sync", id |-> id]]
<1>1. /\ ~crashed /\ events' = events + 1 /\ read' = Nil
      /\ stored' = [stored EXCEPT ![id] = obj]
      /\ cached' = [cached EXCEPT ![id] = new]
      /\ asked' = [asked EXCEPT ![id] = Content(spec)]
      /\ keys' = keys \cup {key}
      /\ update' = IF update.id = id THEN Nothing ELSE update
      /\ written' = written /\ crashed' = crashed
  BY DEF Apply, Receive, Refuse
<1>2. "Spec" \in DOMAIN obj /\ obj.Spec = spec
  <2>1. stored[id] # Nil => "Spec" \in DOMAIN stored[id]
    BY DEF ObjectInv, StoredInv
  <2> QED BY <2>1 DEF NewObject
<1>3. ReadKey(key.text) = key.meant
  <2>1. event \in {"ADD", "Update"}
    OBVIOUS
  <2> HIDE DEF event
  <2> QED BY <2>1, SyncKey
<1>4. Cacheable(new) /\ new.Spec = DecodedSpec(spec, Place("event", <<events, id>>, "Spec"))
  <2> HIDE DEF obj
  <2> QED BY <1>2, DecodedCacheable DEF Makers
<1> HIDE DEF event, obj, new, key
<1>5. Tables'
  BY <1>1 DEF ObjectInv, Tables
<1>6. KeysInv'
  BY <1>1, <1>3 DEF ObjectInv, KeysInv
<1>7. KeysKeepMeaning' /\ HandlersSurvive' /\ WrittenInv'
  BY <1>1 DEF ObjectInv, KeysKeepMeaning, HandlersSurvive, WrittenInv
<1>8. StoredInv'
  BY <1>1, <1>2 DEF ObjectInv, StoredInv, Tables
<1>9. /\ cached'[id] = new /\ asked'[id] = Content(spec)
      /\ \A jd \in Ids : jd # id => cached'[jd] = cached[jd] /\ asked'[jd] = asked[jd]
  BY <1>1 DEF ObjectInv, Tables
<1>10. CachedInv'
  <2>1. FromSpec(id)'
    <3>1. events \in 0..events'
      BY <1>1 DEF ObjectInv, Tables
    <3>2. "event" \in Makers
      BY DEF Makers
    <3> QED BY <1>4, <1>9, <3>1, <3>2 DEF FromSpec
  <2>2. ASSUME NEW jd \in Ids, jd # id, cached'[jd] # Nil PROVE Cacheable(cached'[jd]) /\ FromSpec(jd)'
    <3>1. Cacheable(cached[jd]) /\ FromSpec(jd)
      BY <1>9, <2>2 DEF ObjectInv, CachedInv
    <3>2. events <= events' /\ Tables
      BY <1>1 DEF ObjectInv, Tables
    <3> QED BY <1>5, <1>9, <2>2, <3>1, <3>2, StillFromSpec
  <2> QED BY <1>4, <1>9, <2>1, <2>2 DEF CachedInv
<1>11. UpdateInv'
  <2> SUFFICES ASSUME update' # Nothing PROVE UpdateInv'
    BY DEF UpdateInv
  <2>1. update' = update /\ update.id # id
    BY <1>1
  <2> QED BY <1>9, <2>1 DEF ObjectInv, UpdateInv
<1> QED BY <1>5, <1>6, <1>7, <1>8, <1>10, <1>11 DEF ObjectInv

LEMMA DeleteStep ==
    ASSUME ObjectInv, NEW id \in Ids, Delete(id)
    PROVE  ObjectInv'
<1> DEFINE spec == cached[id].Spec
           fine == HasHTTP(spec) /\ \A p \in PathsIn(spec) : Sliceable(p.Path)
           meant == [does |-> "delete", servers |-> ServersOf(spec)]
           key == [text |-> enqueueExtendIngress("Del", id, ServersOf(spec)), meant |-> meant]
<1>1. /\ ~crashed /\ events' = events + 1 /\ read' = Nil /\ cached[id] # Nil
      /\ update' = IF update.id = id THEN Nothing ELSE update
      /\ written' = written
  BY DEF Delete, Receive, Refuse
<1>2. fine => /\ keys' = keys \cup {key} /\ crashed' = crashed
              /\ stored' = [stored EXCEPT ![id] = Nil]
              /\ cached' = [cached EXCEPT ![id] = Nil]
              /\ asked' = [asked EXCEPT ![id] = Nil]
  BY DEF Delete
<1>3. ~fine => crashed' = TRUE /\ keys' = keys /\ stored' = stored /\ cached' = cached /\ asked' = asked
  BY DEF Delete
<1>4. GoodSpec(spec)
  BY <1>1, CachedGood DEF ObjectInv
<1>5. fine => ReadKey(key.text) = key.meant \/ Misreadable(key.meant)
  BY <1>4, DeleteKey
<1>6. ~fine => ~HasHTTP(spec) \/ \E p \in PathsIn(spec) : p.Path = <<>>
  BY DEF Sliceable
<1> HIDE DEF fine, meant, key
<1>7. Tables'
  BY <1>1, <1>2, <1>3 DEF ObjectInv, Tables
<1>8. KeysInv'
  BY <1>2, <1>3, <1>5 DEF ObjectInv, KeysInv
<1>9. KeysKeepMeaning' /\ WrittenInv'
  BY <1>1 DEF ObjectInv, KeysKeepMeaning, WrittenInv
<1>10. HandlersSurvive'
  BY <1>1, <1>2, <1>3, <1>6 DEF HandlersSurvive
<1>11. StoredInv'
  BY <1>2, <1>3 DEF ObjectInv, StoredInv, Tables
<1>12. \A jd \in Ids : cached'[jd] = Nil \/ (cached'[jd] = cached[jd] /\ asked'[jd] = asked[jd])
  BY <1>2, <1>3 DEF ObjectInv, Tables
<1>13. CachedInv'
  <2>1. ASSUME NEW jd \in Ids, cached'[jd] # Nil PROVE Cacheable(cached'[jd]) /\ FromSpec(jd)'
    <3>1. Cacheable(cached[jd]) /\ FromSpec(jd)
      BY <1>12, <2>1 DEF ObjectInv, CachedInv
    <3>2. events <= events' /\ Tables
      BY <1>1 DEF ObjectInv, Tables
    <3> QED BY <1>7, <1>12, <2>1, <3>1, <3>2, StillFromSpec
  <2> QED BY <2>1 DEF CachedInv
<1>14. UpdateInv'
  <2> SUFFICES ASSUME update' # Nothing PROVE UpdateInv'
    BY DEF UpdateInv
  <2>1. update' = update /\ update.id # id
    BY <1>1
  <2>2. update.id \in Ids
    BY <2>1 DEF ObjectInv, UpdateInv
  <2>3. cached'[update.id] = cached[update.id]
    BY <1>2, <1>3, <2>1, <2>2 DEF ObjectInv, Tables
  <2> QED BY <2>1, <2>3 DEF ObjectInv, UpdateInv
<1> QED BY <1>7, <1>8, <1>9, <1>10, <1>11, <1>13, <1>14 DEF ObjectInv

\* A step that leaves the objects alone.
LEMMA ObjectsKept ==
    ASSUME ObjectInv, events' = events \/ events' = events + 1, UNCHANGED <<stored, cached, asked, update, written>>
    PROVE  Tables' /\ StoredInv' /\ CachedInv' /\ UpdateInv' /\ WrittenInv'
<1>1. Tables' /\ StoredInv' /\ UpdateInv' /\ WrittenInv'
  BY DEF ObjectInv, Tables, StoredInv, UpdateInv, WrittenInv
<1>2. ASSUME NEW id \in Ids, cached'[id] # Nil PROVE Cacheable(cached'[id]) /\ FromSpec(id)'
  <2>1. Cacheable(cached[id]) /\ FromSpec(id)
    BY <1>2 DEF ObjectInv, CachedInv
  <2>2. events <= events' /\ Tables
    BY DEF ObjectInv, Tables
  <2> QED BY <1>1, <2>1, <2>2, StillFromSpec
<1> QED BY <1>1, <1>2 DEF CachedInv

LEMMA EndpointsStep ==
    ASSUME ObjectInv, NEW event \in Events, NEW ns, NEW svc \in Services, HandleEndpoints(event, ns, svc)
    PROVE  ObjectInv'
<1> DEFINE present == {id \in Ids : id.ns = ns /\ cached[id] # Nil}
           Paths(id) == {p \in PathsIn(cached[id].Spec) : p.Backend.ServiceName = svc}
           Meant(id, p) == [does |-> "endpoints", id |-> id, svc |-> svc, port |-> p.Backend.ServicePort, path |-> p.Path]
           KeyFor(id, p) ==
               [text |-> enqueueEndpoint(event, ProxyPass(id, svc, p.Backend.ServicePort, p.Path)), meant |-> Meant(id, p)]
           fine == \A id \in present : HasHTTP(cached[id].Spec) /\ \A p \in Paths(id) : Sliceable(p.Path)
           new == UNION {{KeyFor(id, p) : p \in Paths(id)} : id \in present}
<1>1. ~crashed /\ events' = events + 1 /\ read' = Nil /\ UNCHANGED <<stored, cached, asked, update, written>>
  BY DEF HandleEndpoints, Receive
<1>2. fine => keys' = keys \cup new /\ crashed' = crashed
  BY DEF HandleEndpoints
<1>3. ~fine => keys' = keys /\ crashed' = TRUE
  BY DEF HandleEndpoints
<1>4. ASSUME fine, NEW key \in new PROVE ReadKey(key.text) = key.meant \/ Misreadable(key.meant)
  <2>1. PICK id \in present : key \in {KeyFor(id, p) : p \in Paths(id)}
    BY <1>4
  <2>2. PICK p \in Paths(id) : key = KeyFor(id, p)
    BY <2>1
  <2>3. id \in Ids /\ p \in PathsIn(cached[id].Spec) /\ Sliceable(p.Path) /\ cached[id] # Nil
    BY <1>4, <2>1, <2>2
  <2>4. PathAssumption(p)
    <3>1. GoodSpec(cached[id].Spec)
      BY <2>3, CachedGood DEF ObjectInv
    <3> QED BY <2>3, <3>1 DEF GoodSpec
  <2> DEFINE meant == Meant(id, p)
             text == enqueueEndpoint(event, ProxyPass(id, svc, p.Backend.ServicePort, p.Path))
  <2>5. key.text = text /\ key.meant = meant
    BY <2>2
  <2>6. meant = [does |-> "endpoints", id |-> id, svc |-> svc, port |-> p.Backend.ServicePort, path |-> p.Path]
    OBVIOUS
  <2> HIDE DEF meant
  <2>7. ~Misreadable(meant) => ReadKey(text) = meant
    BY <2>3, <2>4, <2>6, EndpointKey
  <2> QED BY <2>5, <2>7
<1>5. ~fine => \E id \in Ids : cached[id] # Nil /\
        (~HasHTTP(cached[id].Spec) \/ \E p \in PathsIn(cached[id].Spec) : p.Path = <<>>)
  BY DEF Sliceable
<1> HIDE DEF fine, new
<1>6. Tables' /\ StoredInv' /\ CachedInv' /\ UpdateInv' /\ WrittenInv'
  BY <1>1, ObjectsKept
<1>7. KeysInv'
  BY <1>2, <1>3, <1>4 DEF ObjectInv, KeysInv
<1>8. KeysKeepMeaning' /\ HandlersSurvive'
  BY <1>1, <1>2, <1>3, <1>5 DEF KeysKeepMeaning, HandlersSurvive
<1> QED BY <1>6, <1>7, <1>8 DEF ObjectInv

LEMMA ConfigmapStep ==
    ASSUME ObjectInv, NEW event \in Events, NEW c \in DOMAIN ConfigMap, HandleConfigmap(event, c)
    PROVE  ObjectInv'
<1> DEFINE key == [text |-> handleConfigmapObj(event, c, ConfigMap[c]),
                   meant |-> [does |-> "configmap", conf |-> {c}, id |-> ConfigMap[c]]]
<1>1. ~crashed /\ events' = events + 1 /\ read' = Nil /\ keys' = keys \cup {key}
      /\ UNCHANGED <<stored, cached, asked, update, written, crashed>>
  BY DEF HandleConfigmap, Receive
<1>2. ReadKey(key.text) = key.meant
  BY ConfigmapKey
<1> HIDE DEF key
<1>3. Tables' /\ StoredInv' /\ CachedInv' /\ UpdateInv' /\ WrittenInv'
  BY <1>1, ObjectsKept
<1>4. KeysInv' /\ KeysKeepMeaning' /\ HandlersSurvive'
  BY <1>1, <1>2 DEF ObjectInv, KeysInv, KeysKeepMeaning, HandlersSurvive
<1> QED BY <1>3, <1>4 DEF ObjectInv

LEMMA SyncIngressKeeps ==
    ASSUME ObjectInv, NEW id \in Ids, cached[id] # Nil, NEW verdict, NEW pods, SyncIngress(id, verdict, pods),
           UNCHANGED <<stored, asked, events>>
    PROVE  Tables' /\ StoredInv' /\ CachedInv' /\ UpdateInv' /\ WrittenInv'
<1> DEFINE ingress == cached[id]
           copy == updateExtendIngressStatus(ingress, verdict, pods)
           ready == copy.Status.State = "Ready"
           rest == WithoutTaken(ingress)
<1>1. /\ update' = [id |-> id, obj |-> copy]
      /\ written' = WrittenByParse(ingress.Spec) \cup (IF ready THEN WrittenByInstall(ingress) ELSE {})
      /\ cached' = IF ready THEN [cached EXCEPT ![id] = rest] ELSE cached
  BY DEF SyncIngress
<1>2. Cacheable(ingress) /\ FromSpec(id) /\ GoodSpec(ingress.Spec)
  BY CachedGood DEF ObjectInv, CachedInv
<1>3. /\ Cacheable(rest) /\ rest # Nil /\ rest.Spec = ingress.Spec
      /\ \A a \in WrittenByInstall(ingress) : OfLast(a)
  BY <1>2, TakenOut
<1>4. /\ "Spec" \in DOMAIN copy
      /\ copy.Spec = DeepCopyIngressSpec(ingress.Spec)
      /\ \A a \in MetaMemory(copy.ObjectMeta) : a.by = "copy"
      /\ \A a \in StatusMemory(copy.Status) : Own(a, ingress.Spec)
  <2> HIDE DEF ingress
  <2> QED BY <1>2, UpdateMade
<1> HIDE DEF copy, ready, rest
<1>5. Tables' /\ StoredInv'
  BY <1>1 DEF ObjectInv, Tables, StoredInv
<1>6. /\ cached'[id].Spec = ingress.Spec /\ cached'[id] # Nil /\ Cacheable(cached'[id])
      /\ \A jd \in Ids : jd # id => cached'[jd] = cached[jd]
  BY <1>1, <1>2, <1>3 DEF ObjectInv, Tables
<1>7. CachedInv'
  <2>1. ASSUME NEW jd \in Ids, cached'[jd] # Nil PROVE Cacheable(cached'[jd]) /\ FromSpec(jd)'
    <3>1. Cacheable(cached'[jd]) /\ FromSpec(jd) /\ cached'[jd].Spec = cached[jd].Spec
      BY <1>2, <1>6, <2>1 DEF ObjectInv, CachedInv
    <3>2. events <= events' /\ Tables
      BY DEF ObjectInv, Tables
    <3> QED BY <1>5, <3>1, <3>2, StillFromSpec
  <2> QED BY <2>1 DEF CachedInv
<1>8. UpdateInv'
  <2>1. update'.id = id /\ update'.obj = copy
    BY <1>1
  <2> QED BY <1>4, <1>6, <2>1 DEF UpdateInv
<1>9. WrittenInv'
  <2>1. ASSUME NEW a \in WrittenByParse(ingress.Spec) PROVE a.by = "conf"
    BY <2>1 DEF WrittenByParse, LocationConf
  <2> QED BY <1>1, <1>3, <2>1 DEF WrittenInv
<1> QED BY <1>5, <1>7, <1>8, <1>9

LEMMA SyncStep ==
    ASSUME ObjectInv, NEW key \in keys, Sync(key)
    PROVE  ObjectInv'
<1> DEFINE task == ReadKey(key.text)
           found == task.does = "sync" /\ task.id \in Ids /\ cached[task.id] # Nil
           spec == cached[task.id].Spec
<1>1. /\ ~crashed /\ keys' = keys \ {key} /\ read' = [meant |-> key.meant, task |-> task]
      /\ UNCHANGED <<stored, asked, crashed, events>>
  BY DEF Sync
<1>2. \/ found /\ \E verdict \in {"successful", "test failed", "neither"}, pods \in Pods : SyncIngress(task.id, verdict, pods)
      \/ UNCHANGED <<cached, update, written>>
  BY DEF Sync
<1>3. ReadKey(key.text) = key.meant \/ Misreadable(key.meant)
  BY DEF ObjectInv, KeysInv
<1> HIDE DEF task
<1>4. Tables' /\ StoredInv' /\ CachedInv' /\ UpdateInv' /\ WrittenInv'
  <2>1. CASE UNCHANGED <<cached, update, written>>
    BY <1>1, <2>1, ObjectsKept
  <2>2. CASE found /\ \E verdict \in {"successful", "test failed", "neither"}, pods \in Pods : SyncIngress(task.id, verdict, pods)
    <3>1. PICK verdict, pods : SyncIngress(task.id, verdict, pods)
      BY <2>2
    <3> QED BY <1>1, <2>2, <3>1, SyncIngressKeeps
  <2> QED BY <1>2, <2>1, <2>2
<1>5. KeysInv' /\ HandlersSurvive'
  BY <1>1 DEF ObjectInv, KeysInv, HandlersSurvive
<1>6. KeysKeepMeaning'
  <2>1. read'.task = task /\ read'.meant = key.meant
    BY <1>1
  <2> QED BY <1>3, <2>1 DEF KeysKeepMeaning, task
<1> QED BY <1>4, <1>5, <1>6 DEF ObjectInv

LEMMA StoreStep ==
    ASSUME ObjectInv, StoreUpdate
    PROVE  ObjectInv'
<1>0. PICK id \in Ids : id = update.id
  BY DEF StoreUpdate, ObjectInv, UpdateInv
<1> DEFINE new == Decoded(update.obj, "stored", <<events, id>>)
<1>1. /\ ~crashed /\ update # Nothing
      /\ stored' = [stored EXCEPT ![id] = update.obj]
      /\ cached' = [cached EXCEPT ![id] = new]
      /\ update' = Nothing /\ written' = {} /\ read' = Nil
      /\ UNCHANGED <<asked, keys, crashed, events>>
  BY <1>0 DEF StoreUpdate
<1>2. /\ id \in Ids /\ cached[id] # Nil /\ "Spec" \in DOMAIN update.obj
      /\ update.obj.Spec = DeepCopyIngressSpec(cached[id].Spec)
  BY <1>0, <1>1 DEF ObjectInv, UpdateInv
<1>3. PICK v \in Specs, by \in Makers, n \in 0..events :
        asked[id] = Content(v) /\ cached[id].Spec = DecodedSpec(v, Place(by, <<n, id>>, "Spec"))
  BY <1>2 DEF ObjectInv, CachedInv, FromSpec
<1>4. Cacheable(new) /\ new.Spec = DecodedSpec(update.obj.Spec, Place("stored", <<events, id>>, "Spec"))
  BY DecodedCacheable DEF Makers
<1>5. new.Spec = DecodedSpec(v, Place("stored", <<events, id>>, "Spec"))
  BY <1>2, <1>3, <1>4, SpecCopied
<1> HIDE DEF new
<1>6. Tables'
  BY <1>1 DEF ObjectInv, Tables
<1>7. StoredInv'
  BY <1>1, <1>2 DEF ObjectInv, StoredInv, Tables
<1>8. cached'[id] = new /\ \A jd \in Ids : jd # id => cached'[jd] = cached[jd]
  BY <1>1, <1>2 DEF ObjectInv, Tables
<1>9. CachedInv'
  <2>1. FromSpec(id)'
    <3>1. events' = events /\ asked' = asked /\ events \in 0..events /\ "stored" \in Makers
      BY <1>1 DEF ObjectInv, Tables, Makers
    <3>2. asked'[id] = Content(v) /\ cached'[id].Spec = DecodedSpec(v, Place("stored", <<events, id>>, "Spec"))
      BY <1>3, <1>5, <1>8, <3>1
    <3> QED BY <3>1, <3>2 DEF FromSpec
  <2>2. ASSUME NEW jd \in Ids, jd # id, cached'[jd] # Nil PROVE Cacheable(cached'[jd]) /\ FromSpec(jd)'
    <3>1. Cacheable(cached[jd]) /\ FromSpec(jd)
      BY <1>8, <2>2 DEF ObjectInv, CachedInv
    <3>2. events <= events' /\ Tables
      BY <1>1 DEF ObjectInv, Tables
    <3> QED BY <1>1, <1>6, <1>8, <2>2, <3>1, <3>2, StillFromSpec
  <2> QED BY <1>4, <1>8, <2>1, <2>2 DEF CachedInv
<1>10. KeysInv' /\ KeysKeepMeaning' /\ UpdateInv' /\ WrittenInv' /\ HandlersSurvive'
  BY <1>1 DEF ObjectInv, KeysInv, KeysKeepMeaning, UpdateInv, WrittenInv, HandlersSurvive
<1> QED BY <1>6, <1>7, <1>9, <1>10 DEF ObjectInv

LEMMA ObjectNext == ObjectInv /\ [Next]_vars => ObjectInv'
<1> SUFFICES ASSUME ObjectInv, [Next]_vars PROVE ObjectInv'
  OBVIOUS
<1>1. ASSUME NEW id \in Ids, Delete(id) PROVE ObjectInv'
  BY <1>1, DeleteStep
<1>2. ASSUME NEW id \in Ids, NEW spec \in Specs, Apply(id, spec) PROVE ObjectInv'
  BY <1>2, ApplyStep
<1>3. ASSUME NEW event \in Events, NEW id \in Ids, NEW svc \in Services, HandleEndpoints(event, id.ns, svc) PROVE ObjectInv'
  BY <1>3, EndpointsStep
<1>4. ASSUME NEW event \in Events, NEW c \in DOMAIN ConfigMap, HandleConfigmap(event, c) PROVE ObjectInv'
  BY <1>4, ConfigmapStep
<1>5. ASSUME NEW key \in keys, Sync(key) PROVE ObjectInv'
  BY <1>5, SyncStep
<1>6. ASSUME StoreUpdate PROVE ObjectInv'
  BY <1>6, StoreStep
<1>7. ASSUME UNCHANGED vars PROVE ObjectInv'
  <2>1. Tables' /\ StoredInv' /\ CachedInv' /\ UpdateInv' /\ WrittenInv'
    BY <1>7, ObjectsKept DEF vars
  <2>2. KeysInv' /\ KeysKeepMeaning' /\ HandlersSurvive'
    BY <1>7 DEF vars, ObjectInv, KeysInv, KeysKeepMeaning, HandlersSurvive
  <2> QED BY <2>1, <2>2 DEF ObjectInv
<1> QED BY <1>1, <1>2, <1>3, <1>4, <1>5, <1>6, <1>7 DEF Next

LEMMA ObjectInvHolds == Spec => []ObjectInv
<1> QED BY ObjectInit, ObjectNext, PTL DEF Spec

------------------------------------------------------------------------------
(***************************************************************************)
(* What follows from the invariant.                                        *)
(***************************************************************************)
\* Where the memory of a cached object comes from.
LEMMA CachedMemory ==
    ASSUME CachedInv, NEW id \in Ids, cached[id] # Nil
    PROVE  /\ \A a \in SpecMemory(cached[id].Spec) : Informers("Spec", a)
           /\ \A a \in MetaMemory(cached[id].ObjectMeta) : Informers("ObjectMeta", a)
           /\ \A a \in StatusMemory(cached[id].Status) : Informers("Status", a)
           /\ \A a \in ParamMaps(cached[id].Spec) : a.by \in Makers
           /\ Shared(SpecMemory(DeepCopyIngressSpec(cached[id].Spec)), ParamMemory(cached[id].Spec))
<1>1. PICK v \in Specs, by \in Makers, n \in 0..events : cached[id].Spec = DecodedSpec(v, Place(by, <<n, id>>, "Spec"))
  BY DEF CachedInv, FromSpec
<1>2. Pointers(v)
  BY SpecsAreGood DEF GoodSpec, Pointers
<1> DEFINE p == Place(by, <<n, id>>, "Spec")
<1>3. p.by = by /\ p.field = "Spec"
  BY DEF Place
<1>4. cached[id].Spec = DecodedSpec(v, p)
  BY <1>1
<1> HIDE DEF p
<1>5. \A a \in SpecMemory(cached[id].Spec) : Informers("Spec", a)
  BY <1>3, <1>4, SpecWithin DEF Within, Informers
<1>6. \A a \in ParamMaps(cached[id].Spec) : a.by \in Makers
  BY <1>2, <1>3, <1>4, ParamMapsOf
<1>7. Shared(SpecMemory(DeepCopyIngressSpec(cached[id].Spec)), ParamMemory(cached[id].Spec))
  BY <1>2, <1>4, SpecShared
<1> QED BY <1>5, <1>6, <1>7 DEF CachedInv, Cacheable

LEMMA InvCacheIsRead == ObjectInv => CacheIsRead
<1> SUFFICES ASSUME ObjectInv, NEW id \in Ids, cached[id] # Nil, NEW a \in written
             PROVE  a \notin SpecMemory(cached[id].Spec) /\ a \notin MetaMemory(cached[id].ObjectMeta)
  BY DEF CacheIsRead
<1>1. a.by = "conf" \/ OfLast(a)
  BY DEF ObjectInv, WrittenInv
<1>2. /\ a \in SpecMemory(cached[id].Spec) => Informers("Spec", a)
      /\ a \in MetaMemory(cached[id].ObjectMeta) => Informers("ObjectMeta", a)
  BY CachedMemory DEF ObjectInv
<1> QED BY <1>1, <1>2 DEF OfLast, Informers, Makers

LEMMA InvCopyIsOwn == ObjectInv => CopyIsOwn
<1> SUFFICES ASSUME ObjectInv, update # Nothing, NEW id, id = update.id, cached[id] # Nil,
                    NEW a, a \in Memory(cached[id])
             PROVE  /\ a \in StatusMemory(update.obj.Status) => a \in ParamMemory(cached[id].Spec)
                    /\ a \in SpecMemory(update.obj.Spec) =>
                            a \in ParamMemory(cached[id].Spec) /\ a \notin ParamMaps(cached[id].Spec)
                    /\ a \notin MetaMemory(update.obj.ObjectMeta)
  BY DEF CopyIsOwn
<1>1. /\ id \in Ids /\ update.obj.Spec = DeepCopyIngressSpec(cached[id].Spec)
      /\ \A b \in MetaMemory(update.obj.ObjectMeta) : b.by = "copy"
      /\ \A b \in StatusMemory(update.obj.Status) : Own(b, cached[id].Spec)
  BY DEF ObjectInv, UpdateInv
<1>2. /\ \A b \in SpecMemory(cached[id].Spec) : Informers("Spec", b)
      /\ \A b \in MetaMemory(cached[id].ObjectMeta) : Informers("ObjectMeta", b)
      /\ \A b \in StatusMemory(cached[id].Status) : Informers("Status", b)
      /\ \A b \in ParamMaps(cached[id].Spec) : b.by \in Makers
      /\ Shared(SpecMemory(DeepCopyIngressSpec(cached[id].Spec)), ParamMemory(cached[id].Spec))
  BY <1>1, CachedMemory DEF ObjectInv
<1>3. a.by = "value" \/ a.by \in Makers
  BY <1>2 DEF Memory, Informers
<1>4. a.by \notin {"copy", "pods", "last"}
  BY <1>3 DEF Makers
<1>5. a \in StatusMemory(update.obj.Status) => a \in ParamMemory(cached[id].Spec)
  BY <1>1, <1>4 DEF Own
<1>6. a \in SpecMemory(update.obj.Spec) => a.by = "value" /\ a \in ParamMemory(cached[id].Spec)
  BY <1>1, <1>2, <1>4 DEF Shared
<1>7. a.by = "value" => a \notin ParamMaps(cached[id].Spec)
  BY <1>2 DEF Makers
<1> QED BY <1>1, <1>4, <1>5, <1>6, <1>7

LEMMA InvSpecSurvives == ObjectInv => SpecSurvives
<1> SUFFICES ASSUME ObjectInv, NEW id \in Ids, cached[id] # Nil PROVE Content(cached[id].Spec) = asked[id]
  BY DEF SpecSurvives
<1>1. PICK v \in Specs, by \in Makers, n \in 0..events :
        asked[id] = Content(v) /\ cached[id].Spec = DecodedSpec(v, Place(by, <<n, id>>, "Spec"))
  BY DEF ObjectInv, CachedInv, FromSpec
<1> QED BY <1>1, SpecAgain DEF Content

LEMMA LocationIn ==
    ASSUME ObjectInv, NEW l \in Locations, Absolute(l[4]), ~Has(l[2], {"_"}), ~Has(l[3], {"_"})
    PROVE  \E id, svc, port, path : id \in Ids /\
            l = <<id, svc, port, path>> /\ IsLocation(Tokens \ {"_"}, Tokens \cup {"_", "/"}, id, svc, port, path)
<1>1. PICK id \in Ids : cached[id] # Nil /\
        l \in {<<id, p.Backend.ServiceName, p.Backend.ServicePort, p.Path>> : p \in PathsIn(cached[id].Spec)}
  BY DEF Locations
<1>2. PICK p \in PathsIn(cached[id].Spec) : l = <<id, p.Backend.ServiceName, p.Backend.ServicePort, p.Path>>
  BY <1>1
<1>3. PathAssumption(p)
  <2>1. GoodSpec(cached[id].Spec)
    BY <1>1, CachedGood DEF ObjectInv
  <2> QED BY <2>1 DEF GoodSpec
<1> DEFINE svc == p.Backend.ServiceName
           port == p.Backend.ServicePort
           path == p.Path
           W == Tokens \ {"_"}
<1>4. l[2] = svc /\ l[3] = port /\ l[4] = path
  BY <1>2
<1>5. svc \in Seq(Tokens) /\ port \in Seq(Tokens) /\ path \in Seq(Tokens) /\ path # <<>> /\ Head(path) = "/"
  BY <1>3, <1>4 DEF PathAssumption, Absolute
<1> HIDE DEF svc, port, path
<1>9. svc \in Seq(W) /\ port \in Seq(W)
  BY <1>4, <1>5, Narrow DEF Has
<1>6. svc \in Seq(W) /\ port \in Seq(W) /\ id.ns \in Seq(W) /\ id.name \in Seq(W)
  <2>1. Words \subseteq W
    BY DEF Words
  <2> HIDE DEF W
  <2>2. \A text \in Seq(Words) : text \in Seq(W)
    BY <2>1, SeqMonotonic
  <2> QED BY <1>9, <2>2, IdWords
<1> HIDE DEF W
<1> DEFINE T == Tokens \cup {"_", "/"}
<1>7. \E tail \in Seq(T) : Slashed(path, tail)
  <2>1. Slashed(path, Tail(path)) /\ Tail(path) \in Seq(Tokens)
    BY <1>5, Behead
  <2> DEFINE tail == Tail(path)
  <2> HIDE DEF tail
  <2>2. tail \in Seq(Tokens) /\ Slashed(path, tail)
    BY <2>1 DEF tail
  <2>3. Tokens \subseteq T
    OBVIOUS
  <2> HIDE DEF T
  <2>4. tail \in Seq(T)
    BY <2>2, <2>3, SeqMonotonic
  <2> QED BY <2>2, <2>4
<1> HIDE DEF T
<1>8. IsLocation(W, T, id, svc, port, path)
  BY <1>6, <1>7 DEF IsLocation
<1> QED BY <1>2, <1>8 DEF T, W, svc, port, path

LEMMA InvOwnUpstreams == ObjectInv => OwnUpstreams
<1> SUFFICES ASSUME ObjectInv, NEW l \in Locations, Absolute(l[4]), ~Has(l[2], {"_"}), ~Has(l[3], {"_"}),
                    NEW m \in Locations, Absolute(m[4]), ~Has(m[2], {"_"}), ~Has(m[3], {"_"}),
                    ProxyPass(l[1], l[2], l[3], l[4]) = ProxyPass(m[1], m[2], m[3], m[4])
             PROVE  l = m
  BY DEF OwnUpstreams
<1> DEFINE T == Tokens \cup {"_", "/"}
           W == Tokens \ {"_"}
<1>1. PICK id, svc, port, path :
        id \in Ids /\ l = <<id, svc, port, path>> /\ IsLocation(W, T, id, svc, port, path)
  BY LocationIn
<1>2. PICK jd, tvc, qort, qath :
        jd \in Ids /\ m = <<jd, tvc, qort, qath>> /\ IsLocation(W, T, jd, tvc, qort, qath)
  BY LocationIn
<1>3. "_" \notin W /\ W \cup {"_", "/"} \subseteq T
  OBVIOUS
<1> HIDE DEF T, W
<1>4. ProxyPass(id, svc, port, path) = ProxyPass(jd, tvc, qort, qath)
  BY <1>1, <1>2
<1>5. SameLocation(id, svc, port, path, jd, tvc, qort, qath)
  BY <1>1, <1>2, <1>3, <1>4, OneProxyPass
<1>7. id = [ns |-> id.ns, name |-> id.name] /\ jd = [ns |-> jd.ns, name |-> jd.name]
  BY <1>1, <1>2, IdWords
<1>6. id = jd /\ svc = tvc /\ port = qort /\ path = qath
  BY <1>5, <1>7 DEF SameLocation
<1> QED BY <1>1, <1>2, <1>6

\* The worker takes every key for what its handler meant, for all names, hosts
\* and paths, but for the two kinds named in Misreadable (syncHandler).
THEOREM KeysAreUnderstood == Spec => []KeysKeepMeaning
<1>1. ObjectInv => KeysKeepMeaning
  BY DEF ObjectInv
<1> QED BY <1>1, ObjectInvHolds, PTL

\* Nothing but a rule without HTTP or an empty path panics in a handler
\* (enqueueExtendIngress, handleEndpointObj).
THEOREM HandlersPanicOnOmissions == Spec => []HandlersSurvive
<1>1. ObjectInv => HandlersSurvive
  BY DEF ObjectInv
<1> QED BY <1>1, ObjectInvHolds, PTL

\* Names of upstreams (getProxyPass) are different for different locations.
THEOREM UpstreamsAreOwn == Spec => []OwnUpstreams
<1> QED BY InvOwnUpstreams, ObjectInvHolds, PTL

\* The worker writes to LastPaths of a cached object, and to nothing else of it.
THEOREM CacheStaysAsItWas == Spec => []CacheIsRead
<1> QED BY InvCacheIsRead, ObjectInvHolds, PTL

\* What DeepCopy and updateExtendIngressStatus share with the cache is inside
\* the parameters of paths.
THEOREM CopiesAreOwn == Spec => []CopyIsOwn
<1> QED BY InvCopyIsOwn, ObjectInvHolds, PTL

\* The status write, which writes the whole object, never loses or changes the
\* specification: deep copy, encoding and decoding give back what they were given.
THEOREM SpecsSurvive == Spec => []SpecSurvives
<1> QED BY InvSpecSurvives, ObjectInvHolds, PTL
==============================================================================
