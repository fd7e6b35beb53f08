---------------------------- MODULE MCController ----------------------------
(* Small instances of the controller: what users may write in a run.        *)
EXTENDS Controller

Path(q, s) == [path |-> q, svc |-> s, lpar |-> "none", upar |-> "none"]
Rule(h, paths) == [host |-> h, paths |-> paths]

\* One host; the second specification adds a path.
OnePath == <<Rule("h1", <<Path("/", "s1")>>)>>
TwoPaths == <<Rule("h1", <<Path("/", "s1"), Path("/x", "s1")>>)>>
\* Another path with a parameter that nginx does not know: once it was refused,
\* LastPaths do not have the path that is installed.  And another host.
BadPath == <<Rule("h1", <<[Path("/x", "s1") EXCEPT !.lpar = "bad", !.upar = "bad"]>>)>>
OtherHost == <<Rule("h2", <<Path("/", "s1")>>)>>

OneSpec == [i \in Ings |-> {OnePath}]
GrowingSpecs == [i \in Ings |-> {OnePath, TwoPaths}]
BadSpecs == [i \in Ings |-> {OnePath, BadPath}]
\* Every ingress has a host of its own.
OwnHostSpecs == [i \in Ings |-> IF i = "i1" THEN {OnePath} ELSE {OtherHost}]

ApiOf(ingress, endpoints, configmap) ==
    [o \in Objects |-> IF o \in Ings THEN ingress
                       ELSE IF o \in Services THEN endpoints ELSE configmap]

\* An ingress nobody has looked at, or none yet.
FreshApis == {ApiOf(ingress, {"a1"}, NoObject) : ingress \in {NewIngress(OnePath, 0), NoObject}}
\* Ingresses that were never looked at, one specification for each.
FirstSpec == [i \in Ings |-> IF i = "i1" THEN OnePath ELSE CHOOSE spec \in Specs[i] : TRUE]
EachApis ==
    {[o \in Objects |-> IF o \in Ings THEN NewIngress(FirstSpec[o], 0)
                        ELSE IF o \in Services THEN {"a1"} ELSE NoObject]}
==============================================================================
