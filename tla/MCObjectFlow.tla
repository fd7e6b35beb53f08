---------------------------- MODULE MCObjectFlow ----------------------------
(* Names with dashes, hosts and paths with every separator, fields that are *)
(* left out, parameters that contain further maps.                          *)
EXTENDS ObjectFlow

AllTokens == {"n", "i", "j", "s", "t", "80", "8", "0", "common", "cm", "h", "d", "a", "b", "-", "/", "_", "ExtendIngress"}

Dash == <<"s", "-", "t">>
Name(words) == [ns |-> <<"n">>, name |-> words]
TwoIds == {Name(<<"i">>), Name(<<"i", "-", "j">>)}
OneService == {Dash}
ConfigMapIds == [c \in {"common"} |-> [ns |-> <<"n">>, name |-> <<c, "-", "cm">>]]
OnePod == {[list |-> <<"ip">>]}

\* What a user gives has no address yet.
Given(sub) == Ref(Nil, sub)
Value(says) == [says |-> says, memory |-> {}]
Map(says) == [says |-> says, memory |-> {Nil}]
Params(more) == Given([cors |-> Value("true")] @@ more)
PathTo(port, path, svc, loc, up) ==
    [Path |-> path, Backend |-> [ServiceName |-> svc, ServicePort |-> port],
     LocationParam |-> loc, UpstreamParam |-> up]
Path(path, svc, loc, up) == PathTo(<<"80">>, path, svc, loc, up)
Rule(host, paths) == [Host |-> host, HTTP |-> Given([to |-> [Paths |-> Given(paths)]])]
NoHTTP(host) == [Host |-> host, HTTP |-> Nil]
SpecOf(tls, rules) == [Backend |-> Given([to |-> "default"]), TLS |-> tls, Rules |-> Given(rules)]
OneTLS == Given(<<[Hosts |-> Given(<<"h">>), SecretName |-> "x"]>>)

\* Two rules for one host, a root path, and parameters inside parameters.
Nested ==
    SpecOf(OneTLS, <<
        Rule(<<"h">>, <<Path(<<"/">>, Dash, Params([proxy |-> Map("a")]), Nil),
                        Path(<<"/", "a">>, <<"s">>, Nil, Params(<<>>))>>),
        Rule(<<"h">>, <<Path(<<"/", "a">>, Dash, Nil, Nil)>>)>>)
\* A host with a dash, paths with words that mean something in a key, a path
\* without its slash and a port with a separator.
Dashed ==
    SpecOf(Nil, <<
        Rule(<<"h", "-", "d">>, <<Path(<<"/", "a", "-", "b">>, <<"s">>, Nil, Nil)>>),
        Rule(<<"h">>, <<Path(<<"/", "a", "/", "b">>, <<"s">>, Nil, Nil),
                        Path(<<"/", "a", "_", "b">>, Dash, Nil, Nil),
                        Path(<<"a", "b">>, <<"s">>, Nil, Nil),
                        PathTo(<<"8", "_", "0">>, <<"/", "ExtendIngress">>, Dash, Nil, Nil)>>)>>)
\* What may be left out.
Unspecified ==
    SpecOf(Nil, <<Rule(<<"h">>, <<Path(<<>>, Dash, Nil, Nil)>>), Rule(<<"h">>, <<>>), NoHTTP(<<"h">>)>>)

ManySpecs == {Nested, Dashed, Unspecified}
==============================================================================
