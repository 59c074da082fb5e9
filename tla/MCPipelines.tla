---------------------------- MODULE MCPipelines ----------------------------
(* Small instances of Pipelines for TLC. *)
EXTENDS Pipelines, TLC

S(p, w, s) == [policy |-> p, when |-> w, schema |-> s, urls |-> 0, broken |-> FALSE]
Proxy(n) == [S("proxy", "always", None) EXCEPT !.urls = n]
R(n, h) == [name |-> n, host |-> h]
P(ns, steps) == [serves |-> ns, steps |-> steps]

\* Schemas: l needs no fetching, m is another with the same $id, f has to be fetched.
IdTable == "l" :> "l" @@ "m" :> "l" @@ "f" :> "f"

Names == {"sequential", "late", "changed", "refused"}

\* sequential: a pipeline that ends in a proxy, behind two hosts; a second endpoint of
\* the first host, mentioned later, is served by two pipelines, of which the last wins.
\* late: policies with a fetched and a local schema come first.  changed: the schema
\* has changed and kept its $id.  refused: the parameters of a later policy are bad.
RouteTable ==
    "sequential" :> <<R("api", "a"), R("api", "b"), R("old", "a")>>
    @@ "late" :> <<R("api", "a"), R("none", "a")>>
    @@ "changed" :> <<R("api", "a")>>
    @@ "refused" :> <<R("api", "a")>>

PipeTable ==
    "sequential" :>
        <<P({"api", "old"}, <<S("auth", "always", None), S("auth", "test", None), Proxy(2)>>),
          P({"old"}, <<S("log", "nested", "l")>>)>>
    @@ "late" :>
        <<P({"api"}, <<S("check", "schema", "f"), S("shape", "schema", "l"), S("auth", "always", None)>>)>>
    @@ "changed" :>
        <<P({"api"}, <<S("shape", "schema", "m"), S("auth", "always", None)>>)>>
    @@ "refused" :>
        <<P({"api"}, <<S("check", "schema", "f"), [S("auth", "always", None) EXCEPT !.broken = TRUE]>>)>>

\* TLC evaluates a definition once, but what a constant stands for at every use.
MCConfig == Names
MCRoutes == RouteTable
MCPipes == PipeTable
MCIdOf == IdTable

Symm == Permutations(Req)
=============================================================================
