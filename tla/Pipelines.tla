----------------------------- MODULE Pipelines -----------------------------
(***************************************************************************)
(* How the gateway builds its routing and takes requests through it:       *)
(* gateway/pipelines.js, the conditions (conditions/index.js,              *)
(* predefined.js, json-schema.js), the schemas they compile                *)
(* (schemas/index.js), and the proxy policy with its balancer.             *)
(*                                                                         *)
(* A bootstrap makes a generation: routes, and a router per pipeline.  The *)
(* policies of a pipeline are mounted by promises that nobody waits for:   *)
(* those without a json-schema condition at once, those whose schemas need *)
(* no fetching right after them, the others when the last of their schemas *)
(* has been fetched.  A request stays in the generation in which it        *)
(* arrived and looks for its next layer when it needs it.                  *)
(***************************************************************************)
EXTENDS Naturals, Sequences

CONSTANTS
    Config,     \* the configurations the gateway may be given
    Routes, Pipes,      \* Routes[c], Pipes[c]: its API endpoints and its pipelines
    Policy,     \* the entries of the policy lists of pipelines
    Name, Host, \* names of API endpoints, and hosts
    Schema,     \* the schemas of json-schema conditions
    Remote,     \* those that refer to a schema that has to be fetched
    IdOf,       \* the $id of a schema
    Req,        \* requests
    None,
    MaxGens, MaxPipelines, MaxSteps, MaxUrls    \* bounds of an instance

Gen == 1..MaxGens
Slot == Gen \X (1..MaxPipelines) \X (1..MaxSteps)
Url == 0..(MaxUrls - 1)

\* Conditions: none or always; a predicate of the request, or a combination of such;
\* a combination that contains a json-schema condition; a json-schema condition.
When == {"always", "test", "nested", "schema"}

\* A step of a policy: its condition, how many urls it balances (0: none), and
\* whether its parameters are refused.
Step == [policy : Policy, when : When,
         schema : Schema \cup {None}, urls : 0..MaxUrls, broken : BOOLEAN]
Route == [name : Name, host : Host]
Pipeline == [serves : SUBSET Name, steps : Seq(Step)]

Steps(c, k) == DOMAIN Pipes[c][k].steps
StepAt(c, k, i) == Pipes[c][k].steps[i]

ASSUME PipelinesAssumption ==
    /\ {MaxGens, MaxPipelines, MaxSteps, MaxUrls} \subseteq Nat \ {0}
    /\ Remote \subseteq Schema /\ None \notin Schema \cup Config
    /\ \A c \in Config :
         /\ Routes[c] \in Seq(Route) /\ Pipes[c] \in Seq(Pipeline)
         /\ DOMAIN Pipes[c] \subseteq 1..MaxPipelines
         /\ \A k \in DOMAIN Pipes[c] :
              /\ Steps(c, k) \subseteq 1..MaxSteps
              /\ \A i \in Steps(c, k) :
                   StepAt(c, k, i).when \in {"nested", "schema"} <=> StepAt(c, k, i).schema # None

VARIABLES
    up,         \* the process runs
    current,    \* the generation of rootRouter
    config,     \* config[g]: what generation g was built from
    rank,       \* rank[<<g, k, i>>]: when the layer was mounted, 0 if it was not
    clock,      \* the last of these times
    added,      \* the schemas that ajv has been given
    known,      \* those it has compiled
    turn,       \* turn[<<g, k, i>>]: endpointIndex of the step's balancer
    sent,       \* history: how often each of its urls was the target
    request     \* request[r]

build == <<up, current, config, rank, clock, added, known>>
balance == <<turn, sent>>
vars == <<build, balance, request>>

\* A request, the configuration it found (history), the routes it matches and has
\* tried, where it is in the pipeline of a route, what it met there, and whether
\* every policy was mounted when it came in (history).
Request == [at : {"idle", "routing", "inside", "acting", "done"}, gen : Gen,
            born : Config \cup {None}, matches : SUBSET Nat, tried : SUBSET Nat,
            route : Nat, pipe : 0..MaxPipelines, pos : 0..MaxSteps,
            met : SUBSET (Config \X (1..MaxPipelines) \X (1..MaxSteps)), whole : BOOLEAN]

Idle == [at |-> "idle", gen |-> 1, born |-> None, matches |-> {}, tried |-> {},
         route |-> 0, pipe |-> 0, pos |-> 0, met |-> {}, whole |-> FALSE]
Done == [Idle EXCEPT !.at = "done"]

-----------------------------------------------------------------------------
(* Building a generation.                                                   *)

\* The step, if any, at which the bootstrap throws: POLICY_PARAMS_VALIDATION_FAILED,
\* or a service endpoint that does not exist.
Throws(c) == \E k \in DOMAIN Pipes[c] : \E i \in Steps(c, k) : StepAt(c, k, i).broken

\* The schemas that it has registered by then.
Asked(c) ==
    {StepAt(c, ki[1], ki[2]).schema :
        ki \in {p \in (1..MaxPipelines) \X (1..MaxSteps) :
                  /\ p[1] \in DOMAIN Pipes[c] /\ p[2] \in Steps(c, p[1])
                  /\ StepAt(c, p[1], p[2]).schema # None
                  /\ \A k \in 1..p[1] : \A i \in Steps(c, k) :
                       StepAt(c, k, i).broken => k = p[1] /\ i >= p[2]}}

\* Mutant: a schema replaces another of its $id, as conditions and policies do.
Clash_Replace(a, s) == FALSE

\* ajv refuses a second schema of one $id.
Clash(a, s) == \E x \in s : \E y \in a \cup s : x # y /\ IdOf[x] = IdOf[y]

\* The schemas that have to be compiled before the policy of step i is mounted.  A
\* condition that contains others is a function, and mounted as if it did not.
Needs(c, k, i) ==
    {StepAt(c, k, j).schema :
        j \in {h \in Steps(c, k) : /\ StepAt(c, k, h).policy = StepAt(c, k, i).policy
                                   /\ StepAt(c, k, h).when = "schema"}}

\* Mutant: the second half of a pipeline is mounted before the first.
Mounted_Reversed(c, k, i, kn) == IF Needs(c, k, i) # {} THEN 0 ELSE MaxSteps + 1 - i

\* When a policy is mounted, of those that are before the event loop turns.
Mounted(c, k, i, kn) ==
    IF Needs(c, k, i) = {} THEN 1 ELSE IF Needs(c, k, i) \subseteq kn THEN 2 ELSE 0

Install(c, g, kn) ==
    /\ current' = g
    /\ config' = [config EXCEPT ![g] = c]
    /\ rank' = [s \in Slot |->
         IF s[1] = g
         THEN IF s[2] \in DOMAIN Pipes[c] /\ s[3] \in Steps(c, s[2])
              THEN Mounted(c, s[2], s[3], kn) ELSE 0
         ELSE rank[s]]

Init ==
    /\ up = TRUE /\ current = 1 /\ clock = 2
    /\ \E c \in Config :
         /\ ~Throws(c) /\ ~Clash({}, Asked(c))
         /\ config = [g \in Gen |-> IF g = 1 THEN c ELSE None]
         /\ added = Asked(c) /\ known = Asked(c) \ Remote
         /\ rank = [s \in Slot |->
              IF s[1] = 1 /\ s[2] \in DOMAIN Pipes[c] /\ s[3] \in Steps(c, s[2])
              THEN Mounted(c, s[2], s[3], Asked(c) \ Remote) ELSE 0]
    /\ turn = [s \in Slot |-> 0]
    /\ sent = [s \in Slot |-> [u \in Url |-> 0]]
    /\ request = [r \in Req |-> Idle]

\* The process ends, and with it every request in progress.
Stop ==
    /\ up' = FALSE /\ added' = {} /\ known' = {}
    /\ request' = [r \in Req |->
         IF request[r].at = "idle" THEN Idle ELSE Done]
    /\ UNCHANGED <<current, config, rank, clock, balance>>

\* A reload.  The promise of a schema that ajv refuses is rejected and nobody handles
\* it; a bootstrap that throws leaves the generation, and the schemas it has added.
Load(c) ==
    /\ up /\ current < MaxGens
    /\ IF Clash(added, Asked(c)) THEN Stop ELSE
         /\ added' = added \cup Asked(c)
         /\ known' = known \cup (Asked(c) \ Remote)
         /\ IF Throws(c) THEN UNCHANGED <<current, config, rank>>
            ELSE Install(c, current + 1, known')
         /\ UNCHANGED <<up, clock, balance, request>>

\* A schema has been fetched: the policies that waited for no other are mounted.
Fetched(s) ==
    /\ up /\ s \in added \ known
    /\ known' = known \cup {s}
    /\ clock' = clock + 1
    /\ rank' = [t \in Slot |->
         IF /\ t[1] <= current /\ rank[t] = 0
            /\ t[2] \in DOMAIN Pipes[config[t[1]]] /\ t[3] \in Steps(config[t[1]], t[2])
            /\ Needs(config[t[1]], t[2], t[3]) \subseteq known'
         THEN clock' ELSE rank[t]]
    /\ UNCHANGED <<up, current, config, added, balance, request>>

\* It could not be fetched: another rejection that nobody handles.
Unfetched(s) == up /\ s \in added \ known /\ Stop

\* The gateway is started again.
Start(c) ==
    /\ ~up /\ current < MaxGens
    /\ ~Throws(c) /\ ~Clash({}, Asked(c))
    /\ up' = TRUE
    /\ added' = Asked(c) /\ known' = Asked(c) \ Remote
    /\ Install(c, current + 1, known')
    /\ UNCHANGED <<clock, balance, request>>

-----------------------------------------------------------------------------
(* The routes of a request.                                                 *)

\* The order of two routes: hosts come in the order of their first mention.
Precedes(c, m, n) ==
    LET HostOf(x) == Routes[c][x].host IN
    IF HostOf(m) = HostOf(n) THEN m < n
    ELSE \E i \in DOMAIN Routes[c] :
           HostOf(i) = HostOf(m) /\ \A j \in 1..i : HostOf(j) # HostOf(n)

\* The pipeline of a route: of several that serve its endpoint the last, or none (0).
PipelineOf(c, n) ==
    LET serving == {k \in DOMAIN Pipes[c] : Routes[c][n].name \in Pipes[c][k].serves}
    IN  {k \in serving \cup {0} : \A j \in serving : j <= k}

\* Mutant: the router is looked up anew for every layer.
RouterOf_Current(q) == current

\* The routers a request goes through are those of its generation.
RouterOf(q) == q.gen

Conf(q) == config[RouterOf(q)]

Arrive(r, m) ==
    /\ up /\ request[r].at = "idle"
    /\ m \subseteq DOMAIN Routes[config[current]]
    /\ request' = [request EXCEPT ![r] =
         [Idle EXCEPT !.at = "routing", !.gen = current, !.born = config[current], !.matches = m]]
    /\ UNCHANGED <<build, balance>>

\* Mutant: a route that was tried is tried again.
Left_Again(q) == q.matches

\* The routes that have not been tried.
Left(q) == q.matches \ q.tried

\* The first of them is taken.  If it has no pipeline, or none is left: 404.
TakeRoute(r) ==
    LET q == request[r]  c == Conf(q) IN
    /\ up /\ q.at = "routing"
    /\ \/ /\ Left(q) = {}
          /\ request' = [request EXCEPT ![r] = Done]
       \/ \E n \in Left(q) :
            /\ \A m \in Left(q) : m = n \/ Precedes(c, n, m)
            /\ \E k \in PipelineOf(c, n) :
                 request' = [request EXCEPT ![r] =
                   IF k = 0 THEN Done ELSE [@ EXCEPT !.at = "inside", !.route = n, !.pipe = k, !.pos = 0, !.met = {},
                           !.whole = \A i \in Steps(c, k) : rank[<<RouterOf(q), k, i>>] > 0]]
    /\ UNCHANGED <<build, balance>>

-----------------------------------------------------------------------------
(* The layers of a pipeline.                                                *)

RankOf(q, i) == rank[<<RouterOf(q), q.pipe, i>>]

\* The order of two layers in the stack of the router.
Over(q, i, j) == RankOf(q, i) < RankOf(q, j) \/ (RankOf(q, i) = RankOf(q, j) /\ i < j)

\* Mutant: of the layers mounted at one time only the first is met.
Ahead_OneOfRank(q) ==
    {j \in Steps(Conf(q), q.pipe) :
        RankOf(q, j) > 0 /\ (q.pos = 0 \/ RankOf(q, q.pos) < RankOf(q, j))}

\* The layers that lie ahead of the request.
Ahead(q) ==
    {j \in Steps(Conf(q), q.pipe) : RankOf(q, j) > 0 /\ (q.pos = 0 \/ Over(q, q.pos, j))}

\* The layers it may reach next: the first of these.
Nearest(q) == LET ahead == Ahead(q) IN {j \in ahead : \A i \in ahead : i = j \/ Over(q, j, i)}

StepOf(q, j) == StepAt(Conf(q), q.pipe, j)
At(q, j) == [q EXCEPT !.pos = j, !.met = @ \cup {<<Conf(q), q.pipe, j>>}]

\* The condition does not hold: next().
Skip(r) ==
    /\ up /\ request[r].at = "inside"
    /\ \E j \in Nearest(request[r]) :
         /\ StepOf(request[r], j).when # "always"
         /\ request' = [request EXCEPT ![r] = At(@, j)]
    /\ UNCHANGED <<build, balance>>

\* The condition fails: an expression throws, it calls the promise of a condition it
\* contains, or the body of the request cannot be parsed.
FailCondition(r) ==
    /\ up /\ request[r].at = "inside"
    /\ \E j \in Nearest(request[r]) :
         StepOf(request[r], j).when # "always"
    /\ request' = [request EXCEPT ![r] = Done]
    /\ UNCHANGED <<build, balance>>

\* Mutants: a balancer forgets its index; it may point behind the last url.
NextTurn_Forgets(u, n) == 0
NextTurn_Late(u, n) == IF u + 1 > n THEN 0 ELSE u + 1

\* endpointIndex after nextTarget().
NextTurn(u, n) == IF u + 1 > n - 1 THEN 0 ELSE u + 1

\* The condition holds: the policy acts.  A proxy asks its balancer for a target.
Enter(r) ==
    LET q == request[r] IN
    /\ up /\ q.at = "inside"
    /\ \E j \in Nearest(q) : LET s == <<RouterOf(q), q.pipe, j>>  n == StepOf(q, j).urls IN
         /\ request' = [request EXCEPT ![r] = [At(@, j) EXCEPT !.at = "acting"]]
         /\ IF n = 0 THEN UNCHANGED balance
            ELSE /\ turn' = [turn EXCEPT ![s] = NextTurn(@, n)]
                 /\ sent' = [sent EXCEPT ![s][turn[s]] = @ + 1]
    /\ UNCHANGED build

\* The policy calls next(), which a proxy does not, answers, or calls next(err).
Return(r) ==
    LET q == request[r] IN
    /\ up /\ q.at = "acting"
    /\ \/ /\ StepOf(q, q.pos).urls = 0
          /\ request' = [request EXCEPT ![r].at = "inside"]
       \/ request' = [request EXCEPT ![r] = Done]
    /\ UNCHANGED <<build, balance>>

\* No layer is left: the router calls the next() of its route.
Fall(r) ==
    LET q == request[r] IN
    /\ up /\ q.at = "inside" /\ Ahead(q) = {}
    /\ request' = [request EXCEPT ![r].at = "routing", ![r].tried = @ \cup {q.route}]
    /\ UNCHANGED <<build, balance>>

-----------------------------------------------------------------------------
Advance(r) == TakeRoute(r) \/ Skip(r) \/ FailCondition(r) \/ Enter(r) \/ Return(r) \/ Fall(r)

Next ==
    \/ \E c \in Config : Load(c) \/ Start(c)
    \/ \E s \in Schema : Fetched(s) \/ Unfetched(s)
    \/ \E r \in Req : \E m \in SUBSET DOMAIN Routes[config[current]] : Arrive(r, m)
    \/ \E r \in Req : Advance(r)

Spec == Init /\ [][Next]_vars

\* The event loop gets to every request, and policies come back.
FairSpec == Spec /\ \A r \in Req : WF_vars(Advance(r))

-----------------------------------------------------------------------------
(* Properties.                                                              *)

\* Every variable has its type, and no balancer points past its urls.
TypeOK ==
    /\ up \in BOOLEAN /\ current \in Gen /\ clock \in Nat
    /\ config \in [Gen -> Config \cup {None}]
    /\ rank \in [Slot -> Nat]
    /\ added \subseteq Schema /\ known \subseteq added
    /\ turn \in [Slot -> Url] /\ sent \in [Slot -> [Url -> Nat]]
    /\ request \in [Req -> Request]

Plain(c, k) == \A i \in Steps(c, k) : StepAt(c, k, i).when # "schema"

\* In a pipeline without a json-schema condition a request meets the steps in their
\* order, none left out, and those of the configuration that was in force when it
\* arrived, whatever is reloaded meanwhile (pipelines.js:121-175, index.js:92).
StepsInOrder ==
    \A r \in Req : LET q == request[r] IN
        q.at \in {"inside", "acting"} /\ Plain(q.born, q.pipe) =>
            q.met = {<<q.born, q.pipe, i>> : i \in 1..q.pos}

\* The same of every pipeline: policies are executed in sequence.
InSequence ==
    \A r \in Req : LET q == request[r] IN
        q.at \in {"inside", "acting"} =>
            q.met = {<<q.born, q.pipe, i>> : i \in 1..q.pos}

\* A request that came in when every policy was mounted, and leaves the pipeline at
\* its end, has met all of them, however late they were mounted (pipelines.js:171).
WholePass ==
    \A r \in Req : LET q == request[r] IN
        q.at = "routing" /\ q.pipe # 0 /\ q.whole =>
            q.met = {<<q.born, q.pipe, i>> : i \in Steps(q.born, q.pipe)}

\* The urls of a proxy are targets equally often, give or take one, whatever requests
\* overlap; only a reload begins anew (strategies/round-robin.js:11-18).
EvenTurns ==
    \A s \in Slot :
        s[1] <= current /\ s[2] \in DOMAIN Pipes[config[s[1]]] /\ s[3] \in Steps(config[s[1]], s[2]) =>
            \A u, v \in 0..(StepAt(config[s[1]], s[2], s[3]).urls - 1) :
                sent[s][u] <= sent[s][v] + 1

\* A condition validates by the $id of its schema (schemas/index.js:18): what it finds
\* there is its own schema, although every generation registers with one ajv and
\* requests of an old one are still served.
SchemasAreOwn ==
    \A r \in Req : LET q == request[r] IN
        q.at = "inside" => \A i \in Ahead(q) : \A x \in added :
            StepOf(q, i).when = "schema" /\ IdOf[x] = IdOf[StepOf(q, i).schema] =>
                x = StepOf(q, i).schema

\* Every request comes to an end, whichever routes it matches and falls out of, and
\* whatever is mounted or reloaded on its way.
RequestsEnd == \A r \in Req : request[r].at = "routing" ~> request[r].at = "done"
=============================================================================
