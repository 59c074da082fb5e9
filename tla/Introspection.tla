--------------------------- MODULE Introspection ---------------------------
(***************************************************************************)
(* The oauth2-introspect policy (policies/oauth2-introspect/): a bearer    *)
(* token is looked up in a cache in Redis and, if it is not there, put to  *)
(* the authorization server, whose answer is cached by a SET and an EXPIRE *)
(* that nobody waits for.                                                  *)
(*                                                                         *)
(* The commands of a process go down one connection and are executed in    *)
(* order.  Time is counted in half seconds, for EXPIRE takes whole seconds *)
(* only; it does not pass while a command is on its way.                   *)
(***************************************************************************)
EXTENDS Integers, Sequences

CONSTANTS
    Token, Req,
    TTL,        \* actionParams.ttl, in half seconds
    Exps,       \* the expiry times the authorization server may state
    None,       \* it states none; no entry
    Forever,    \* an entry without expiry
    MaxTime, MaxStops   \* bounds of an instance

ASSUME IntrospectionAssumption ==
    /\ TTL \in Nat /\ TTL > 0 /\ TTL % 2 = 0
    /\ \A e \in Exps : e \in Nat /\ e % 2 = 0
    /\ None \notin Int /\ Forever \notin Int /\ None # Forever
    /\ MaxTime \in Nat /\ MaxStops \in Nat

VARIABLES
    now,
    cache,      \* cache[t]: what Redis holds under accesstoken.t
    pipe,       \* the commands on their way to Redis
    request,    \* request[r]
    stops,      \* how often the process has crashed
    torn        \* history: the tokens whose entry was set and its EXPIRE lost or refused

vars == <<now, cache, pipe, request, stops, torn>>

Time == 0..MaxTime
Body == [exp : Exps \cup {None}, at : Time]     \* at: history, when it was cached
Entry == [body : Body, until : Int \cup {Forever}]
Command == [op : {"get"}, req : Req]
           \cup [op : {"set"}, token : Token, body : Body]
           \cup [op : {"expire"}, token : Token, span : Int]

\* A request, its token, and whether that token has the scopes of the endpoint.  Of
\* one admitted, what it rests on and when (history).
Idle == [at |-> "idle"]
Done == [at |-> "done"]
Request == {Idle, Done}
           \cup [at : {"looking", "asking", "receiving"}, token : Token, covers : BOOLEAN]
           \cup [at : {"answered"}, token : Token, covers : BOOLEAN, exp : Exps \cup {None}]
           \cup [at : {"admitted"}, body : Body, cached : BOOLEAN, torn : BOOLEAN, time : Time]

Init ==
    /\ now = 0 /\ pipe = <<>> /\ stops = 0 /\ torn = {}
    /\ cache = [t \in Token |-> None]
    /\ request = [r \in Req |-> Idle]

-----------------------------------------------------------------------------
(* A request.                                                               *)

Arrive(r, t, covers) ==
    /\ request[r] = Idle
    /\ request' = [request EXCEPT ![r] = [at |-> "looking", token |-> t, covers |-> covers]]
    /\ pipe' = Append(pipe, [op |-> "get", req |-> r])
    /\ UNCHANGED <<now, cache, stops, torn>>

\* tokenIntrospection: the answer of the authorization server begins; or the call fails,
\* or nothing has come when its timeout passes, which is caught and refuses the request.
FirstByte(r) ==
    /\ request[r].at = "asking"
    /\ \/ request' = [request EXCEPT ![r].at = "receiving"]
       \/ request' = [request EXCEPT ![r] = Done]
    /\ UNCHANGED <<now, cache, pipe, stops, torn>>

\* The rest of the answer: active true, or not, or a failure.  No timeout limits it.
Introspect(r) ==
    LET q == request[r] IN
    /\ q.at = "receiving"
    /\ \/ \E e \in Exps \cup {None} :
            request' = [request EXCEPT ![r] =
              [at |-> "answered", token |-> q.token, covers |-> q.covers, exp |-> e]]
       \/ request' = [request EXCEPT ![r] = Done]
    /\ UNCHANGED <<now, cache, pipe, stops, torn>>

\* Mutant: a token without the scopes is not decided on.
Checked_Silent(q, body, cached) ==
    IF q.covers
    THEN [at |-> "admitted", body |-> body, cached |-> cached,
          torn |-> cached /\ q.token \in torn, time |-> now]
    ELSE q

\* scopeCheck.
Checked(q, body, cached) ==
    IF q.covers
    THEN [at |-> "admitted", body |-> body, cached |-> cached,
          torn |-> cached /\ q.token \in torn, time |-> now]
    ELSE Done

\* Mutant: the expiry of the token is not looked at.
Span_Ttl(exp) == TTL

\* expireInSeconds.
Span(exp) == IF exp # None /\ TTL > exp - now THEN exp - now ELSE TTL

\* Mutant: EXPIRE is sent first.
Caching_Swapped(t, body) ==
    <<[op |-> "expire", token |-> t, span |-> Span(body.exp)], [op |-> "set", token |-> t, body |-> body]>>

\* What is sent, without waiting for an answer.
Caching(t, body) ==
    <<[op |-> "set", token |-> t, body |-> body], [op |-> "expire", token |-> t, span |-> Span(body.exp)]>>

\* The continuation of the introspection.
Store(r) ==
    LET q == request[r]  body == [exp |-> q.exp, at |-> now] IN
    /\ q.at = "answered"
    /\ pipe' = pipe \o Caching(q.token, body)
    /\ request' = [request EXCEPT ![r] = Checked(q, body, FALSE)]
    /\ UNCHANGED <<now, cache, stops, torn>>

-----------------------------------------------------------------------------
(* Redis.                                                                   *)

\* The look-up and its continuation.
Get(c) ==
    LET q == request[c.req]  e == cache[q.token] IN
    /\ request' = [request EXCEPT ![c.req] =
         IF e = None THEN [q EXCEPT !.at = "asking"] ELSE Checked(q, e.body, TRUE)]
    /\ UNCHANGED <<cache, torn>>

\* SET removes what expiry the entry had.
Set(c) ==
    /\ cache' = [cache EXCEPT ![c.token] = [body |-> c.body, until |-> Forever]]
    /\ torn' = torn \ {c.token}
    /\ UNCHANGED request

\* EXPIRE with no more than zero seconds removes the entry.
Expire(c) ==
    /\ cache' = [cache EXCEPT ![c.token] =
         IF @ = None \/ c.span <= 0 THEN None ELSE [@ EXCEPT !.until = now + c.span]]
    /\ UNCHANGED <<request, torn>>

\* The process ends, with its requests and the commands not executed.
Stop ==
    /\ pipe' = <<>>
    /\ torn' = torn \cup {t \in Token : \E i \in DOMAIN pipe :
         /\ pipe[i].op = "expire" /\ pipe[i].token = t
         /\ \A j \in 1..(i - 1) : pipe[j].op = "set" => pipe[j].token # t}
    /\ request' = [r \in Req |-> IF request[r].at \in {"idle", "admitted"} THEN request[r] ELSE Done]
    /\ UNCHANGED cache

\* Redis refuses an EXPIRE whose time is not whole seconds.
Refused(c) == c.op = "expire" /\ c.span % 2 # 0

\* The next command is executed, or refused: the promise it returned is then rejected,
\* and since nobody handles that Node ends the process.
Exec ==
    /\ pipe # <<>>
    /\ LET c == Head(pipe) IN
         \/ Refused(c) /\ Stop
         \/ /\ ~Refused(c)
            /\ \/ c.op = "get" /\ Get(c)
               \/ c.op = "set" /\ Set(c)
               \/ c.op = "expire" /\ Expire(c)
            /\ pipe' = Tail(pipe)
    /\ UNCHANGED <<now, stops>>

\* The process ends otherwise, for one because a command failed.
Crash ==
    /\ stops < MaxStops /\ stops' = stops + 1
    /\ Stop
    /\ UNCHANGED now

-----------------------------------------------------------------------------
Tick ==
    /\ now < MaxTime /\ pipe = <<>>
    /\ now' = now + 1
    /\ cache' = [t \in Token |->
         IF cache[t] # None /\ cache[t].until # Forever /\ cache[t].until <= now' THEN None ELSE cache[t]]
    /\ UNCHANGED <<pipe, request, stops, torn>>

Own(r) == FirstByte(r) \/ Store(r)

Next ==
    \/ \E r \in Req : Own(r) \/ Introspect(r) \/ \E t \in Token, b \in BOOLEAN : Arrive(r, t, b)
    \/ Exec \/ Crash \/ Tick

Spec == Init /\ [][Next]_vars

\* Redis executes what it is sent, and the answer of the authorization server begins or
\* the timeout passes.  Nothing makes a server go on with an answer it has begun.
FairSpec == Spec /\ WF_vars(Exec) /\ \A r \in Req : WF_vars(Own(r))

-----------------------------------------------------------------------------
(* Properties.                                                              *)

\* Every variable has its type.
TypeOK ==
    /\ now \in Time /\ torn \subseteq Token
    /\ stops \in 0..MaxStops
    /\ cache \in [Token -> Entry \cup {None}]
    /\ pipe \in Seq(Command)
    /\ request \in [Req -> Request]

\* A request is admitted from the cache only within the ttl of the answer it rests on,
\* and before the token expires, whatever requests store that token at once; unless
\* the process ended between SET and EXPIRE, or Redis refused the EXPIRE, as it does one of
\* a fraction of seconds (oauth2-introspect.js:26-45).
CachedWithinTtl ==
    \A r \in Req : LET q == request[r] IN
        q.at = "admitted" /\ q.cached /\ ~q.torn =>
            /\ q.time < q.body.at + TTL
            /\ q.body.exp # None => q.time < q.body.exp

\* Every request is answered or ends with the process (as one does whose look-up fails:
\* no catch handles that, oauth2-introspect.js:26), or waits for the rest of an answer
\* that the server began and never ends: the timeout covers the first byte only
\* (token-introspector.js:19).  Nothing else keeps a request waiting.
EveryAnswered ==
    \A r \in Req :
        request[r].at = "looking" ~>
            (request[r].at \in {"admitted", "done"} \/ [](request[r].at = "receiving"))
=============================================================================
