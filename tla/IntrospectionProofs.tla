------------------------ MODULE IntrospectionProofs ------------------------
(* Theorems about Introspection, for every value of its constants.          *)
EXTENDS Introspection, SequenceTheorems, TLAPS

-----------------------------------------------------------------------------
(* Types.                                                                   *)

\* The look-ups on their way are those of the requests that wait for one, one each.
LookUps ==
    /\ \A i \in 1..Len(pipe) : pipe[i].op = "get" => request[pipe[i].req].at = "looking"
    /\ \A i, j \in 1..Len(pipe) :
         pipe[i].op = "get" /\ pipe[j].op = "get" /\ pipe[i].req = pipe[j].req => i = j

TypeInv == TypeOK /\ LookUps

\* What a command is made of.
LEMMA CommandTyped ==
    ASSUME NEW c \in Command
    PROVE  /\ c.op \in {"get", "set", "expire"}
           /\ c.op = "get" => c.req \in Req
           /\ c.op = "set" => c.token \in Token /\ c.body \in Body
           /\ c.op = "expire" => c.token \in Token /\ c.span \in Int
  BY DEF Command

\* What a request is made of.
LEMMA RequestTyped ==
    ASSUME NEW q \in Request
    PROVE  /\ q.at \in {"looking", "asking", "receiving", "answered"} => q.token \in Token /\ q.covers \in BOOLEAN
           /\ q.at = "answered" => q.exp \in Exps \cup {None}
           /\ q.at = "admitted" => /\ q.body \in Body /\ q.cached \in BOOLEAN
                                   /\ q.torn \in BOOLEAN /\ q.time \in Time
  BY DEF Request, Idle, Done

\* The requests that a step may produce.
LEMMA RequestMade ==
    /\ Idle \in Request /\ Done \in Request
    /\ \A t \in Token, b \in BOOLEAN :
         /\ [at |-> "looking", token |-> t, covers |-> b] \in Request
         /\ [at |-> "asking", token |-> t, covers |-> b] \in Request
         /\ [at |-> "receiving", token |-> t, covers |-> b] \in Request
         /\ \A e \in Exps \cup {None} : [at |-> "answered", token |-> t, covers |-> b, exp |-> e] \in Request
    /\ \A b \in Body, f \in BOOLEAN, g \in BOOLEAN, m \in Time :
         [at |-> "admitted", body |-> b, cached |-> f, torn |-> g, time |-> m] \in Request
  BY DEF Request

\* The sequence that is left when its first element is taken.
LEMMA Shorter ==
    ASSUME NEW S, NEW s \in Seq(S), s # <<>>
    PROVE  /\ Len(s) \in Nat /\ Len(s) > 0 /\ s[1] \in S /\ Head(s) = s[1]
           /\ Tail(s) \in Seq(S) /\ Len(Tail(s)) = Len(s) - 1
           /\ \A i \in 1..Len(Tail(s)) : i + 1 \in 2..Len(s) /\ Tail(s)[i] = s[i + 1]
<1>1. Len(s) \in Nat /\ Len(s) > 0 /\ s[1] \in S /\ Head(s) = s[1]
  OBVIOUS
<1>. QED
  BY <1>1, HeadTailProperties

\* A sequence has elements unless it is empty.
LEMMA NonEmpty ==
    ASSUME NEW S, NEW s \in Seq(S)
    PROVE  s # <<>> <=> Len(s) > 0
  OBVIOUS

\* The sequence with two elements more.
LEMMA LongerByTwo ==
    ASSUME NEW S, NEW s \in Seq(S), NEW a \in S, NEW b \in S
    PROVE  /\ s \o <<a, b>> \in Seq(S) /\ Len(s) \in Nat /\ Len(s \o <<a, b>>) = Len(s) + 2
           /\ \A i \in 1..Len(s) : (s \o <<a, b>>)[i] = s[i]
           /\ (s \o <<a, b>>)[Len(s) + 1] = a /\ (s \o <<a, b>>)[Len(s) + 2] = b
<1>. DEFINE d == <<a, b>>
<1>1. d \in Seq(S) /\ Len(d) = 2 /\ d[1] = a /\ d[2] = b /\ Len(s) \in Nat
  OBVIOUS
<1>. HIDE DEF d
<1>2. /\ s \o d \in Seq(S) /\ Len(s \o d) = Len(s) + 2
      /\ \A i \in 1..(Len(s) + 2) : (s \o d)[i] = IF i <= Len(s) THEN s[i] ELSE d[i - Len(s)]
  <2>1. /\ s \o d \in Seq(S) /\ Len(s \o d) = Len(s) + Len(d)
        /\ \A i \in 1..(Len(s) + Len(d)) : (s \o d)[i] = IF i <= Len(s) THEN s[i] ELSE d[i - Len(s)]
    BY <1>1, ConcatProperties, Zenon
  <2>. QED
    BY <1>1, <2>1, Zenon
<1>3. (s \o d)[Len(s) + 1] = a /\ (s \o d)[Len(s) + 2] = b
  BY <1>1, <1>2
<1>4. \A i \in 1..Len(s) : (s \o d)[i] = s[i]
  BY <1>1, <1>2
<1>. QED
  BY <1>1, <1>2, <1>3, <1>4 DEF d

\* The span of an entry is a number.
LEMMA SpanTyped ==
    ASSUME now \in Int, NEW e \in Exps \cup {None}
    PROVE  Span(e) \in Int
  BY IntrospectionAssumption DEF Span

\* What a request becomes when it is decided on.
LEMMA CheckedTyped ==
    ASSUME TypeOK, NEW q \in Request, q.at \in {"looking", "answered"}, NEW b \in Body, NEW f \in BOOLEAN
    PROVE  Checked(q, b, f) \in Request /\ Checked(q, b, f).at \in {"admitted", "done"}
<1>. DEFINE g == f /\ q.token \in torn
            r == [at |-> "admitted", body |-> b, cached |-> f, torn |-> g, time |-> now]
<1>1. now \in Time /\ g \in BOOLEAN
  BY DEF TypeOK
<1>2. Checked(q, b, f) = IF q.covers THEN r ELSE Done
  BY DEF Checked
<1>3. r.at = "admitted" /\ Done.at = "done"
  BY DEF Done
<1>4. r \in Request
  <2>. HIDE DEF g
  <2>. QED
    BY <1>1, RequestMade
<1>. HIDE DEF r
<1>. QED
  BY <1>2, <1>3, <1>4, RequestMade

\* A request that arrives is looked up.
LEMMA ArriveTyped ==
    ASSUME TypeInv, NEW r \in Req, NEW t \in Token, NEW b \in BOOLEAN, Arrive(r, t, b)
    PROVE  TypeInv'
<1>. DEFINE c == [op |-> "get", req |-> r]
<1>1. c \in Command /\ c.op = "get" /\ c.req = r
  BY DEF Command
<1>2. /\ pipe \in Seq(Command) /\ pipe' = Append(pipe, c)
      /\ request' = [request EXCEPT ![r] = [at |-> "looking", token |-> t, covers |-> b]]
      /\ request[r].at # "looking"
  BY DEF Arrive, TypeInv, TypeOK, Idle
<1>. HIDE DEF c
<1>3. /\ pipe' \in Seq(Command) /\ Len(pipe') = Len(pipe) + 1 /\ Len(pipe) \in Nat
      /\ pipe'[Len(pipe) + 1] = c /\ \A i \in 1..Len(pipe) : pipe'[i] = pipe[i]
  BY <1>1, <1>2
<1>4. request' \in [Req -> Request] /\ request'[r].at = "looking" /\ \A q \in Req : q # r => request'[q] = request[q]
  BY <1>2, RequestMade DEF TypeInv, TypeOK
<1>5. TypeOK'
  BY <1>3, <1>4 DEF Arrive, TypeInv, TypeOK
<1>6. \A i \in 1..Len(pipe) : pipe[i].op = "get" => /\ pipe[i].req \in Req /\ pipe[i].req # r
                                                   /\ request[pipe[i].req].at = "looking"
  BY <1>2, CommandTyped DEF TypeInv, LookUps
<1>7. \A i \in 1..Len(pipe') : i \in 1..Len(pipe) \/ i = Len(pipe) + 1
  BY <1>3
<1>8. LookUps'
  BY <1>1, <1>3, <1>4, <1>6, <1>7 DEF TypeInv, LookUps
<1>. QED
  BY <1>5, <1>8 DEF TypeInv

\* A request that is not being looked up goes on.
LEMMA RequestStepTyped ==
    ASSUME TypeInv, NEW r \in Req, request[r].at # "looking", NEW q \in Request,
           request' = [request EXCEPT ![r] = q], pipe' = pipe, UNCHANGED <<now, cache, stops, torn>>
    PROVE  TypeInv'
<1>1. TypeOK'
  BY DEF TypeInv, TypeOK
<1>2. \A i \in 1..Len(pipe) : pipe[i].op = "get" => pipe[i].req \in Req
  BY CommandTyped DEF TypeInv, TypeOK
<1>3. LookUps'
  BY <1>2 DEF TypeInv, TypeOK, LookUps
<1>. QED
  BY <1>1, <1>3 DEF TypeInv

\* The answer of the authorization server begins, or none does.
LEMMA FirstByteTyped ==
    ASSUME TypeInv, NEW r \in Req, FirstByte(r)
    PROVE  TypeInv'
<1>1. request[r] \in Request /\ request[r].at = "asking"
  BY DEF FirstByte, TypeInv, TypeOK
<1>2. [request[r] EXCEPT !.at = "receiving"] \in Request
  <2>1. [request[r] EXCEPT !.at = "receiving"]
          = [at |-> "receiving", token |-> request[r].token, covers |-> request[r].covers]
    BY <1>1 DEF Request, Idle, Done
  <2>2. request[r].token \in Token /\ request[r].covers \in BOOLEAN
    BY <1>1, RequestTyped
  <2>. QED
    BY <2>1, <2>2 DEF Request
<1>3. \E q \in Request : request' = [request EXCEPT ![r] = q]
  BY <1>2, RequestMade DEF FirstByte
<1>. QED
  BY <1>1, <1>3, RequestStepTyped DEF FirstByte

\* The authorization server has answered.
LEMMA IntrospectTyped ==
    ASSUME TypeInv, NEW r \in Req, Introspect(r)
    PROVE  TypeInv'
<1>1. request[r] \in Request /\ request[r].at = "receiving"
  BY DEF Introspect, TypeInv, TypeOK
<1>2. \E q \in Request : request' = [request EXCEPT ![r] = q]
  <2>1. CASE request' = [request EXCEPT ![r] = Done]
    BY <2>1, RequestMade
  <2>2. ASSUME NEW e \in Exps \cup {None},
               request' = [request EXCEPT ![r] =
                 [at |-> "answered", token |-> request[r].token, covers |-> request[r].covers, exp |-> e]]
        PROVE  \E q \in Request : request' = [request EXCEPT ![r] = q]
    BY <1>1, <2>2, RequestTyped, RequestMade
  <2>. QED
    BY <2>1, <2>2 DEF Introspect
<1>. QED
  BY <1>1, <1>2, RequestStepTyped DEF Introspect

\* What is sent to cache an answer.
LEMMA CachingTyped ==
    ASSUME TypeOK, NEW r \in Req, request[r].at = "answered"
    PROVE  LET b == [exp |-> request[r].exp, at |-> now]  t == request[r].token
           IN  /\ b \in Body /\ t \in Token
               /\ [op |-> "set", token |-> t, body |-> b] \in Command
               /\ [op |-> "expire", token |-> t, span |-> Span(b.exp)] \in Command
<1>1. request[r] \in Request /\ now \in Time /\ now \in Int
  BY IntrospectionAssumption DEF TypeOK, Time
<1>2. request[r].token \in Token /\ request[r].exp \in Exps \cup {None}
  BY <1>1, RequestTyped
<1>3. Span(request[r].exp) \in Int
  BY <1>1, <1>2, SpanTyped
<1>. QED
  BY <1>1, <1>2, <1>3 DEF Body, Command

\* What the continuation of the introspection does to the pipe.
LEMMA StorePipe ==
    ASSUME TypeOK, NEW r \in Req, Store(r)
    PROVE  LET n == Len(pipe)  t == request[r].token  b == [exp |-> request[r].exp, at |-> now]
           IN  /\ n \in Nat /\ t \in Token /\ b \in Body
               /\ pipe' \in Seq(Command) /\ Len(pipe') = n + 2
               /\ \A i \in 1..n : pipe'[i] = pipe[i]
               /\ pipe'[n + 1] = [op |-> "set", token |-> t, body |-> b]
               /\ pipe'[n + 2] = [op |-> "expire", token |-> t, span |-> Span(b.exp)]
<1>. DEFINE t == request[r].token  b == [exp |-> request[r].exp, at |-> now]
            x == [op |-> "set", token |-> t, body |-> b]
            y == [op |-> "expire", token |-> t, span |-> Span(b.exp)]
<1>1. x \in Command /\ y \in Command /\ t \in Token /\ b \in Body
  BY CachingTyped DEF Store
<1>2. pipe' = pipe \o <<x, y>> /\ pipe \in Seq(Command)
  BY DEF Store, Caching, TypeOK
<1>. HIDE DEF x, y
<1>3. /\ pipe' \in Seq(Command) /\ Len(pipe) \in Nat /\ Len(pipe') = Len(pipe) + 2
      /\ \A i \in 1..Len(pipe) : pipe'[i] = pipe[i]
      /\ pipe'[Len(pipe) + 1] = x /\ pipe'[Len(pipe) + 2] = y
  BY <1>1, <1>2, LongerByTwo
<1>. QED
  BY <1>1, <1>3 DEF x, y

\* An answer is sent to be cached, and decided on.
LEMMA StoreTyped ==
    ASSUME TypeInv, NEW r \in Req, Store(r)
    PROVE  TypeInv'
<1>. DEFINE n == Len(pipe)  b == [exp |-> request[r].exp, at |-> now]  q == Checked(request[r], b, FALSE)
<1>1. TypeOK /\ request[r] \in Request /\ request[r].at = "answered"
  BY DEF Store, TypeInv, TypeOK
<1>2. /\ n \in Nat /\ b \in Body /\ pipe' \in Seq(Command) /\ Len(pipe') = n + 2
      /\ \A i \in 1..n : pipe'[i] = pipe[i]
      /\ pipe'[n + 1].op = "set" /\ pipe'[n + 2].op = "expire"
  <2>1. /\ n \in Nat /\ b \in Body /\ pipe' \in Seq(Command) /\ Len(pipe') = n + 2
        /\ \A i \in 1..n : pipe'[i] = pipe[i]
        /\ pipe'[n + 1] = [op |-> "set", token |-> request[r].token, body |-> b]
        /\ pipe'[n + 2] = [op |-> "expire", token |-> request[r].token, span |-> Span(b.exp)]
    BY <1>1, StorePipe, Zenon
  <2>. QED
    BY <2>1
<1>3. q \in Request
  BY <1>1, <1>2, CheckedTyped
<1>4. request' = [request EXCEPT ![r] = q] /\ UNCHANGED <<now, cache, stops, torn>>
  BY DEF Store
<1>5. TypeOK'
  BY <1>1, <1>2, <1>3, <1>4 DEF TypeOK
<1>6. \A i \in 1..Len(pipe') : pipe'[i].op = "get" => i \in 1..n /\ pipe'[i] = pipe[i]
  <2>1. \A i \in 1..Len(pipe') : i \in 1..n \/ i = n + 1 \/ i = n + 2
    BY <1>2
  <2>. QED
    BY <1>2, <2>1
<1>7. \A i \in 1..n : pipe[i].op = "get" => pipe[i].req \in Req /\ request'[pipe[i].req] = request[pipe[i].req]
  <2>1. \A i \in 1..n : pipe[i] \in Command
    BY <1>1 DEF TypeOK
  <2>2. \A i \in 1..n : pipe[i].op = "get" => pipe[i].req # r
    BY <1>1 DEF TypeInv, LookUps
  <2>. QED
    BY <1>1, <1>4, <2>1, <2>2, CommandTyped DEF TypeOK
<1>8. LookUps'
  BY <1>6, <1>7 DEF TypeInv, LookUps
<1>. QED
  BY <1>5, <1>8 DEF TypeInv

\* The process ends.
LEMMA StopTyped ==
    ASSUME TypeInv, Stop, UNCHANGED now, stops' \in 0..MaxStops
    PROVE  TypeInv'
<1>1. pipe' = <<>> /\ cache' = cache /\ torn' \subseteq Token
  BY DEF Stop, TypeInv, TypeOK
<1>2. request' \in [Req -> Request]
  BY RequestMade DEF Stop, TypeInv, TypeOK
<1>. QED
  BY <1>1, <1>2 DEF TypeInv, TypeOK, LookUps

\* The command that is executed.
LEMMA HeadTyped ==
    ASSUME TypeOK, pipe # <<>>
    PROVE  /\ Head(pipe) = pipe[1] /\ pipe[1] \in Command /\ Len(pipe) \in Nat /\ Len(pipe) > 0
           /\ Tail(pipe) \in Seq(Command) /\ Len(Tail(pipe)) = Len(pipe) - 1
           /\ \A i \in 1..Len(Tail(pipe)) : i + 1 \in 2..Len(pipe) /\ Tail(pipe)[i] = pipe[i + 1]
  BY Shorter DEF TypeOK

\* The look-ups that are left, if the requests they belong to are as they were.
LEMMA LookUpsLeft ==
    ASSUME TypeInv, pipe # <<>>, pipe' = Tail(pipe),
           \A r \in Req : request'[r] = request[r] \/ (pipe[1].op = "get" /\ pipe[1].req = r)
    PROVE  LookUps'
<1>1. /\ pipe[1] \in Command /\ Len(pipe) \in Nat /\ Len(pipe) > 0 /\ Len(pipe') = Len(pipe) - 1
      /\ \A i \in 1..Len(pipe') : i + 1 \in 2..Len(pipe) /\ pipe'[i] = pipe[i + 1]
  BY HeadTyped DEF TypeInv
<1>2. \A i \in 1..Len(pipe) : pipe[i].op = "get" => pipe[i].req \in Req
  BY CommandTyped DEF TypeInv, TypeOK
<1>3. ASSUME NEW i \in 1..Len(pipe'), pipe'[i].op = "get" PROVE request'[pipe'[i].req].at = "looking"
  <2>1. i + 1 \in 1..Len(pipe) /\ i + 1 # 1 /\ 1 \in 1..Len(pipe) /\ pipe'[i] = pipe[i + 1]
    BY <1>1
  <2>2. request[pipe[i + 1].req].at = "looking" /\ pipe[i + 1].req \in Req
    BY <1>2, <1>3, <2>1 DEF TypeInv, LookUps
  <2>3. ~(pipe[1].op = "get" /\ pipe[1].req = pipe[i + 1].req)
    BY <1>3, <2>1 DEF TypeInv, LookUps
  <2>. QED
    BY <2>1, <2>2, <2>3
<1>4. ASSUME NEW i \in 1..Len(pipe'), NEW j \in 1..Len(pipe'),
             pipe'[i].op = "get", pipe'[j].op = "get", pipe'[i].req = pipe'[j].req
      PROVE  i = j
  <2>1. i + 1 \in 1..Len(pipe) /\ j + 1 \in 1..Len(pipe) /\ pipe'[i] = pipe[i + 1] /\ pipe'[j] = pipe[j + 1]
    BY <1>1
  <2>2. i + 1 = j + 1
    BY <1>4, <2>1 DEF TypeInv, LookUps
  <2>. QED
    BY <2>2
<1>. QED
  BY <1>3, <1>4 DEF LookUps

\* A command is executed.
LEMMA ExecTyped ==
    ASSUME TypeInv, Exec
    PROVE  TypeInv'
<1>. DEFINE c == pipe[1]
<1>1. /\ pipe # <<>> /\ Head(pipe) = c /\ c \in Command /\ Tail(pipe) \in Seq(Command)
      /\ UNCHANGED <<now, stops>>
  BY HeadTyped DEF Exec, TypeInv
<1>2. TypeOK /\ now \in Time /\ now \in Int
  BY IntrospectionAssumption DEF TypeInv, TypeOK, Time
<1>3. CASE Refused(c) /\ Stop
  BY <1>1, <1>3, StopTyped DEF TypeInv, TypeOK
<1>4. CASE c.op = "get" /\ Get(c) /\ pipe' = Tail(pipe)
  <2>. DEFINE q == request[c.req]  e == cache[q.token]
              z == IF e = None THEN [q EXCEPT !.at = "asking"] ELSE Checked(q, e.body, TRUE)
  <2>1. c.req \in Req /\ q \in Request /\ q.at = "looking"
    <3>1. 1 \in 1..Len(pipe)
      BY <1>1, HeadTyped DEF TypeInv
    <3>. QED
      BY <1>1, <1>2, <1>4, <3>1, CommandTyped DEF TypeInv, TypeOK, LookUps
  <2>2. q.token \in Token /\ q.covers \in BOOLEAN
    BY <2>1, RequestTyped
  <2>3. e = None \/ e.body \in Body
    BY <1>2, <2>2 DEF TypeOK, Entry
  <2>4. [q EXCEPT !.at = "asking"] \in Request
    <3>1. [q EXCEPT !.at = "asking"] = [at |-> "asking", token |-> q.token, covers |-> q.covers]
      BY <2>1 DEF Request, Idle, Done
    <3>2. [at |-> "asking", token |-> q.token, covers |-> q.covers] \in Request
      BY <2>2 DEF Request
    <3>. QED
      BY <3>1, <3>2
  <2>5. z \in Request
    BY <1>2, <2>1, <2>3, <2>4, CheckedTyped
  <2>6. request' = [request EXCEPT ![c.req] = z] /\ UNCHANGED <<cache, torn>>
    BY <1>4 DEF Get
  <2>. HIDE DEF z
  <2>7. TypeOK'
    BY <1>1, <1>2, <1>4, <2>1, <2>5, <2>6 DEF TypeOK
  <2>8. \A r \in Req : request'[r] = request[r] \/ (pipe[1].op = "get" /\ pipe[1].req = r)
    BY <1>2, <1>4, <2>6 DEF TypeOK
  <2>. QED
    BY <1>1, <1>4, <2>7, <2>8, LookUpsLeft DEF TypeInv
<1>5. CASE c.op = "set" /\ Set(c) /\ pipe' = Tail(pipe)
  <2>1. c.token \in Token /\ [body |-> c.body, until |-> Forever] \in Entry
    BY <1>1, <1>5, CommandTyped DEF Entry
  <2>2. TypeOK'
    BY <1>1, <1>2, <1>5, <2>1 DEF Set, TypeOK
  <2>. QED
    BY <1>1, <1>5, <2>2, LookUpsLeft DEF Set, TypeInv
<1>6. CASE c.op = "expire" /\ Expire(c) /\ pipe' = Tail(pipe)
  <2>1. c.token \in Token /\ now + c.span \in Int
    BY <1>1, <1>2, <1>6, CommandTyped
  <2>2. cache[c.token] # None => [cache[c.token] EXCEPT !.until = now + c.span] \in Entry
    BY <1>2, <2>1 DEF TypeOK, Entry
  <2>3. cache' \in [Token -> Entry \cup {None}]
    BY <1>2, <1>6, <2>1, <2>2 DEF Expire, TypeOK
  <2>4. TypeOK'
    BY <1>1, <1>2, <1>6, <2>3 DEF Expire, TypeOK
  <2>. QED
    BY <1>1, <1>6, <2>4, LookUpsLeft DEF Expire, TypeInv
<1>. QED
  BY <1>1, <1>3, <1>4, <1>5, <1>6 DEF Exec

\* Time passes.
LEMMA TickTyped ==
    ASSUME TypeInv, Tick
    PROVE  TypeInv'
<1>1. now' \in Time
  BY IntrospectionAssumption DEF Tick, TypeInv, TypeOK, Time
<1>2. cache' \in [Token -> Entry \cup {None}]
  BY DEF Tick, TypeInv, TypeOK
<1>. QED
  BY <1>1, <1>2 DEF Tick, TypeInv, TypeOK, LookUps

\* No step breaks the typing.
LEMMA NextTyped == TypeInv /\ [Next]_vars => TypeInv'
<1>. SUFFICES ASSUME TypeInv, [Next]_vars PROVE TypeInv'
  OBVIOUS
<1>1. CASE UNCHANGED vars
  BY <1>1 DEF TypeInv, TypeOK, LookUps, vars
<1>2. CASE Crash
  <2>1. stops' \in 0..MaxStops
    BY <1>2, IntrospectionAssumption DEF Crash, TypeInv, TypeOK
  <2>. QED
    BY <1>2, <2>1, StopTyped DEF Crash
<1>. QED
  BY <1>1, <1>2, ArriveTyped, FirstByteTyped, IntrospectTyped, StoreTyped, ExecTyped, TickTyped DEF Next, Own

\* The typing holds throughout.
LEMMA TypeAlways == Spec => []TypeInv
<1>1. Init => TypeInv
  BY RequestMade, IntrospectionAssumption DEF Init, TypeInv, TypeOK, LookUps, Time
<1>. QED
  BY <1>1, NextTyped, PTL DEF Spec

\* Every variable keeps its type.
THEOREM Typing == Spec => []TypeOK
<1>1. TypeInv => TypeOK
  BY DEF TypeInv
<1>. QED
  BY <1>1, TypeAlways, PTL

-----------------------------------------------------------------------------
(* What is served from the cache.                                           *)

\* Every SET on its way is of an answer that came now, and its EXPIRE is behind it; no
\* EXPIRE comes otherwise.
Paired ==
    /\ \A i \in 1..Len(pipe) : pipe[i].op = "set" =>
         /\ i + 1 \in 1..Len(pipe) /\ pipe[i].body.at = now
         /\ pipe[i + 1].op = "expire" /\ pipe[i + 1].token = pipe[i].token
         /\ pipe[i + 1].span = Span(pipe[i].body.exp)
    /\ \A i \in 2..Len(pipe) : pipe[i].op = "expire" => pipe[i - 1].op = "set"

\* The token whose entry awaits the EXPIRE that is executed next.
Awaited(t) == pipe # <<>> /\ pipe[1].op = "expire" /\ pipe[1].token = t

\* How long an entry lasts: no longer than its answer is good for, once it has an expiry;
\* without one, the expiry is on its way, or lost with the process.
Lasting(t) ==
    LET e == cache[t] IN
    e # None =>
      /\ e.until = Forever => t \in torn \/ Awaited(t)
      /\ e.until # Forever => /\ now < e.until /\ e.until <= e.body.at + TTL
                              /\ e.body.exp # None => e.until <= e.body.exp
      /\ Awaited(t) => e.body.at = now /\ pipe[1].span = Span(e.body.exp)

CacheInv == Paired /\ (\A t \in Token : Lasting(t)) /\ CachedWithinTtl

\* A step that leaves the clock, the cache and the head of the pipe as they are.
LEMMA SameLasting ==
    ASSUME UNCHANGED <<now, cache, torn>>, NEW t \in Token, Lasting(t),
           (Awaited(t) <=> Awaited(t)') /\ (Awaited(t) => pipe'[1] = pipe[1])
    PROVE  Lasting(t)'
  BY DEF Lasting, Span

\* A request that is not admitted from the cache.
LEMMA SameServed ==
    ASSUME TypeInv, CachedWithinTtl, NEW r \in Req, NEW q, q.at = "admitted" => q.cached = FALSE,
           request' = [request EXCEPT ![r] = q]
    PROVE  CachedWithinTtl'
  BY DEF TypeInv, TypeOK, CachedWithinTtl

\* A request arrives: its look-up is behind all that is on its way.
LEMMA ArriveCached ==
    ASSUME TypeInv, CacheInv, NEW r \in Req, NEW t \in Token, NEW b \in BOOLEAN, Arrive(r, t, b)
    PROVE  CacheInv'
<1>. DEFINE c == [op |-> "get", req |-> r]  z == [at |-> "looking", token |-> t, covers |-> b]
<1>1. c \in Command /\ c.op = "get" /\ z.at = "looking"
  BY DEF Command
<1>2. /\ pipe \in Seq(Command) /\ pipe' = Append(pipe, c) /\ request' = [request EXCEPT ![r] = z]
      /\ UNCHANGED <<now, cache, torn>>
  BY DEF Arrive, TypeInv, TypeOK
<1>. HIDE DEF c, z
<1>3. /\ Len(pipe') = Len(pipe) + 1 /\ Len(pipe) \in Nat /\ pipe' # <<>>
      /\ pipe'[Len(pipe) + 1] = c /\ \A i \in 1..Len(pipe) : pipe'[i] = pipe[i]
      /\ pipe # <<>> <=> Len(pipe) > 0
  BY <1>1, <1>2
<1>4. Paired'
  BY <1>1, <1>2, <1>3 DEF CacheInv, Paired, Span
<1>5. ASSUME NEW u \in Token PROVE Lasting(u)'
  <2>1. (Awaited(u) <=> Awaited(u)') /\ (Awaited(u) => pipe'[1] = pipe[1])
    <3>1. CASE Len(pipe) > 0
      BY <1>3, <3>1 DEF Awaited
    <3>2. CASE Len(pipe) = 0
      BY <1>1, <1>3, <3>2 DEF Awaited
    <3>. QED
      BY <1>3, <3>1, <3>2
  <2>. QED
    BY <1>2, <2>1, SameLasting DEF CacheInv
<1>6. CachedWithinTtl'
  BY <1>1, <1>2, SameServed DEF CacheInv
<1>. QED
  BY <1>4, <1>5, <1>6 DEF CacheInv

\* The answer of the authorization server begins, or none does.
LEMMA FirstByteCached ==
    ASSUME TypeInv, CacheInv, NEW r \in Req, FirstByte(r)
    PROVE  CacheInv'
<1>1. UNCHANGED <<now, cache, pipe, torn>>
  BY DEF FirstByte
<1>2. Paired' /\ \A t \in Token : Lasting(t)'
  BY <1>1 DEF CacheInv, Paired, Lasting, Awaited, Span
<1>3. [request[r] EXCEPT !.at = "receiving"].at # "admitted" /\ Done.at # "admitted"
  <2>1. request[r] \in Request /\ request[r].at = "asking"
    BY DEF FirstByte, TypeInv, TypeOK
  <2>. QED
    BY <2>1 DEF Request, Idle, Done
<1>4. \E q : q.at # "admitted" /\ request' = [request EXCEPT ![r] = q]
  BY <1>3 DEF FirstByte
<1>5. CachedWithinTtl'
  BY <1>4, SameServed DEF CacheInv
<1>. QED
  BY <1>2, <1>5 DEF CacheInv

\* The authorization server answers.
LEMMA IntrospectCached ==
    ASSUME TypeInv, CacheInv, NEW r \in Req, Introspect(r)
    PROVE  CacheInv'
<1>1. UNCHANGED <<now, cache, pipe, torn>>
  BY DEF Introspect
<1>2. Paired' /\ \A t \in Token : Lasting(t)'
  BY <1>1 DEF CacheInv, Paired, Lasting, Awaited, Span
<1>3. \E q : q.at # "admitted" /\ request' = [request EXCEPT ![r] = q]
  BY DEF Introspect, Done
<1>4. CachedWithinTtl'
  BY <1>3, SameServed DEF CacheInv
<1>. QED
  BY <1>2, <1>4 DEF CacheInv

\* An answer is sent to be cached.
LEMMA StoreCached ==
    ASSUME TypeInv, CacheInv, NEW r \in Req, Store(r)
    PROVE  CacheInv'
<1>. DEFINE n == Len(pipe)  b == [exp |-> request[r].exp, at |-> now]  q == Checked(request[r], b, FALSE)
            x == [op |-> "set", token |-> request[r].token, body |-> b]
            y == [op |-> "expire", token |-> request[r].token, span |-> Span(b.exp)]
<1>1. /\ n \in Nat /\ Len(pipe') = n + 2 /\ pipe \in Seq(Command)
      /\ \A i \in 1..n : pipe'[i] = pipe[i]
      /\ pipe'[n + 1] = x /\ pipe'[n + 2] = y
  BY StorePipe, Zenon DEF TypeInv, TypeOK
<1>2. /\ x.op = "set" /\ x.body.at = now /\ y.op = "expire" /\ y.token = x.token
      /\ y.span = Span(x.body.exp)
  OBVIOUS
<1>3. UNCHANGED <<now, cache, torn>> /\ request' = [request EXCEPT ![r] = q]
  BY DEF Store
<1>4. q.at = "admitted" => q.cached = FALSE
  BY DEF Store, Checked, Done
<1>. HIDE DEF x, y, q
<1>5. Paired'
  <2>1. \A i \in 1..Len(pipe') : i \in 1..n \/ i = n + 1 \/ i = n + 2
    BY <1>1
  <2>2. ASSUME NEW i \in 1..Len(pipe'), pipe'[i].op = "set"
        PROVE  /\ i + 1 \in 1..Len(pipe') /\ pipe'[i].body.at = now
               /\ pipe'[i + 1].op = "expire" /\ pipe'[i + 1].token = pipe'[i].token
               /\ pipe'[i + 1].span = Span(pipe'[i].body.exp)
    <3>1. CASE i \in 1..n
      BY <1>1, <2>2, <3>1 DEF CacheInv, Paired
    <3>2. CASE i = n + 1
      BY <1>1, <1>2, <3>2
    <3>. QED
      BY <1>1, <1>2, <2>1, <2>2, <3>1, <3>2
  <2>3. ASSUME NEW i \in 2..Len(pipe'), pipe'[i].op = "expire" PROVE pipe'[i - 1].op = "set"
    <3>1. CASE i \in 1..n
      BY <1>1, <2>3, <3>1 DEF CacheInv, Paired
    <3>2. CASE i = n + 2
      BY <1>1, <1>2, <3>2
    <3>. QED
      BY <1>1, <1>2, <2>1, <2>3, <3>1, <3>2
  <2>. QED
    BY <1>3, <2>2, <2>3 DEF Paired, Span
<1>6. ASSUME NEW u \in Token PROVE Lasting(u)'
  <2>0. (pipe # <<>> <=> n > 0) /\ pipe' # <<>>
    BY <1>1
  <2>1. (Awaited(u) <=> Awaited(u)') /\ (Awaited(u) => pipe'[1] = pipe[1])
    <3>1. CASE n > 0
      BY <1>1, <2>0, <3>1 DEF Awaited
    <3>2. CASE n = 0
      BY <1>1, <1>2, <2>0, <3>2 DEF Awaited
    <3>. QED
      BY <1>1, <3>1, <3>2
  <2>. QED
    BY <1>3, <2>1, SameLasting DEF CacheInv
<1>7. CachedWithinTtl'
  BY <1>3, <1>4, SameServed DEF CacheInv
<1>. QED
  BY <1>5, <1>6, <1>7 DEF CacheInv

\* The process ends: what awaited its EXPIRE has lost it.
LEMMA StopCached ==
    ASSUME TypeInv, CacheInv, Stop, UNCHANGED now
    PROVE  CacheInv'
<1>1. pipe' = <<>> /\ cache' = cache /\ pipe \in Seq(Command)
  BY DEF Stop, TypeInv, TypeOK
<1>2. Paired'
  BY <1>1 DEF Paired
<1>3. ASSUME NEW t \in Token PROVE Lasting(t)'
  <2>1. torn \subseteq torn'
    BY DEF Stop
  <2>2. Awaited(t) => t \in torn'
    <3>1. Awaited(t) => 1 \in DOMAIN pipe /\ pipe[1].op = "expire" /\ pipe[1].token = t
      BY <1>1 DEF Awaited
    <3>2. \A j \in 1..(1 - 1) : pipe[j].op = "set" => pipe[j].token # t
      OBVIOUS
    <3>. QED
      BY <3>1, <3>2 DEF Stop
  <2>3. Lasting(t)
    BY DEF CacheInv
  <2>. QED
    BY <1>1, <2>1, <2>2, <2>3 DEF Lasting, Awaited
<1>4. CachedWithinTtl'
  <2>1. \A r \in Req : request'[r] = request[r] \/ request'[r] = Done
    BY DEF Stop
  <2>. QED
    BY <2>1 DEF CacheInv, CachedWithinTtl, Done
<1>. QED
  BY <1>2, <1>3, <1>4 DEF CacheInv

\* What is left on its way when one command has been executed.
LEMMA PairedLeft ==
    ASSUME TypeInv, CacheInv, pipe # <<>>, pipe' = Tail(pipe), UNCHANGED now
    PROVE  /\ Paired'
           /\ pipe' # <<>> /\ pipe'[1].op = "expire" => pipe[1].op = "set"
           /\ pipe[1].op = "set" => /\ pipe' # <<>> /\ pipe'[1].op = "expire" /\ pipe'[1].token = pipe[1].token
                                    /\ pipe'[1].span = Span(pipe[1].body.exp) /\ pipe[1].body.at = now
<1>1. /\ Len(pipe) \in Nat /\ Len(pipe) > 0 /\ Len(pipe') = Len(pipe) - 1 /\ pipe' \in Seq(Command)
      /\ \A i \in 1..Len(pipe') : i + 1 \in 2..Len(pipe) /\ pipe'[i] = pipe[i + 1]
  BY HeadTyped DEF TypeInv
<1>2. pipe' # <<>> <=> Len(pipe') > 0
  BY <1>1, NonEmpty
<1>3. ASSUME NEW i \in 1..Len(pipe'), pipe'[i].op = "set"
      PROVE  /\ i + 1 \in 1..Len(pipe') /\ pipe'[i].body.at = now
             /\ pipe'[i + 1].op = "expire" /\ pipe'[i + 1].token = pipe'[i].token
             /\ pipe'[i + 1].span = Span(pipe'[i].body.exp)
  <2>1. i + 1 \in 1..Len(pipe) /\ pipe'[i] = pipe[i + 1]
    BY <1>1
  <2>2. /\ (i + 1) + 1 \in 1..Len(pipe) /\ pipe[i + 1].body.at = now
        /\ pipe[(i + 1) + 1].op = "expire" /\ pipe[(i + 1) + 1].token = pipe[i + 1].token
        /\ pipe[(i + 1) + 1].span = Span(pipe[i + 1].body.exp)
    BY <1>3, <2>1 DEF CacheInv, Paired
  <2>3. i + 1 \in 1..Len(pipe') /\ pipe'[i + 1] = pipe[(i + 1) + 1]
    BY <1>1, <2>2
  <2>. QED
    BY <2>1, <2>2, <2>3
<1>4. ASSUME NEW i \in 2..Len(pipe'), pipe'[i].op = "expire" PROVE pipe'[i - 1].op = "set"
  <2>1. i + 1 \in 2..Len(pipe) /\ pipe'[i] = pipe[i + 1] /\ i - 1 \in 1..Len(pipe') /\ (i - 1) + 1 = i
    BY <1>1
  <2>2. pipe[(i + 1) - 1].op = "set" /\ (i + 1) - 1 = i
    BY <1>4, <2>1 DEF CacheInv, Paired
  <2>. QED
    BY <1>1, <2>1, <2>2
<1>5. Paired'
  BY <1>3, <1>4 DEF Paired, Span
<1>6. pipe' # <<>> /\ pipe'[1].op = "expire" => pipe[1].op = "set"
  <2>. SUFFICES ASSUME pipe' # <<>>, pipe'[1].op = "expire" PROVE pipe[1].op = "set"
    OBVIOUS
  <2>1. 2 \in 2..Len(pipe) /\ pipe'[1] = pipe[2]
    BY <1>1, <1>2
  <2>2. pipe[2 - 1].op = "set"
    BY <2>1 DEF CacheInv, Paired
  <2>. QED
    BY <2>2
<1>7. ASSUME pipe[1].op = "set"
      PROVE  /\ pipe' # <<>> /\ pipe'[1].op = "expire" /\ pipe'[1].token = pipe[1].token
             /\ pipe'[1].span = Span(pipe[1].body.exp) /\ pipe[1].body.at = now
  <2>1. /\ 1 + 1 \in 1..Len(pipe) /\ pipe[1].body.at = now
        /\ pipe[1 + 1].op = "expire" /\ pipe[1 + 1].token = pipe[1].token
        /\ pipe[1 + 1].span = Span(pipe[1].body.exp)
    BY <1>1, <1>7 DEF CacheInv, Paired
  <2>2. pipe' # <<>> /\ pipe'[1] = pipe[1 + 1]
    BY <1>1, <1>2, <2>1
  <2>. QED
    BY <2>1, <2>2
<1>. QED
  BY <1>5, <1>6, <1>7

\* A look-up is executed: what it finds is good, and what it decides on is within bounds.
LEMMA GetCached ==
    ASSUME TypeInv, CacheInv, pipe # <<>>, pipe[1].op = "get", Get(pipe[1]), pipe' = Tail(pipe), UNCHANGED now
    PROVE  CacheInv'
<1>. DEFINE c == pipe[1]  q == request[c.req]  e == cache[q.token]
            z == IF e = None THEN [q EXCEPT !.at = "asking"] ELSE Checked(q, e.body, TRUE)
<1>1. c.req \in Req /\ q \in Request /\ q.at = "looking" /\ q.token \in Token
  <2>1. 1 \in 1..Len(pipe) /\ c \in Command
    BY HeadTyped DEF TypeInv
  <2>2. c.req \in Req /\ q \in Request /\ q.at = "looking"
    BY <2>1, CommandTyped DEF TypeInv, TypeOK, LookUps
  <2>. QED
    BY <2>2, RequestTyped
<1>2. UNCHANGED <<cache, torn>> /\ request' = [request EXCEPT ![c.req] = z]
  BY DEF Get
<1>3. \A t \in Token : ~Awaited(t) /\ ~Awaited(t)'
  BY PairedLeft DEF Awaited
<1>4. \A t \in Token : Lasting(t)'
  BY <1>2, <1>3, SameLasting DEF CacheInv
<1>5. CASE e = None
  <2>1. z.at = "asking"
    <3>1. z = [q EXCEPT !.at = "asking"]
      BY <1>5
    <3>. QED
      BY <1>1, <3>1 DEF Request, Idle, Done
  <2>. HIDE DEF z
  <2>2. CachedWithinTtl'
    BY <1>1, <1>2, <2>1, SameServed DEF CacheInv
  <2>. QED
    BY <1>4, <2>2, PairedLeft DEF CacheInv
<1>6. CASE e # None
  <2>1. now \in Int /\ e.body.at \in Int /\ (e.until = Forever \/ e.until \in Int)
        /\ (e.body.exp = None \/ e.body.exp \in Int)
    BY <1>1, <1>6, IntrospectionAssumption DEF TypeInv, TypeOK, Entry, Body, Time
  <2>2. q.token \notin torn => /\ now < e.body.at + TTL
                               /\ e.body.exp # None => now < e.body.exp
    <3>1. /\ e.until = Forever => q.token \in torn
          /\ e.until # Forever => /\ now < e.until /\ e.until <= e.body.at + TTL
                                  /\ e.body.exp # None => e.until <= e.body.exp
      BY <1>1, <1>3, <1>6 DEF CacheInv, Lasting
    <3>2. TTL \in Int
      BY IntrospectionAssumption
    <3>. HIDE DEF e, q
    <3>. QED
      BY <2>1, <3>1, <3>2
  <2>3. z = IF q.covers THEN [at |-> "admitted", body |-> e.body, cached |-> TRUE,
                              torn |-> TRUE /\ q.token \in torn, time |-> now] ELSE Done
    BY <1>6 DEF Checked
  <2>. HIDE DEF z
  <2>4. z.at = "admitted" /\ ~z.torn => /\ z.time < z.body.at + TTL
                                        /\ z.body.exp # None => z.time < z.body.exp
    <3>1. CASE q.covers
      <4>1. z.time = now /\ z.body = e.body /\ (z.torn <=> q.token \in torn)
        BY <2>3, <3>1
      <4>. QED
        BY <2>2, <4>1
    <3>2. CASE ~q.covers
      BY <2>3, <3>2 DEF Done
    <3>. QED
      BY <3>1, <3>2
  <2>5. CachedWithinTtl'
    BY <1>1, <1>2, <2>4 DEF CacheInv, CachedWithinTtl, TypeInv, TypeOK
  <2>. QED
    BY <1>4, <2>5, PairedLeft DEF CacheInv
<1>. QED
  BY <1>5, <1>6

\* A SET is executed: its EXPIRE is next.
LEMMA SetCached ==
    ASSUME TypeInv, CacheInv, pipe # <<>>, pipe[1].op = "set", Set(pipe[1]), pipe' = Tail(pipe), UNCHANGED now
    PROVE  CacheInv'
<1>. DEFINE c == pipe[1]  e == [body |-> c.body, until |-> Forever]
<1>1. c.token \in Token /\ UNCHANGED request
  BY HeadTyped, CommandTyped DEF TypeInv, Set
<1>2. cache' = [cache EXCEPT ![c.token] = e] /\ torn' = torn \ {c.token}
  BY DEF Set
<1>3. /\ Paired' /\ pipe' # <<>> /\ pipe'[1].op = "expire" /\ pipe'[1].token = c.token
      /\ pipe'[1].span = Span(c.body.exp) /\ c.body.at = now
  BY PairedLeft
<1>4. ASSUME NEW t \in Token PROVE Lasting(t)'
  <2>1. CASE t = c.token
    <3>1. cache'[t] = e /\ Awaited(t)'
      BY <1>2, <1>3, <2>1 DEF Awaited, TypeInv, TypeOK
    <3>. QED
      BY <1>3, <3>1 DEF Lasting, Span
  <2>2. CASE t # c.token
    <3>1. cache'[t] = cache[t] /\ ~Awaited(t) /\ ~Awaited(t)' /\ (t \in torn <=> t \in torn')
      BY <1>2, <1>3, <2>2 DEF Awaited, TypeInv, TypeOK
    <3>. QED
      BY <3>1 DEF CacheInv, Lasting
  <2>. QED
    BY <2>1, <2>2
<1>5. CachedWithinTtl'
  BY <1>1 DEF CacheInv, CachedWithinTtl
<1>. QED
  BY <1>3, <1>4, <1>5 DEF CacheInv

\* An EXPIRE is executed: the entry lasts as long as it may.
LEMMA ExpireCached ==
    ASSUME TypeInv, CacheInv, pipe # <<>>, pipe[1].op = "expire", Expire(pipe[1]), pipe' = Tail(pipe), UNCHANGED now
    PROVE  CacheInv'
<1>. DEFINE c == pipe[1]
<1>1. c.token \in Token /\ c.span \in Int /\ now \in Int /\ UNCHANGED <<request, torn>>
  BY HeadTyped, CommandTyped, IntrospectionAssumption DEF TypeInv, TypeOK, Time, Expire
<1>2. cache' = [cache EXCEPT ![c.token] = IF @ = None \/ c.span <= 0 THEN None ELSE [@ EXCEPT !.until = now + c.span]]
  BY DEF Expire
<1>3. Paired' /\ \A t \in Token : ~Awaited(t)'
  BY PairedLeft DEF Awaited
<1>4. ASSUME NEW t \in Token PROVE Lasting(t)'
  <2>1. CASE t # c.token
    <3>1. cache'[t] = cache[t] /\ ~Awaited(t)
      BY <1>2, <2>1 DEF Awaited, TypeInv, TypeOK
    <3>. QED
      BY <1>1, <1>3, <3>1 DEF CacheInv, Lasting
  <2>2. CASE t = c.token /\ cache[t] # None /\ c.span > 0
    <3>. DEFINE e == cache[t]
    <3>1. cache'[t] = [e EXCEPT !.until = now + c.span] /\ e \in Entry
      BY <1>1, <1>2, <2>2 DEF TypeInv, TypeOK
    <3>2. cache'[t].until = now + c.span /\ cache'[t].body = e.body
      BY <3>1 DEF Entry
    <3>3. e.body.at = now /\ c.span = Span(e.body.exp)
      BY <2>2 DEF CacheInv, Lasting, Awaited
    <3>4. e.body.exp = None \/ e.body.exp \in Int
      BY <3>1, IntrospectionAssumption DEF Entry, Body
    <3>5. c.span <= TTL /\ (e.body.exp # None => now + c.span <= e.body.exp)
      BY <1>1, <3>3, <3>4, IntrospectionAssumption DEF Span
    <3>6. now < now + c.span /\ now + c.span <= e.body.at + TTL /\ now + c.span # Forever
      BY <1>1, <2>2, <3>3, <3>5, IntrospectionAssumption
    <3>. QED
      BY <1>1, <1>3, <3>2, <3>5, <3>6 DEF Lasting
  <2>3. CASE t = c.token /\ (cache[t] = None \/ c.span <= 0)
    <3>1. cache'[t] = None
      BY <1>2, <2>3 DEF TypeInv, TypeOK
    <3>. QED
      BY <3>1 DEF Lasting
  <2>. QED
    BY <1>1, <2>1, <2>2, <2>3
<1>5. CachedWithinTtl'
  BY <1>1 DEF CacheInv, CachedWithinTtl
<1>. QED
  BY <1>3, <1>4, <1>5 DEF CacheInv

\* Time passes, when nothing is on its way.
LEMMA TickCached ==
    ASSUME TypeInv, CacheInv, Tick
    PROVE  CacheInv'
<1>1. /\ now \in Int /\ now' = now + 1 /\ pipe = <<>> /\ UNCHANGED <<pipe, request, torn>>
  BY IntrospectionAssumption DEF Tick, TypeInv, TypeOK, Time
<1>2. Paired' /\ \A t \in Token : ~Awaited(t) /\ ~Awaited(t)'
  BY <1>1 DEF Paired, Awaited
<1>3. ASSUME NEW t \in Token PROVE Lasting(t)'
  <2>1. cache'[t] = IF cache[t] # None /\ cache[t].until # Forever /\ cache[t].until <= now' THEN None ELSE cache[t]
    BY DEF Tick
  <2>2. cache[t] # None /\ cache[t].until # Forever => cache[t].until \in Int
    BY DEF TypeInv, TypeOK, Entry
  <2>. QED
    BY <1>1, <1>2, <2>1, <2>2 DEF CacheInv, Lasting
<1>4. CachedWithinTtl'
  BY <1>1 DEF CacheInv, CachedWithinTtl
<1>. QED
  BY <1>2, <1>3, <1>4 DEF CacheInv

\* No step lets an entry last too long, or serves one that has.
LEMMA NextCached == TypeInv /\ CacheInv /\ [Next]_vars => CacheInv'
<1>. SUFFICES ASSUME TypeInv, CacheInv, [Next]_vars PROVE CacheInv'
  OBVIOUS
<1>1. CASE UNCHANGED vars
  BY <1>1 DEF CacheInv, Paired, Lasting, Awaited, CachedWithinTtl, Span, vars
<1>2. CASE Exec
  <2>1. Head(pipe) = pipe[1] /\ UNCHANGED now /\ pipe # <<>>
    BY <1>2, HeadTyped DEF Exec, TypeInv
  <2>. QED
    BY <1>2, <2>1, StopCached, GetCached, SetCached, ExpireCached DEF Exec
<1>3. CASE Crash
  BY <1>3, StopCached DEF Crash
<1>. QED
  BY <1>1, <1>2, <1>3, ArriveCached, FirstByteCached, IntrospectCached, StoreCached, TickCached DEF Next, Own

\* A request is admitted from the cache only within the ttl of the answer it rests on and before
\* the token expires, unless the process ended between SET and EXPIRE.
THEOREM AdmittedWithinTtl == Spec => []CachedWithinTtl
<1>1. Init => CacheInv
  BY DEF Init, CacheInv, Paired, Lasting, CachedWithinTtl, Idle
<1>2. CacheInv => CachedWithinTtl
  BY DEF CacheInv
<1>. QED
  BY <1>1, <1>2, NextCached, TypeAlways, PTL DEF Spec
=============================================================================
