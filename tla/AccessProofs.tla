---------------------------- MODULE AccessProofs ----------------------------
(* Theorems about Access, for every value of its constants.                 *)
EXTENDS Access, TLAPS

-----------------------------------------------------------------------------
(* Types.                                                                   *)

\* What the kind of a request says of the rest of it.
Shaped(q) ==
    /\ q \in InFlight /\ q.at # 0
    /\ q.kind # "bearer" => q.client \in Consumer
    /\ q.kind \in {"bearer", "refreshToken", "code"} \cup Decision => q.doc \in Id /\ q.is \in Fields
    /\ q.user # None => q.kind \in {"password", "authorize"} \cup Decision
    /\ q.doc # None => q.kind \in {"bearer", "refreshToken", "code"} \cup Decision
    /\ q.kind \in {"jwt", "login"} => q.scopes = {}

AllShaped == \A r \in Req : Busy(r) => Shaped(request[r])

\* What a request saves is well formed.
LEMMA FieldsTyped ==
    ASSUME NEW q, Shaped(q), Granting(q)
    PROVE  FieldsOf(q) \in Fields
<1>. DEFINE base == [consumer |-> q.client, user |-> None, via |-> None, scopes |-> q.scopes,
                     authType |-> TRUE, redirectUri |-> FALSE]
<1>1. /\ q.client \in Consumer \cup {None} /\ q.user \in Consumer \cup {None}
      /\ q.scopes \in SUBSET Scope
      /\ q.kind # "bearer" => q.client \in Consumer
      /\ q.kind \in {"refreshToken", "code"} => q.is \in Fields
  BY DEF Shaped, InFlight
<1>2. q.kind # "bearer" => base \in Fields
  BY <1>1 DEF Fields
<1>3. q.kind = "clientCredentials" => FieldsOf(q) = base
  BY DEF FieldsOf
<1>4. q.kind = "password" => FieldsOf(q) \in Fields
  BY <1>1 DEF FieldsOf, Fields
<1>5. q.kind = "refreshToken" => FieldsOf(q) = q.is
  BY DEF FieldsOf
<1>6. q.kind = "code" => FieldsOf(q) \in Fields
  BY <1>1 DEF FieldsOf, Fields
<1>7. q.kind \in {"authorize", "decideCode"} => FieldsOf(q) \in Fields
  BY <1>1 DEF FieldsOf, Fields
<1>8. q.kind = "decideToken" => FieldsOf(q) \in Fields
  BY <1>1 DEF FieldsOf, Fields
<1>. QED
  BY <1>1, <1>2, <1>3, <1>4, <1>5, <1>6, <1>7, <1>8 DEF Granting, Exchange, Decision

\* Only requests for documents make any.
LEMMA MakesTyped ==
    ASSUME NEW q, Makes(q) # {}
    PROVE  Granting(q) /\ Makes(q) \subseteq DocType
  BY DEF Makes, Granting, Exchange, Decision, DocType

\* As a request begins; what it brings is what the store has.
Fresh(q) ==
    /\ Shaped(q) /\ q.at = 1 /\ q.refused = FALSE
    /\ q.kind \in {"refreshToken", "code"} \cup Decision =>
         doc[q.doc] # None /\ q.is = doc[q.doc].is
    /\ q.kind \in Decision => q.client = q.is.consumer /\ q.scopes = q.is.scopes

\* The requests that arrive are well formed.
LEMMA ArrivalsShaped ==
    ASSUME TypeOK, NEW r \in Req, Arrive(r)
    PROVE  \E q : Enter(r, q) /\ Fresh(q)
<1>. USE AccessAssumption
<1>1. ASSUME NEW kind \in Kinds PROVE As(kind) \in InFlight
  BY DEF As, InFlight
<1>2. ASSUME NEW kind \in Kinds, NEW k \in Id, doc[k] # None
      PROVE  Bring(kind, k) \in InFlight /\ doc[k].is \in Fields
  BY <1>2 DEF Bring, As, InFlight, TypeOK, Doc
<1>3. CASE Present(r)
  <2>1. PICK kind \in {"basic", "plain", "key", "jwt", "login", "clientCredentials"},
             c \in Client \cup User, b \in BOOLEAN, s \in SUBSET Scope :
               /\ kind \in {"jwt", "login"} => s = {}
               /\ Enter(r, [As(kind) EXCEPT !.client = c, !.right = b, !.scopes = s])
    BY <1>3 DEF Present
  <2>. DEFINE q == [As(kind) EXCEPT !.client = c, !.right = b, !.scopes = s]
  <2>2. q.kind = kind
    BY DEF As
  <2>3. kind \in Kinds
    BY <2>1, <2>2 DEF Enter
  <2>6. q \in InFlight
    BY <2>1, <2>3 DEF As, InFlight
  <2>7. Fresh(q)
    BY <2>6, <2>1, <2>3 DEF Fresh, Shaped, As, InFlight, Decision
  <2>8. Enter(r, q)
    BY <2>1
  <2>. HIDE DEF q
  <2>. QED
    BY <2>7, <2>8
<1>4. CASE Bear(r)
  <2>1. PICK k \in DocsOf("access_token"), b \in BOOLEAN, s \in SUBSET Scope :
               Enter(r, [Bring("bearer", k) EXCEPT !.right = b, !.scopes = s])
    BY <1>4 DEF Bear
  <2>. DEFINE q == [Bring("bearer", k) EXCEPT !.right = b, !.scopes = s]
  <2>2. q.kind = "bearer"
    BY DEF Bring, As
  <2>3. "bearer" \in Kinds
    BY <2>1, <2>2 DEF Enter
  <2>4. k \in Id /\ doc[k].is \in Fields
    BY <1>2, <2>3 DEF DocsOf
  <2>6. q \in InFlight
    BY <2>3, <2>4 DEF Bring, As, InFlight
  <2>7. Fresh(q)
    BY <2>6, <2>3, <2>4 DEF Fresh, Shaped, Bring, As, InFlight, Decision
  <2>8. Enter(r, q)
    BY <2>1
  <2>. HIDE DEF q
  <2>. QED
    BY <2>7, <2>8
<1>5. CASE Password(r)
  <2>1. PICK c \in Client, u \in User, s \in SUBSET Scope :
               Enter(r, [As("password") EXCEPT !.client = c, !.user = u, !.scopes = s])
    BY <1>5 DEF Password
  <2>. DEFINE q == [As("password") EXCEPT !.client = c, !.user = u, !.scopes = s]
  <2>2. q.kind = "password"
    BY DEF As
  <2>3. "password" \in Kinds
    BY <2>1, <2>2 DEF Enter
  <2>6. q \in InFlight
    BY <2>3 DEF As, InFlight
  <2>7. Fresh(q)
    BY <2>6, <2>3 DEF Fresh, Shaped, As, InFlight, Decision
  <2>8. Enter(r, q)
    BY <2>1
  <2>. HIDE DEF q
  <2>. QED
    BY <2>7, <2>8
<1>6. CASE Redeem(r)
  <2>1. PICK kind \in {"refreshToken", "code"}, k \in Id, c \in Client, b \in BOOLEAN :
               /\ doc[k] # None
               /\ Enter(r, [Bring(kind, k) EXCEPT !.client = c, !.right = b])
    BY <1>6 DEF Redeem, DocsOf
  <2>. DEFINE q == [Bring(kind, k) EXCEPT !.client = c, !.right = b]
  <2>2. q.kind = kind
    BY DEF Bring, As
  <2>3. kind \in Kinds
    BY <2>1, <2>2 DEF Enter
  <2>4. doc[k].is \in Fields
    BY <1>2, <2>1, <2>3
  <2>6. q \in InFlight
    BY <2>3, <2>4 DEF Bring, As, InFlight
  <2>7. Fresh(q)
    BY <2>6, <2>1, <2>3, <2>4 DEF Fresh, Shaped, Bring, As, InFlight, Decision
  <2>8. Enter(r, q)
    BY <2>1
  <2>. HIDE DEF q
  <2>. QED
    BY <2>7, <2>8
<1>7. CASE Authorize(r)
  <2>1. PICK c \in Client, u \in User, b \in BOOLEAN, s \in SUBSET Scope :
               Enter(r, [As("authorize") EXCEPT !.client = c, !.user = u, !.right = b, !.scopes = s])
    BY <1>7 DEF Authorize
  <2>. DEFINE q == [As("authorize") EXCEPT !.client = c, !.user = u, !.right = b, !.scopes = s]
  <2>2. q.kind = "authorize"
    BY DEF As
  <2>3. "authorize" \in Kinds
    BY <2>1, <2>2 DEF Enter
  <2>6. q \in InFlight
    BY <2>3 DEF As, InFlight
  <2>7. Fresh(q)
    BY <2>6, <2>3 DEF Fresh, Shaped, As, InFlight, Decision
  <2>8. Enter(r, q)
    BY <2>1
  <2>. HIDE DEF q
  <2>. QED
    BY <2>7, <2>8
<1>8. CASE Decide(r)
  <2>1. PICK kind \in Decision, k \in Id :
               /\ doc[k] # None
               /\ Enter(r, [Bring(kind, k) EXCEPT !.client = doc[k].is.consumer,
                              !.user = doc[k].is.user, !.scopes = doc[k].is.scopes])
    BY <1>8 DEF Decide, DocsOf
  <2>. DEFINE q == [Bring(kind, k) EXCEPT !.client = doc[k].is.consumer,
                              !.user = doc[k].is.user, !.scopes = doc[k].is.scopes]
  <2>2. q.kind = kind
    BY DEF Bring, As
  <2>3. kind \in Kinds
    BY <2>1, <2>2 DEF Enter
  <2>4. doc[k].is \in Fields
    BY <1>2, <2>1, <2>3
  <2>5. /\ doc[k].is.consumer \in Consumer
        /\ doc[k].is.user \in Consumer \cup {None}
        /\ doc[k].is.scopes \in SUBSET Scope
    BY <2>4 DEF Fields
  <2>6. q \in InFlight
    BY <2>3, <2>4, <2>5 DEF Bring, As, InFlight
  <2>7. Fresh(q)
    BY <2>6, <2>1, <2>3, <2>4, <2>5 DEF Fresh, Shaped, Bring, As, InFlight, Decision
  <2>8. Enter(r, q)
    BY <2>1
  <2>. HIDE DEF q
  <2>. QED
    BY <2>7, <2>8
<1>. QED
  BY <1>3, <1>4, <1>5, <1>6, <1>7, <1>8 DEF Arrive

\* Typing is inductive.
TypeInv == TypeOK /\ AllShaped

\* A change of the stores leaves the requests as they are.
LEMMA ChangesTyped ==
    ASSUME TypeInv, Change, active' \subseteq Consumer, doc' \in [Id -> {None} \cup Doc],
           credential' \in [Registered -> {None} \cup Credential], granted' \in [Consumer -> SUBSET Scope]
    PROVE  TypeInv'
<1>1. changes' \in 0..MaxChanges
  BY AccessAssumption DEF TypeInv, TypeOK, Change
<1>2. request' = request
  BY DEF Change
<1>. QED
  BY <1>1, <1>2 DEF TypeInv, TypeOK, AllShaped, Busy

\* Nothing of a request but its position and refused changes as it goes on.
LEMMA ForthTyped ==
    ASSUME TypeInv, NEW r \in Req, Busy(r), NEW b \in BOOLEAN, NEW x,
           x = [request[r] EXCEPT !.at = @ + 1, !.refused = b]
    PROVE  Shaped(x) /\ x \in InFlight
<1>1. Shaped(request[r]) /\ request[r] \in InFlight
  BY DEF TypeInv, AllShaped, Shaped
<1>. DEFINE q == request[r]
<1>2. q \in InFlight /\ Shaped(q) /\ x = [q EXCEPT !.at = @ + 1, !.refused = b]
  BY <1>1
<1>. HIDE DEF q
<1>3. q.at \in Nat /\ q.at + 1 \in Nat /\ q.at + 1 # 0
  BY <1>2 DEF InFlight
<1>4. x.at = q.at + 1
  BY <1>2 DEF InFlight
<1>5. x \in InFlight
  BY <1>2, <1>3 DEF InFlight
<1>. QED
  BY <1>2, <1>3, <1>4, <1>5 DEF Shaped, InFlight

\* Every step preserves it.
LEMMA TypeInvInductive ==
    ASSUME TypeInv, [Next]_vars
    PROVE  TypeInv'
<1>. USE AccessAssumption DEF TypeInv
<1>1. CASE UNCHANGED vars
  BY <1>1 DEF vars, TypeOK, AllShaped, Busy
<1>2. ASSUME NEW r \in Req, Arrive(r) PROVE TypeInv'
  <2>1. PICK q : Enter(r, q) /\ Shaped(q)
    BY <1>2, ArrivalsShaped DEF Fresh
  <2>2. request' = [request EXCEPT ![r] = q]
    BY <2>1 DEF Enter
  <2>3. TypeOK'
    BY <2>1, <2>2 DEF Enter, Shaped, TypeOK
  <2>4. AllShaped'
    BY <2>1, <2>2 DEF AllShaped, Busy, TypeOK
  <2>. QED
    BY <2>3, <2>4
<1>3. ASSUME NEW r \in Req, Settle(r), UNCHANGED <<active, credential, doc, changes, granted>> PROVE TypeInv'
  <2>1. request' = [request EXCEPT ![r] = Idle]
    BY <1>3 DEF Settle
  <2>2. TypeOK'
    BY <1>3, <2>1 DEF TypeOK
  <2>3. AllShaped'
    BY <2>1 DEF AllShaped, Busy, TypeOK
  <2>. QED
    BY <2>2, <2>3
<1>4. ASSUME NEW r \in Req, Advance(r) PROVE TypeInv'
  <2>1. Busy(r) /\ request[r].refused = FALSE
    BY <1>4 DEF Advance, Pending, Passes, AllShaped, Shaped, InFlight
  <2>. DEFINE x == [request[r] EXCEPT !.at = @ + 1]
  <2>2. Shaped(request[r])
    BY <2>1 DEF AllShaped
  <2>3. x = [request[r] EXCEPT !.at = @ + 1, !.refused = FALSE]
    BY <2>1, <2>2 DEF Shaped, InFlight
  <2>4. Shaped(x) /\ x \in InFlight
    BY <2>1, <2>3, ForthTyped
  <2>5. request' = [request EXCEPT ![r] = x]
    BY <1>4 DEF Advance
  <2>. HIDE DEF x
  <2>6. doc' \in [Id -> {None} \cup Doc]
    BY <1>4 DEF Advance, TypeOK
  <2>7. TypeOK'
    BY <1>4, <2>4, <2>5, <2>6 DEF Advance, TypeOK
  <2>8. AllShaped'
    BY <2>4, <2>5 DEF AllShaped, Busy, TypeOK
  <2>. QED
    BY <2>7, <2>8
<1>5. ASSUME NEW r \in Req, Refuse(r) PROVE TypeInv'
  <2>1. Busy(r)
    BY <1>5 DEF Refuse, Pending
  <2>. DEFINE x == [request[r] EXCEPT !.at = @ + 1, !.refused = TRUE]
  <2>2. Shaped(x) /\ x \in InFlight
    BY <2>1, ForthTyped
  <2>3. CASE Settle(r)
    BY <1>3, <1>5, <2>3 DEF Refuse
  <2>4. CASE request' = [request EXCEPT ![r] = x]
    <3>. HIDE DEF x
    <3>1. TypeOK'
      BY <1>5, <2>2, <2>4 DEF Refuse, TypeOK
    <3>2. AllShaped'
      BY <2>2, <2>4 DEF AllShaped, Busy, TypeOK
    <3>. QED
      BY <3>1, <3>2
  <2>. QED
    BY <1>5, <2>3, <2>4 DEF Refuse
<1>6. ASSUME NEW r \in Req, Finish(r) PROVE TypeInv'
  <2>. DEFINE q == request[r]  types == Makes(q)  place == Place(types)
  <2>1. Busy(r) /\ Shaped(q)
    BY <1>6 DEF Finish, AllShaped
  <2>2. request' = [request EXCEPT ![r] = Idle]
    BY <1>6 DEF Finish, Settle
  <2>3. ASSUME NEW ty \in types PROVE ty \in DocType /\ FieldsOf(q) \in Fields
    BY <2>1, MakesTyped, FieldsTyped
  <2>4. ASSUME NEW k \in Id, NEW ty \in types, place[ty] = k
        PROVE  [type |-> CHOOSE t \in types : place[t] = k, is |-> FieldsOf(q)] \in Doc
    <3>1. (CHOOSE t \in types : place[t] = k) \in types
      BY <2>4
    <3>. QED
      BY <3>1, <2>3 DEF Doc
  <2>5. doc' \in [Id -> {None} \cup Doc]
    BY <1>6, <2>4 DEF Finish, TypeOK
  <2>6. TypeOK'
    BY <1>6, <2>2, <2>5 DEF Finish, TypeOK
  <2>7. AllShaped'
    BY <2>2 DEF AllShaped, Busy, TypeOK
  <2>. QED
    BY <2>6, <2>7
<1>7. ASSUME NEW r \in Req, Reject(r) PROVE TypeInv'
  <2>1. CASE request[r].kind = "bearer"
    BY <1>7, <2>1 DEF Reject, TypeOK, AllShaped, Busy
  <2>2. CASE request[r].kind # "bearer"
    BY <1>3, <1>7, <2>2 DEF Reject
  <2>. QED
    BY <2>1, <2>2
<1>8. ASSUME NEW c \in Consumer, SetConsumer(c) PROVE TypeInv'
  BY <1>8, ChangesTyped DEF SetConsumer, TypeOK
<1>9. ASSUME NEW ct \in Registered, NEW v \in {None} \cup Credential, SetCredential(ct[1], ct[2], v)
      PROVE  TypeInv'
  <2>1. ct = <<ct[1], ct[2]>> /\ ct[1] \in Consumer
    OBVIOUS
  <2>2. credential' \in [Registered -> {None} \cup Credential]
    BY <1>9, <2>1 DEF SetCredential, TypeOK
  <2>3. granted' \in [Consumer -> SUBSET Scope]
    BY <1>9, <2>1 DEF SetCredential, TypeOK, Credential
  <2>. QED
    BY <1>9, <2>2, <2>3, ChangesTyped DEF SetCredential, TypeOK
<1>10. ASSUME NEW k \in Id, Expire(k) PROVE TypeInv'
  BY <1>10, ChangesTyped DEF Expire, TypeOK
<1>. QED
  BY <1>1, <1>2, <1>4, <1>5, <1>6, <1>7, <1>8, <1>9, <1>10 DEF Next, Step

\* It holds at first.
LEMMA InitTyped == Init => TypeInv
  BY AccessAssumption DEF Init, TypeInv, TypeOK, AllShaped, Busy, Credential

\* Every variable has its type in every reachable state.
THEOREM Typing == Spec => []TypeOK
<1>1. TypeInv => TypeOK
  BY DEF TypeInv
<1>. QED
  BY <1>1, InitTyped, TypeInvInductive, PTL DEF Spec

-----------------------------------------------------------------------------
(* Whoever is admitted was valid.                                           *)

\* When stage passes, x is valid.
Shows(q, stage, x) ==
    CASE stage = "client" -> x = <<"consumer", q.client>>
      [] stage = "secret" -> x = <<"credential", q.client, TypeFor(q)>>
      [] stage = "scopes" -> \E s \in q.scopes : x = <<"scope", q.client, TypeFor(q), s>>
      [] stage = "user" -> x = <<"consumer", q.user>>
      [] stage = "password" -> x = <<"credential", q.user, "basic-auth">>
      [] stage = "document" -> x = <<"document", q.doc>>
      [] stage = "owner" -> x = <<"consumer", q.is.consumer>>
      [] stage = "covered" -> FALSE
      [] stage = "behalf" -> x = <<"consumer", q.is.user>>

\* One of the look-ups that r has before it shows x.
ShownLater(q, x) == \E j \in q.at..Len(Plan[q.kind]) : Shows(q, Plan[q.kind][j], x)

\* What r rests on and has not been valid is not valid now, and has its look-up before
\* it, or r is refused and has not come to its end.
Resting(r) == Busy(r) =>
    /\ unmet[r] \subseteq Claims(request[r])
    /\ unmet[r] \cap Facts = {}
    /\ request[r].refused => request[r].at <= Len(Plan[request[r].kind])
    /\ ~request[r].refused => \A x \in unmet[r] : ShownLater(request[r], x)

\* Inductive.
AccessInv == TypeInv /\ DOMAIN unmet = Req /\ \A r \in Req : Resting(r)

\* The stages of each kind of request.
LEMMA Plans ==
    /\ Plan["basic"] = BasicPlan /\ Plan["plain"] = BasicPlan /\ Plan["key"] = KeyPlan
    /\ Plan["jwt"] = JwtPlan /\ Plan["login"] = LoginPlan /\ Plan["bearer"] = BearerPlan
    /\ Plan["clientCredentials"] = ClientCredentialsPlan /\ Plan["password"] = PasswordPlan
    /\ Plan["refreshToken"] = RefreshTokenPlan /\ Plan["code"] = CodePlan
    /\ Plan["authorize"] = AuthorizePlan
    /\ Plan["decideCode"] = DecidePlan /\ Plan["decideToken"] = DecidePlan
  BY DEF Plan

\* The kinds by name.
LEMMA Kinded ==
    ASSUME NEW kind \in Kind
    PROVE  kind \in {"basic", "plain", "key", "jwt", "login", "bearer", "clientCredentials", "password",
                     "refreshToken", "code", "authorize", "decideCode", "decideToken"}
  BY DEF Kind, Plan

\* Chains are finite.
LEMMA PlanLengths == \A kind \in Kind : Len(Plan[kind]) \in Nat
  BY Kinded, Plans DEF BasicPlan, KeyPlan, JwtPlan, LoginPlan, BearerPlan, ClientCredentialsPlan,
     PasswordPlan, RefreshTokenPlan, CodePlan, AuthorizePlan, DecidePlan

\* Requests of kind have a look-up of this stage.
HasStage(kind, stage) == \E j \in 1..Len(Plan[kind]) : Plan[kind][j] = stage

Stage == {"client", "secret", "scopes", "user", "password", "document", "owner", "covered", "behalf"}

\* A request with a client looks it up; and so on for what else it may rest on.
LEMMA HasStages ==
    ASSUME NEW kind \in Kind
    PROVE  /\ kind # "bearer" <=> HasStage(kind, "client")
           /\ kind \notin Decision \cup {"authorize", "bearer"} <=> HasStage(kind, "secret")
           /\ kind \notin Decision \cup {"jwt", "login", "bearer"} <=> HasStage(kind, "scopes")
           /\ kind \in Decision \cup {"authorize", "password"} <=> HasStage(kind, "user")
           /\ kind = "password" <=> HasStage(kind, "password")
           /\ kind \in Decision \cup {"bearer", "refreshToken", "code"} <=> HasStage(kind, "document")
           /\ kind = "bearer" <=> HasStage(kind, "owner")
           /\ kind = "bearer" <=> HasStage(kind, "behalf")
           /\ \A stage : HasStage(kind, stage) => stage \in Stage
<1>. USE DEF HasStage, Decision, Stage
<1>1. CASE kind \in {"basic", "plain"}
  <2>1. Plan[kind] = BasicPlan
    BY <1>1, Plans
  <2>. QED
    BY <1>1, <2>1 DEF BasicPlan
<1>2. CASE kind = "key"
  BY <1>2, Plans DEF KeyPlan
<1>3. CASE kind = "jwt"
  BY <1>3, Plans DEF JwtPlan
<1>4. CASE kind = "login"
  BY <1>4, Plans DEF LoginPlan
<1>5. CASE kind = "bearer"
  BY <1>5, Plans DEF BearerPlan
<1>6. CASE kind = "clientCredentials"
  BY <1>6, Plans DEF ClientCredentialsPlan
<1>7. CASE kind = "password"
  <2>. DEFINE p == PasswordPlan
  <2>1. /\ Len(p) = 7 /\ p[1] = "client" /\ p[2] = "secret" /\ p[3] = "scopes"
        /\ p[4] = "client" /\ p[5] = "user" /\ p[6] = "password" /\ p[7] = "scopes"
    BY DEF PasswordPlan
  <2>2. Plan[kind] = p
    BY <1>7, Plans
  <2>. HIDE DEF p
  <2>3. ASSUME NEW j \in 1..7 PROVE HasStage(kind, p[j])
    BY <2>1, <2>2
  <2>4. ASSUME NEW j \in 1..Len(Plan[kind])
        PROVE  Plan[kind][j] \in {"client", "secret", "scopes", "user", "password"}
    <3>1. j \in 1..7
      BY <2>1, <2>2
    <3>2. j \in {1, 2, 3, 4, 5, 6, 7}
      BY ONLY <3>1
    <3>. QED
      BY <2>1, <2>2, <3>2
  <2>5. HasStage(kind, "client") /\ HasStage(kind, "secret") /\ HasStage(kind, "scopes") /\ HasStage(kind, "user") /\ HasStage(kind, "password")
    BY ONLY <2>1, <2>3
  <2>. QED
    BY <1>7, <2>4, <2>5
<1>8. CASE kind = "refreshToken"
  BY <1>8, Plans DEF RefreshTokenPlan
<1>9. CASE kind = "code"
  BY <1>9, Plans DEF CodePlan
<1>10. CASE kind = "authorize"
  BY <1>10, Plans DEF AuthorizePlan
<1>11. CASE kind \in Decision
  <2>1. Plan[kind] = DecidePlan
    BY <1>11, Plans
  <2>. QED
    BY <1>11, <2>1 DEF DecidePlan
<1>12. kind \in {"basic", "plain"} \/ kind = "key" \/ kind = "jwt" \/ kind = "login" \/ kind = "bearer"
       \/ kind = "clientCredentials" \/ kind = "password" \/ kind = "refreshToken" \/ kind = "code"
       \/ kind = "authorize" \/ kind \in Decision
  BY Kinded
<1>. HIDE DEF HasStage, Decision, Stage
<1>. QED
  BY <1>1, <1>2, <1>3, <1>4, <1>5, <1>6, <1>7, <1>8, <1>9, <1>10, <1>11, <1>12

\* A look-up that passes shows what it is about.
LEMMA CheckShows ==
    ASSUME TypeOK, NEW q, Shaped(q), NEW j \in 1..Len(Plan[q.kind]), NEW x,
           x \in Claims(q), Check(q, Plan[q.kind][j]), Shows(q, Plan[q.kind][j], x)
    PROVE  x \in Facts
<1>. USE AccessAssumption
<1>. DEFINE stage == Plan[q.kind][j]
<1>1. q.kind \in Kind
  BY DEF Shaped, InFlight
<1>2. HasStage(q.kind, stage) /\ stage \in Stage
  BY <1>1, HasStages DEF HasStage
<1>3. Check(q, stage) /\ Shows(q, stage, x)
  OBVIOUS
<1>4. TypeFor(q) \in CredType
  BY DEF TypeFor, CredType
<1>5. ASSUME NEW c, NEW ty, Authentic(c, ty) PROVE <<"credential", c, ty>> \in Facts
  <2>1. <<c, ty>> \in Registered
    BY <1>5 DEF Authentic, CredentialOf
  <2>. DEFINE ct == <<c, ty>>
  <2>2. ct \in Registered /\ Authentic(ct[1], ct[2]) /\ <<"credential", ct[1], ct[2]>> = <<"credential", c, ty>>
    BY <1>5, <2>1
  <2>. HIDE DEF ct
  <2>. QED
    BY <2>2 DEF Facts
<1>6. ASSUME NEW c, NEW ty \in CredType, NEW s \in Scope, c \in Consumer,
             Authorized(c, ty, q.scopes), s \in q.scopes
      PROVE  <<"scope", c, ty, s>> \in Facts
  <2>. DEFINE y == <<c, ty, s>>
  <2>1. Authorized(c, ty, {s})
    BY <1>6 DEF Authorized
  <2>2. y \in Consumer \X CredType \X Scope /\ y[1] = c /\ y[2] = ty /\ y[3] = s
    BY <1>6
  <2>. HIDE DEF y
  <2>. QED
    BY <2>1, <2>2 DEF Facts
<1>. HIDE DEF stage
<1>7. CASE stage = "client"
  BY <1>3, <1>7 DEF Check, Shows, Valid, Facts
<1>8. CASE stage = "secret"
  BY <1>3, <1>5, <1>8 DEF Check, Shows
<1>9. CASE stage = "scopes"
  <2>1. PICK s \in q.scopes : x = <<"scope", q.client, TypeFor(q), s>>
    BY <1>3, <1>9 DEF Shows
  <2>2. Authorized(q.client, TypeFor(q), q.scopes)
    BY <1>3, <1>9 DEF Check
  <2>3. s \in Scope
    BY DEF Shaped, InFlight
  <2>4. q.client \in Consumer
    <3>1. q.kind # "bearer"
      BY <1>1, <1>2, <1>9, HasStages
    <3>. QED
      BY <3>1 DEF Shaped
  <2>. QED
    BY <1>4, <1>6, <2>1, <2>2, <2>3, <2>4
<1>10. CASE stage = "user"
  BY <1>3, <1>10 DEF Check, Shows, Valid, Facts
<1>11. CASE stage = "password"
  BY <1>3, <1>5, <1>11 DEF Check, Shows
<1>12. CASE stage = "document"
  <2>1. x = <<"document", q.doc>> /\ doc[q.doc] # None
    BY <1>3, <1>12 DEF Check, Shows, Found
  <2>2. q.doc \in Id
    <3>1. q.kind \in {"bearer", "refreshToken", "code"} \cup Decision
      BY <1>1, <1>2, <1>12, HasStages
    <3>. QED
      BY <3>1 DEF Shaped
  <2>. QED
    BY <2>1, <2>2 DEF Facts
<1>13. CASE stage = "owner"
  BY <1>3, <1>13 DEF Check, Shows, Valid, Facts
<1>14. CASE stage = "covered"
  BY <1>3, <1>14 DEF Shows
<1>15. CASE stage = "behalf"
  <2>1. x = <<"consumer", q.is.user>> /\ (q.is.user = None \/ q.is.user \in active)
    BY <1>3, <1>15 DEF Check, Shows, Valid
  <2>2. q.is.user # None
    <3>1. q.kind = "bearer"
      BY <1>1, <1>2, <1>15, HasStages
    <3>2. q.is.consumer \in Consumer
      BY <3>1 DEF Shaped, Fields
    <3>. QED
      BY <2>1, <3>1, <3>2 DEF Claims
  <2>. QED
    BY <2>1, <2>2 DEF Facts
<1>. QED
  BY <1>2, <1>7, <1>8, <1>9, <1>10, <1>11, <1>12, <1>13, <1>14, <1>15 DEF Stage

\* Everything a request claims has a look-up.
LEMMA ClaimsShown ==
    ASSUME NEW q, Shaped(q), q.at = 1, NEW x \in Claims(q)
    PROVE  ShownLater(q, x)
<1>. USE AccessAssumption
<1>1. q.kind \in Kind
  BY DEF Shaped, InFlight
<1>2. ASSUME NEW stage, HasStage(q.kind, stage), Shows(q, stage, x) PROVE ShownLater(q, x)
  BY <1>2 DEF HasStage, ShownLater
<1>3. CASE q.kind = "bearer"
  <2>1. HasStage(q.kind, "document") /\ HasStage(q.kind, "owner") /\ HasStage(q.kind, "behalf")
    BY <1>1, <1>3, HasStages
  <2>2. x = <<"document", q.doc>> \/ x = <<"consumer", q.is.consumer>> \/ x = <<"consumer", q.is.user>>
    BY <1>3 DEF Claims
  <2>. QED
    BY <1>2, <2>1, <2>2 DEF Shows
<1>4. CASE q.kind # "bearer"
  <2>1. CASE x = <<"consumer", q.client>>
    <3>1. HasStage(q.kind, "client")
      BY <1>1, <1>4, HasStages
    <3>. QED
      BY <1>2, <2>1, <3>1 DEF Shows
  <2>2. CASE q.user # None /\ x = <<"consumer", q.user>>
    <3>1. HasStage(q.kind, "user")
      BY <1>1, <2>2, HasStages DEF Shaped
    <3>. QED
      BY <1>2, <2>2, <3>1 DEF Shows
  <2>3. CASE q.doc # None /\ x = <<"document", q.doc>>
    <3>1. HasStage(q.kind, "document")
      BY <1>1, <2>3, HasStages DEF Shaped
    <3>. QED
      BY <1>2, <2>3, <3>1 DEF Shows
  <2>4. CASE q.kind \notin Decision \cup {"authorize"} /\ x = <<"credential", q.client, TypeFor(q)>>
    <3>1. HasStage(q.kind, "secret")
      BY <1>1, <1>4, <2>4, HasStages
    <3>. QED
      BY <1>2, <2>4, <3>1 DEF Shows
  <2>5. CASE q.kind = "password" /\ x = <<"credential", q.user, "basic-auth">>
    <3>1. HasStage(q.kind, "password")
      BY <1>1, <2>5, HasStages
    <3>. QED
      BY <1>2, <2>5, <3>1 DEF Shows
  <2>6. CASE q.kind \notin Decision /\ \E s \in q.scopes : x = <<"scope", q.client, TypeFor(q), s>>
    <3>1. HasStage(q.kind, "scopes")
      BY <1>1, <1>4, <2>6, HasStages DEF Shaped
    <3>. QED
      BY <1>2, <2>6, <3>1 DEF Shows
  <2>. QED
    BY <1>4, <2>1, <2>2, <2>3, <2>4, <2>5, <2>6 DEF Claims
<1>. QED
  BY <1>3, <1>4

\* A look-up changes neither the claims of a request nor what shows them.
LEMMA SameClaims ==
    ASSUME NEW q, NEW z, z.kind = q.kind, z.client = q.client, z.user = q.user,
           z.scopes = q.scopes, z.doc = q.doc, z.is = q.is
    PROVE  Claims(z) = Claims(q) /\ \A stage, x : Shows(q, stage, x) => Shows(z, stage, x)
<1>1. TypeFor(z) = TypeFor(q)
  BY DEF TypeFor
<1>2. Claims(z) = Claims(q)
  BY <1>1 DEF Claims
<1>3. ASSUME NEW stage, NEW x, Shows(q, stage, x) PROVE Shows(z, stage, x)
  BY <1>1, <1>3 DEF Shows
<1>. QED
  BY <1>2, <1>3

\* The request of another.
LEMMA StaysResting ==
    ASSUME NEW r \in Req, Resting(r), request'[r] = request[r],
           unmet'[r] \subseteq unmet[r], unmet'[r] \cap Facts' \subseteq Facts
    PROVE  Resting(r)'
  BY DEF Resting, Busy

\* A request that has ended rests on nothing.
LEMMA IdleResting ==
    ASSUME NEW r \in Req, request'[r] = Idle
    PROVE  Resting(r)'
  BY DEF Resting, Busy

\* Without a change nothing becomes valid but the documents that are made.
LEMMA FactsStay ==
    ASSUME TypeOK, UNCHANGED <<active, credential>>, NEW made \in SUBSET Id,
           \A k \in Id : doc'[k] # None => doc[k] # None \/ k \in made
    PROVE  Facts' \subseteq Facts \cup {<<"document", k>> : k \in made}
<1>1. \A c, ty : CredentialOf(c, ty)' = CredentialOf(c, ty)
  BY DEF CredentialOf
<1>2. \A c, ty : Authentic(c, ty)' <=> Authentic(c, ty)
  BY <1>1 DEF Authentic
<1>3. \A c, ty, ss : Authorized(c, ty, ss)' <=> Authorized(c, ty, ss)
  BY <1>1 DEF Authorized
<1>. QED
  BY <1>2, <1>3 DEF Facts

\* The request of a request that no new document is drawn for does not rest on one.
LEMMA FreeUnclaimed ==
    ASSUME TypeInv, NEW r \in Req, Busy(r), NEW k \in Free
    PROVE  <<"document", k>> \notin Claims(request[r])
<1>1. k \in Id /\ request[r].doc # k
  BY DEF Free
<1>. DEFINE q == request[r]
<1>2. q.kind = "bearer" => <<"document", k>> \notin Claims(q)
  BY <1>1 DEF Claims
<1>3. q.kind # "bearer" => <<"document", k>> \notin Claims(q)
  BY <1>1 DEF Claims
<1>. QED
  BY <1>2, <1>3

\* Every step preserves it: a look-up that passes shows that what it is about is valid.
LEMMA AccessInvInductive ==
    ASSUME AccessInv, [Next]_vars
    PROVE  AccessInv'
<1>. USE AccessAssumption DEF AccessInv
<1>1. TypeInv' /\ TypeInv /\ TypeOK
  BY TypeInvInductive DEF TypeInv
<1>2. ASSUME UNCHANGED <<active, credential>>, \A k \in Id : doc'[k] # None => doc[k] # None
      PROVE  Facts' \subseteq Facts
  <2>1. Facts' \subseteq Facts \cup {<<"document", k>> : k \in {}}
    BY <1>1, <1>2, FactsStay
  <2>. QED
    BY <2>1
<1>3. CASE UNCHANGED vars
  <2>1. Facts' \subseteq Facts
    BY <1>2, <1>3 DEF vars
  <2>2. \A r \in Req : Resting(r)'
    BY <1>3, <2>1, StaysResting DEF vars
  <2>. QED
    BY <1>1, <1>3, <2>2 DEF vars
<1>4. ASSUME NEW r \in Req, Arrive(r) PROVE AccessInv'
  <2>1. PICK q : Enter(r, q) /\ Fresh(q)
    BY <1>1, <1>4, ArrivalsShaped
  <2>2. /\ request' = [request EXCEPT ![r] = q]
        /\ unmet' = [unmet EXCEPT ![r] = Claims(q) \ Facts]
    BY <2>1 DEF Enter
  <2>3. Facts' \subseteq Facts
    BY <1>2, <2>1 DEF Enter
  <2>4. request'[r] = q /\ unmet'[r] = Claims(q) \ Facts
    BY <1>1, <2>2 DEF TypeOK
  <2>5. Resting(r)'
    BY <2>1, <2>3, <2>4, ClaimsShown DEF Resting, Fresh
  <2>6. ASSUME NEW o \in Req \ {r} PROVE Resting(o)'
    BY <1>1, <2>2, <2>3, StaysResting DEF TypeOK
  <2>. QED
    BY <1>1, <2>2, <2>5, <2>6
<1>5. ASSUME NEW r \in Req, Settle(r), UNCHANGED <<active, credential, doc>> PROVE AccessInv'
  <2>1. Facts' \subseteq Facts
    BY <1>2, <1>5
  <2>2. Resting(r)'
    BY <1>1, <1>5, IdleResting DEF Settle, TypeOK
  <2>3. ASSUME NEW o \in Req \ {r} PROVE Resting(o)'
    BY <1>1, <1>5, <2>1, StaysResting DEF Settle, TypeOK
  <2>. QED
    BY <1>1, <1>5, <2>2, <2>3 DEF Settle
<1>6. ASSUME NEW r \in Req, NEW b \in BOOLEAN, NEW z, Pending(r),
             z = [request[r] EXCEPT !.at = @ + 1, !.refused = b],
             request' = [request EXCEPT ![r] = z],
             unmet' = unmet, Facts' \subseteq Facts,
             b => request[r].at + 1 <= Len(Plan[request[r].kind]),
             ~b => ~request[r].refused /\ Check(request[r], Plan[request[r].kind][request[r].at])
      PROVE  AccessInv'
  <2>. DEFINE q == request[r]
              n == q.at + 1
  <2>1. Busy(r) /\ Shaped(q) /\ q.kind \in Kind /\ q.at \in Nat \ {0} /\ n \in Nat
    BY <1>1, <1>6 DEF Pending, TypeInv, AllShaped, Shaped, InFlight
  <2>2. request'[r] = z
    BY <1>1, <1>6 DEF TypeOK
  <2>3. /\ z.at = n /\ z.refused = b /\ z.kind = q.kind /\ Claims(z) = Claims(q)
        /\ \A stage, x : Shows(q, stage, x) => Shows(z, stage, x)
    <3>1. /\ z.at = n /\ z.refused = b /\ z.kind = q.kind /\ z.client = q.client /\ z.user = q.user
          /\ z.scopes = q.scopes /\ z.doc = q.doc /\ z.is = q.is
      BY <1>6, <2>1 DEF Shaped, InFlight
    <3>. HIDE DEF q, n
    <3>. QED
      BY <3>1, SameClaims
  <2>4. ASSUME ~b, NEW x \in unmet[r] PROVE ShownLater(z, x)
    <3>1. PICK j \in q.at..Len(Plan[q.kind]) : Shows(q, Plan[q.kind][j], x)
      BY <1>6, <2>1, <2>4 DEF Resting, ShownLater
    <3>2. x \in Claims(q) /\ x \notin Facts
      BY <2>1, <2>4 DEF Resting
    <3>3. j # q.at
      BY <1>1, <1>6, <2>1, <2>4, <3>1, <3>2, CheckShows DEF Pending
    <3>4. j \in n..Len(Plan[q.kind])
      BY <2>1, <3>1, <3>3
    <3>. HIDE DEF q, n
    <3>. QED
      BY <2>3, <3>1, <3>4 DEF ShownLater
  <2>5. Resting(r)'
    <3>1. unmet'[r] = unmet[r] /\ unmet[r] \subseteq Claims(q) /\ unmet[r] \cap Facts = {}
      BY <1>6, <2>1 DEF Resting
    <3>2. b => z.at <= Len(Plan[z.kind])
      BY <1>6, <2>3
    <3>. HIDE DEF q, n
    <3>. QED
      BY <1>6, <2>2, <2>3, <2>4, <3>1, <3>2 DEF Resting
  <2>6. ASSUME NEW o \in Req \ {r} PROVE Resting(o)'
    BY <1>1, <1>6, StaysResting DEF TypeOK
  <2>. QED
    BY <1>1, <1>6, <2>5, <2>6
<1>7. ASSUME NEW r \in Req, Advance(r) PROVE AccessInv'
  <2>1. Busy(r) /\ request[r].refused = FALSE /\ Shaped(request[r])
    BY <1>1, <1>7 DEF Advance, Pending, Passes, TypeInv, AllShaped, Shaped, InFlight
  <2>. DEFINE z == [request[r] EXCEPT !.at = @ + 1]
  <2>2. z = [request[r] EXCEPT !.at = @ + 1, !.refused = FALSE]
    BY <2>1 DEF Shaped, InFlight
  <2>3. request' = [request EXCEPT ![r] = z]
    BY <1>7 DEF Advance
  <2>4. Facts' \subseteq Facts
    BY <1>1, <1>2, <1>7 DEF Advance, TypeOK
  <2>5. /\ Pending(r) /\ unmet' = unmet
        /\ Check(request[r], Plan[request[r].kind][request[r].at])
    BY <1>7 DEF Advance, Passes
  <2>. HIDE DEF z
  <2>. QED
    BY <1>6, <2>1, <2>2, <2>3, <2>4, <2>5
<1>8. ASSUME NEW r \in Req, Refuse(r) PROVE AccessInv'
  <2>1. CASE Settle(r)
    BY <1>5, <1>8, <2>1 DEF Refuse
  <2>2. CASE ~Settle(r)
    <3>. DEFINE z == [request[r] EXCEPT !.at = @ + 1, !.refused = TRUE]
    <3>1. /\ request' = [request EXCEPT ![r] = z]
          /\ request[r].at \in 4..(Len(Plan[request[r].kind]) - 1)
          /\ Pending(r) /\ unmet' = unmet /\ UNCHANGED <<active, credential, doc>>
      BY <1>8, <2>2 DEF Refuse
    <3>2. Facts' \subseteq Facts
      BY <1>2, <3>1
    <3>3. request[r].at + 1 <= Len(Plan[request[r].kind])
      BY <3>1
    <3>4. z = [request[r] EXCEPT !.at = @ + 1, !.refused = TRUE]
      OBVIOUS
    <3>. HIDE DEF z
    <3>. QED
      BY <1>6, <3>1, <3>2, <3>3, <3>4
  <2>. QED
    BY <2>1, <2>2
<1>9. ASSUME NEW r \in Req, Finish(r) PROVE AccessInv'
  <2>1. Settle(r) /\ UNCHANGED <<active, credential>>
    BY <1>9 DEF Finish
  <2>2. \A k \in Id : doc'[k] # None => doc[k] # None \/ k \in Free
    BY <1>9 DEF Finish
  <2>3. Facts' \subseteq Facts \cup {<<"document", k>> : k \in Free}
    <3>1. Free \in SUBSET Id
      BY DEF Free
    <3>. QED
      BY <1>1, <2>1, <2>2, <3>1, FactsStay
  <2>4. Resting(r)'
    BY <1>1, <2>1, IdleResting DEF Settle, TypeOK
  <2>5. ASSUME NEW o \in Req \ {r} PROVE Resting(o)'
    <3>1. request'[o] = request[o] /\ unmet'[o] = unmet[o]
      BY <1>1, <2>1 DEF Settle, TypeOK
    <3>2. CASE ~Busy(o)
      BY <3>1, <3>2, IdleResting DEF Busy
    <3>3. CASE Busy(o)
      <4>1. unmet[o] \subseteq Claims(request[o])
        BY <3>3 DEF Resting
      <4>2. unmet[o] \cap Facts' \subseteq Facts
        BY <1>1, <2>3, <3>3, <4>1, FreeUnclaimed
      <4>. QED
        BY <3>1, <4>2, StaysResting
    <3>. QED
      BY <3>2, <3>3
  <2>. QED
    BY <1>1, <2>1, <2>4, <2>5 DEF Settle
<1>10. ASSUME NEW r \in Req, Reject(r) PROVE AccessInv'
  <2>1. CASE request[r].kind = "bearer"
    <3>1. request' = [o \in Req |-> Idle] /\ unmet' = [o \in Req |-> {}]
      BY <1>10, <2>1 DEF Reject
    <3>2. ASSUME NEW o \in Req PROVE Resting(o)'
      BY <3>1, IdleResting
    <3>. QED
      BY <1>1, <3>1, <3>2
  <2>2. CASE request[r].kind # "bearer"
    BY <1>5, <1>10, <2>2 DEF Reject
  <2>. QED
    BY <2>1, <2>2
<1>11. ASSUME Change PROVE AccessInv'
  <2>1. request' = request /\ unmet' = [o \in Req |-> unmet[o] \ Facts']
    BY <1>11 DEF Change
  <2>2. ASSUME NEW o \in Req PROVE Resting(o)'
    BY <2>1, StaysResting
  <2>. QED
    BY <1>1, <2>1, <2>2
<1>. QED
  BY <1>3, <1>4, <1>7, <1>8, <1>9, <1>10, <1>11 DEF Next, Step, SetConsumer, SetCredential, Expire

\* What AccessInv says of the end of a chain.
LEMMA AdmittedUnmet ==
    ASSUME AccessInv, NEW r \in Req, Busy(r), ~Pending(r)
    PROVE  unmet[r] = {}
<1>1. /\ request[r].at \in Nat /\ Len(Plan[request[r].kind]) \in Nat
      /\ request[r].at > Len(Plan[request[r].kind])
  BY AccessAssumption, PlanLengths DEF Pending, AccessInv, TypeInv, AllShaped, Shaped, InFlight
<1>2. request[r].refused \in BOOLEAN
  BY DEF AccessInv, TypeInv, AllShaped, Shaped, InFlight
<1>3. ~request[r].refused /\ \A x \in unmet[r] : ShownLater(request[r], x)
  BY <1>1, <1>2 DEF AccessInv, Resting
<1>. QED
  BY <1>1, <1>3 DEF ShownLater

\* It holds at first.
LEMMA InitAccess == Init => AccessInv
  BY InitTyped DEF Init, AccessInv, Resting, Busy

\* A request reaches the end of its chain only when all it rests on has been valid since
\* it arrived, whatever the chains and the changes of the stores (auth.js:9-144,
\* oauth2-server.js:142-247, oauth2.js:27-67).
THEOREM OnlyValidAdmitted == Spec => []AdmittedWasValid
<1>1. AccessInv => AdmittedWasValid
  BY AdmittedUnmet DEF AdmittedWasValid
<1>. QED
  BY <1>1, InitAccess, AccessInvInductive, PTL DEF Spec

-----------------------------------------------------------------------------
(* Scopes come from credentials.                                            *)

\* What a request that may make a document is for has been granted to the consumer of
\* that document, or a look-up will ask.
Held(r) == LET q == request[r] IN Busy(r) =>
    /\ q.kind \in {"refreshToken", "code"} => q.is.scopes \subseteq granted[q.is.consumer]
    /\ q.kind \in Decision => q.scopes \subseteq granted[q.client]
    /\ q.kind \in {"clientCredentials", "password", "authorize"} =>
         \A s \in q.scopes : s \in granted[q.client] \/ <<"scope", q.client, "oauth2", s>> \in unmet[r]

CredentialsHeld == \A ct \in Registered :
    ct[2] = "oauth2" /\ credential[ct] # None => credential[ct].scopes \subseteq granted[ct[1]]

\* Inductive.
HeldInv == AccessInv /\ CredentialsHeld /\ ScopesHeld /\ \A r \in Req : Held(r)

\* A scope that is valid now has been granted; here and after a step.
LEMMA ScopeFacts ==
    ASSUME TypeOK, CredentialsHeld, NEW c \in Consumer, NEW s, <<"scope", c, "oauth2", s>> \in Facts
    PROVE  s \in granted[c]
<1>1. PICK x \in Consumer \X CredType \X Scope :
        /\ <<"scope", x[1], x[2], x[3]>> = <<"scope", c, "oauth2", s>>
        /\ Authorized(x[1], x[2], {x[3]})
  BY DEF Facts
<1>2. <<c, "oauth2">> \in Registered /\ credential[<<c, "oauth2">>] # None
      /\ s \in credential[<<c, "oauth2">>].scopes
  BY <1>1 DEF Authorized, CredentialOf
<1>3. PICK ct \in Registered : ct = <<c, "oauth2">> /\ ct[1] = c /\ ct[2] = "oauth2"
  BY <1>2
<1>. QED
  BY <1>2, <1>3 DEF CredentialsHeld

\* The same after a step.
LEMMA ScopeFactsNext ==
    ASSUME TypeOK', CredentialsHeld', NEW c \in Consumer, NEW s, <<"scope", c, "oauth2", s>> \in Facts'
    PROVE  s \in granted'[c]
<1>1. PICK x \in Consumer \X CredType \X Scope :
        /\ <<"scope", x[1], x[2], x[3]>> = <<"scope", c, "oauth2", s>>
        /\ Authorized(x[1], x[2], {x[3]})'
  BY DEF Facts
<1>2. <<c, "oauth2">> \in Registered /\ credential'[<<c, "oauth2">>] # None
      /\ s \in credential'[<<c, "oauth2">>].scopes
  BY <1>1 DEF Authorized, CredentialOf
<1>3. PICK ct \in Registered : ct = <<c, "oauth2">> /\ ct[1] = c /\ ct[2] = "oauth2"
  BY <1>2
<1>. QED
  BY <1>2, <1>3 DEF CredentialsHeld

\* What a request makes has scopes of its consumer.
LEMMA MadeHeld ==
    ASSUME HeldInv, NEW r \in Req, Busy(r), ~Pending(r), Granting(request[r])
    PROVE  FieldsOf(request[r]).scopes \subseteq granted[FieldsOf(request[r]).consumer]
<1>. DEFINE q == request[r]
            f == FieldsOf(q)
<1>1. unmet[r] = {} /\ Held(r)
  BY AdmittedUnmet DEF HeldInv
<1>2. CASE q.kind \in {"refreshToken", "code"}
  <2>1. Shaped(q) /\ q.is \in Fields
    BY <1>2 DEF HeldInv, AccessInv, TypeInv, AllShaped, Shaped
  <2>2. f.scopes = q.is.scopes /\ f.consumer = q.is.consumer
    BY <1>2, <2>1 DEF FieldsOf, Fields
  <2>. QED
    BY <1>1, <1>2, <2>2 DEF Held
<1>3. CASE q.kind \in Decision \cup {"clientCredentials", "password", "authorize"}
  <2>1. f.scopes = q.scopes /\ f.consumer = q.client
    BY <1>3 DEF FieldsOf, Decision
  <2>2. q.scopes \subseteq granted[q.client]
    BY <1>1, <1>3 DEF Held
  <2>. QED
    BY <2>1, <2>2
<1>. QED
  BY <1>2, <1>3 DEF Granting, Exchange

\* A request that stays, whatever scopes become valid.
LEMMA HeldStays ==
    ASSUME AccessInv, NEW r \in Req, Held(r), Busy(r),
           request'[r].kind = request[r].kind, request'[r].client = request[r].client,
           request'[r].scopes = request[r].scopes, request'[r].is = request[r].is,
           \A c \in Consumer : granted[c] \subseteq granted'[c],
           \A c \in Consumer : \A s : <<"scope", c, "oauth2", s>> \in unmet[r] =>
               <<"scope", c, "oauth2", s>> \in unmet'[r] \/ s \in granted'[c]
    PROVE  Held(r)'
<1>. DEFINE q == request[r]
<1>1. Shaped(q)
  BY DEF AccessInv, TypeInv, AllShaped
<1>2. q.kind \in {"refreshToken", "code"} => q.is.consumer \in Consumer
  BY <1>1 DEF Shaped, Fields
<1>3. q.kind \in Decision \cup {"clientCredentials", "password", "authorize"} => q.client \in Consumer
  BY <1>1 DEF Shaped, Decision
<1>. QED
  BY <1>2, <1>3 DEF Held

\* A request that has ended makes nothing.
LEMMA HeldIdle ==
    ASSUME NEW r \in Req, request'[r] = Idle
    PROVE  Held(r)'
  BY DEF Held, Busy

\* Every step preserves it.
LEMMA HeldInvInductive ==
    ASSUME HeldInv, [Next]_vars
    PROVE  HeldInv'
<1>. USE AccessAssumption DEF HeldInv
<1>1. AccessInv' /\ TypeOK /\ TypeOK' /\ TypeInv /\ DOMAIN unmet = Req
  BY AccessInvInductive DEF AccessInv, TypeInv
<1>2. \A k \in Id : doc[k] # None => doc[k].is.consumer \in Consumer
  BY <1>1 DEF TypeOK, Doc, Fields
<1>3. ASSUME UNCHANGED <<credential, doc, granted>>, NEW r \in Req,
             \A o \in Req \ {r} : request'[o] = request[o] /\ unmet'[o] = unmet[o],
             Held(r)'
      PROVE  HeldInv'
  <2>1. CredentialsHeld'
    BY <1>3 DEF CredentialsHeld
  <2>2. ScopesHeld'
    BY <1>3 DEF ScopesHeld
  <2>3. ASSUME NEW o \in Req PROVE Held(o)'
    BY <1>3, <2>3 DEF Held, Busy
  <2>. QED
    BY <1>1, <2>1, <2>2, <2>3
<1>4. CASE UNCHANGED vars
  BY <1>1, <1>4 DEF vars, CredentialsHeld, ScopesHeld, Held, Busy
<1>5. ASSUME NEW r \in Req, Arrive(r) PROVE HeldInv'
  <2>1. PICK q : Enter(r, q) /\ Fresh(q)
    BY <1>1, <1>5, ArrivalsShaped
  <2>2. /\ request'[r] = q /\ unmet'[r] = Claims(q) \ Facts
        /\ \A o \in Req \ {r} : request'[o] = request[o] /\ unmet'[o] = unmet[o]
        /\ UNCHANGED <<credential, doc, granted>>
    BY <1>1, <2>1 DEF Enter, TypeOK
  <2>3. Shaped(q)
    BY <2>1 DEF Fresh
  <2>4. q.kind \in {"refreshToken", "code"} \cup Decision => q.is.scopes \subseteq granted[q.is.consumer]
    BY <2>1, <2>3 DEF Fresh, Shaped, ScopesHeld
  <2>5. q.kind \in Decision => q.scopes \subseteq granted[q.client]
    BY <2>1, <2>4 DEF Fresh
  <2>6. ASSUME q.kind \in {"clientCredentials", "password", "authorize"}, NEW s \in q.scopes
        PROVE  s \in granted[q.client] \/ <<"scope", q.client, "oauth2", s>> \in Claims(q) \ Facts
    <3>1. <<"scope", q.client, "oauth2", s>> \in Claims(q)
      BY <2>6 DEF Claims, TypeFor, Decision
    <3>2. q.client \in Consumer
      BY <2>3, <2>6 DEF Shaped
    <3>. QED
      BY <1>1, <3>1, <3>2, ScopeFacts
  <2>7. Held(r)'
    BY <2>2, <2>4, <2>5, <2>6 DEF Held
  <2>. QED
    BY <1>3, <2>2, <2>7
<1>6. ASSUME NEW r \in Req, Settle(r), UNCHANGED <<credential, doc, granted>> PROVE HeldInv'
  <2>1. Held(r)'
    BY <1>1, <1>6, HeldIdle DEF Settle, TypeOK
  <2>. QED
    BY <1>1, <1>3, <1>6, <2>1 DEF Settle, TypeOK
<1>7. ASSUME NEW r \in Req, NEW z, Busy(r), request' = [request EXCEPT ![r] = z], unmet' = unmet,
             UNCHANGED <<credential, granted>>, doc' = doc \/ \E k \in Id : doc' = [doc EXCEPT ![k] = None],
             z.kind = request[r].kind, z.client = request[r].client, z.scopes = request[r].scopes,
             z.is = request[r].is
      PROVE  HeldInv'
  <2>1. CredentialsHeld'
    BY <1>7 DEF CredentialsHeld
  <2>2. ScopesHeld'
    BY <1>1, <1>7 DEF ScopesHeld, TypeOK
  <2>3. Held(r)'
    BY <1>1, <1>7, HeldStays DEF TypeOK
  <2>4. ASSUME NEW o \in Req \ {r} PROVE Held(o)'
    BY <1>1, <1>7, <2>4 DEF Held, Busy, TypeOK
  <2>. QED
    BY <1>1, <2>1, <2>2, <2>3, <2>4
<1>8. ASSUME NEW r \in Req, Advance(r) PROVE HeldInv'
  <2>. DEFINE z == [request[r] EXCEPT !.at = @ + 1]
  <2>1. Busy(r) /\ Shaped(request[r]) /\ request' = [request EXCEPT ![r] = z]
    BY <1>1, <1>8 DEF Advance, Pending, TypeInv, AllShaped
  <2>2. /\ z.kind = request[r].kind /\ z.client = request[r].client /\ z.scopes = request[r].scopes
        /\ z.is = request[r].is
    BY <2>1 DEF Shaped, InFlight
  <2>3. doc' = doc \/ \E k \in Id : doc' = [doc EXCEPT ![k] = None]
    BY <1>8, <2>1 DEF Advance, Shaped
  <2>4. unmet' = unmet /\ UNCHANGED <<credential, granted>>
    BY <1>8 DEF Advance
  <2>. HIDE DEF z
  <2>. QED
    BY <1>7, <2>1, <2>2, <2>3, <2>4
<1>9. ASSUME NEW r \in Req, Refuse(r) PROVE HeldInv'
  <2>1. CASE Settle(r)
    BY <1>6, <1>9, <2>1 DEF Refuse
  <2>2. CASE ~Settle(r)
    <3>. DEFINE z == [request[r] EXCEPT !.at = @ + 1, !.refused = TRUE]
    <3>1. Busy(r) /\ Shaped(request[r]) /\ request' = [request EXCEPT ![r] = z]
          /\ unmet' = unmet /\ UNCHANGED <<credential, granted, doc>>
      BY <1>1, <1>9, <2>2 DEF Refuse, Pending, TypeInv, AllShaped
    <3>2. /\ z.kind = request[r].kind /\ z.client = request[r].client /\ z.scopes = request[r].scopes
          /\ z.is = request[r].is
      BY <3>1 DEF Shaped, InFlight
    <3>. HIDE DEF z
    <3>. QED
      BY <1>7, <3>1, <3>2
  <2>. QED
    BY <2>1, <2>2
<1>10. ASSUME NEW r \in Req, Finish(r) PROVE HeldInv'
  <2>. DEFINE q == request[r]
  <2>1. UNCHANGED <<credential, granted>> /\ Settle(r) /\ Busy(r) /\ ~Pending(r)
    BY <1>10 DEF Finish
  <2>2. ASSUME NEW k \in Id, doc'[k] # None
        PROVE  \/ doc[k] # None /\ doc'[k] = doc[k]
               \/ Granting(q) /\ doc'[k].is = FieldsOf(q)
    BY <1>1, <1>10, <2>2, MakesTyped DEF Finish, TypeOK
  <2>3. ScopesHeld'
    BY <2>1, <2>2, MadeHeld DEF ScopesHeld
  <2>4. CredentialsHeld'
    BY <2>1 DEF CredentialsHeld
  <2>5. Held(r)'
    BY <1>1, <2>1, HeldIdle DEF Settle, TypeOK
  <2>6. ASSUME NEW o \in Req \ {r} PROVE Held(o)'
    BY <1>1, <2>1, <2>6 DEF Held, Busy, Settle, TypeOK
  <2>. QED
    BY <1>1, <2>3, <2>4, <2>5, <2>6
<1>11. ASSUME NEW r \in Req, Reject(r) PROVE HeldInv'
  <2>1. CASE request[r].kind = "bearer"
    BY <1>1, <1>11, <2>1, HeldIdle DEF Reject, CredentialsHeld, ScopesHeld
  <2>2. CASE request[r].kind # "bearer"
    BY <1>6, <1>11, <2>2 DEF Reject
  <2>. QED
    BY <2>1, <2>2
<1>12. ASSUME Change, CredentialsHeld', \A c \in Consumer : granted[c] \subseteq granted'[c],
              \A k \in Id : doc'[k] # None => doc'[k] = doc[k]
       PROVE  HeldInv'
  <2>1. request' = request /\ unmet' = [o \in Req |-> unmet[o] \ Facts']
    BY <1>12 DEF Change
  <2>2. ASSUME NEW r \in Req PROVE Held(r)'
    <3>1. CASE ~Busy(r)
      BY <2>1, <3>1, HeldIdle DEF Busy
    <3>2. CASE Busy(r)
      <4>1. \A c \in Consumer : \A s : <<"scope", c, "oauth2", s>> \in unmet[r] =>
               <<"scope", c, "oauth2", s>> \in unmet'[r] \/ s \in granted'[c]
        BY <1>1, <1>12, <2>1, ScopeFactsNext
      <4>. QED
        BY <1>12, <2>1, <3>2, <4>1, HeldStays
    <3>. QED
      BY <3>1, <3>2
  <2>3. ScopesHeld'
    BY <1>2, <1>12 DEF ScopesHeld
  <2>. QED
    BY <1>1, <1>12, <2>2, <2>3
<1>13. ASSUME NEW c \in Consumer, SetConsumer(c) PROVE HeldInv'
  BY <1>12, <1>13 DEF SetConsumer, CredentialsHeld
<1>14. ASSUME NEW ct \in Registered, NEW v \in {None} \cup Credential, SetCredential(ct[1], ct[2], v)
       PROVE  HeldInv'
  <2>1. ct = <<ct[1], ct[2]>> /\ ct[1] \in Consumer
    OBVIOUS
  <2>2. \A c \in Consumer : granted[c] \subseteq granted'[c]
    BY <1>1, <1>14 DEF SetCredential, TypeOK
  <2>3. credential' = [credential EXCEPT ![ct] = v]
    BY <1>14, <2>1 DEF SetCredential
  <2>4. ct[2] = "oauth2" /\ v # None => v.scopes \subseteq granted'[ct[1]]
    BY <1>1, <1>14, <2>1 DEF SetCredential, TypeOK
  <2>5. CredentialsHeld'
    <3>1. ASSUME NEW x \in Registered, x[2] = "oauth2", credential'[x] # None
          PROVE  credential'[x].scopes \subseteq granted'[x[1]]
      <4>1. CASE x = ct
        BY <1>1, <2>3, <2>4, <3>1, <4>1 DEF TypeOK
      <4>2. CASE x # ct
        <5>1. credential'[x] = credential[x] /\ x[1] \in Consumer
          BY <1>1, <2>3, <4>2 DEF TypeOK
        <5>. QED
          BY <2>2, <3>1, <5>1 DEF CredentialsHeld
      <4>. QED
        BY <4>1, <4>2
    <3>. QED
      BY <3>1 DEF CredentialsHeld
  <2>. QED
    BY <1>12, <1>14, <2>2, <2>5 DEF SetCredential
<1>15. ASSUME NEW k \in Id, Expire(k) PROVE HeldInv'
  BY <1>1, <1>12, <1>15 DEF Expire, TypeOK, CredentialsHeld
<1>. QED
  BY <1>4, <1>5, <1>8, <1>9, <1>10, <1>11, <1>13, <1>14, <1>15 DEF Next, Step

\* No token, code or transaction has a scope that was never its consumer's.
THEOREM ScopesStayHeld == Spec => []ScopesHeld
<1>1. ASSUME Init PROVE HeldInv
  <2>1. PICK held \in {{}, Scope} :
          /\ credential = [ct \in Registered |-> [isActive |-> TRUE, scopes |-> held]]
          /\ granted = [c \in Consumer |-> held]
    BY <1>1 DEF Init
  <2>2. \A ct \in Registered : ct[1] \in Consumer
    BY AccessAssumption
  <2>3. CredentialsHeld
    BY <2>1, <2>2 DEF CredentialsHeld
  <2>4. ScopesHeld /\ \A r \in Req : Held(r)
    BY <1>1 DEF Init, ScopesHeld, Held, Busy
  <2>. QED
    BY <1>1, <2>3, <2>4, InitAccess DEF HeldInv
<1>2. HeldInv => ScopesHeld
  BY DEF HeldInv
<1>. QED
  BY <1>1, <1>2, HeldInvInductive, PTL DEF Spec
=============================================================================
