------------------------------- MODULE Access -------------------------------
(***************************************************************************)
(* Who is let in, and who is granted a token: the authentication policies  *)
(* (basic-auth, key-auth, jwt, oauth2), the log-in page and the            *)
(* authorization and token endpoints of the OAuth2 server, all over        *)
(* services/auth.js.                                                       *)
(*                                                                         *)
(* A request is a chain of promises.  Each look-up is one step, and        *)
(* between two of them consumers and credentials are deactivated, removed  *)
(* and restored, scopes change and tokens are revoked.  The stores are     *)
(* taken as atomic here: Tokens, AuthCodes, Consumers and Credentials have *)
(* their commands.  accessTokens.tokenType is not jwt.                     *)
(***************************************************************************)
EXTENDS Naturals, FiniteSets, Sequences

CONSTANTS
    Consumer,   \* applications and users
    Client, User,   \* those that present themselves as clients, and as users
    Registered,     \* <<consumer, type>>: the credentials that are made or changed
    Scope, Req, None,
    Kinds,      \* the kinds of request of an instance
    MaxId, MaxChanges    \* bounds of an instance

CredType == {"basic-auth", "oauth2", "key-auth", "jwt"}

(***************************************************************************)
(* The look-ups of each kind of request, in order.  plain is basic-auth on *)
(* an endpoint without scopes.  The requests to the token endpoint begin   *)
(* by authenticating their client, which basic-auth does as well.          *)
(***************************************************************************)
BasicPlan == <<"client", "secret", "scopes">>
KeyPlan == <<"secret", "client", "scopes">>
JwtPlan == <<"secret", "client">>
LoginPlan == <<"client", "secret">>
BearerPlan == <<"document", "owner", "covered", "behalf">>
ClientCredentialsPlan == <<"client", "secret", "scopes", "client", "scopes">>
PasswordPlan == <<"client", "secret", "scopes", "client", "user", "password", "scopes">>
RefreshTokenPlan == <<"client", "secret", "scopes", "client", "document">>
CodePlan == <<"client", "secret", "scopes", "document">>
AuthorizePlan == <<"user", "client", "scopes">>
DecidePlan == <<"document", "user", "client">>

Plan == [basic |-> BasicPlan, plain |-> BasicPlan, key |-> KeyPlan, jwt |-> JwtPlan,
         login |-> LoginPlan, bearer |-> BearerPlan,
         clientCredentials |-> ClientCredentialsPlan, password |-> PasswordPlan,
         refreshToken |-> RefreshTokenPlan, code |-> CodePlan,
         authorize |-> AuthorizePlan, decideCode |-> DecidePlan, decideToken |-> DecidePlan]

Kind == DOMAIN Plan
Exchange == {"clientCredentials", "password", "refreshToken", "code"}
Decision == {"decideCode", "decideToken"}

ASSUME AccessAssumption ==
    /\ Client \subseteq Consumer /\ User \subseteq Consumer
    /\ Registered \subseteq Consumer \X CredType
    /\ None \notin Consumer /\ None \notin Nat
    /\ Kinds \subseteq Kind
    /\ MaxId \in Nat /\ MaxChanges \in Nat

VARIABLES
    active,     \* the consumers there are and that are active
    credential, \* credential[<<c, ty>>]
    doc,        \* doc[k]: the tokens, codes and open transactions that are neither
                \* expired, revoked nor spent
    request,    \* request[r]
    changes,
    unmet,      \* history: what r rests on and has not been valid since r arrived
    granted     \* history: the scopes c's oauth2 credential has had

vars == <<active, credential, doc, request, changes, unmet, granted>>

Id == 1..MaxId

\* scopes = {} stands for no scopes.  via is the user of the password grant, which is
\* stored under another name than the user of the other grants.
DocType == {"access_token", "refresh_token", "code", "transaction"}
Fields == [consumer : Consumer, user : Consumer \cup {None}, via : Consumer \cup {None},
           scopes : SUBSET Scope, authType : BOOLEAN, redirectUri : BOOLEAN]
Doc == [type : DocType, is : Fields]

Credential == [isActive : BOOLEAN, scopes : SUBSET Scope]

\* doc and is: the document it brings, and what that says.  right: the secret, id or
\* redirect URI it brings is the right one.  refused: done(null, false) has been called
\* and the chain goes on.
Idle == [at |-> "idle"]
InFlight == [at : Nat, kind : Kinds, client : Consumer \cup {None}, user : Consumer \cup {None},
             scopes : SUBSET Scope, doc : Id \cup {None}, is : Fields \cup {None}, right : BOOLEAN, refused : BOOLEAN]

Busy(r) == request[r] # Idle

Init ==
    /\ active = Consumer
    /\ \E held \in {{}, Scope} :
         /\ credential = [ct \in Registered |-> [isActive |-> TRUE, scopes |-> held]]
         /\ granted = [c \in Consumer |-> held]
    /\ doc = [k \in Id |-> None]
    /\ request = [r \in Req |-> Idle]
    /\ changes = 0
    /\ unmet = [r \in Req |-> {}]

-----------------------------------------------------------------------------
(* What a look-up finds.                                                    *)

\* The type of credential that authenticates the client of q.
TypeFor(q) ==
    CASE q.kind \in {"basic", "login"} -> "basic-auth"
      [] q.kind = "key" -> "key-auth"
      [] q.kind = "jwt" -> "jwt"
      [] OTHER -> "oauth2"

\* validateConsumer.
Valid(c) == c \in active

\* authenticateCredential, once it has the consumer: the password is that of an active
\* credential.
CredentialOf(c, ty) == IF <<c, ty>> \in Registered THEN credential[<<c, ty>>] ELSE None
Authentic(c, ty) == CredentialOf(c, ty) # None /\ CredentialOf(c, ty).isActive

\* authorizeCredential: it does not ask whether the credential is active.
Authorized(c, ty, scopes) ==
    scopes = {} \/ (CredentialOf(c, ty) # None /\ scopes \subseteq CredentialOf(c, ty).scopes)

\* The document is looked up by its id; a code must be the client's.
Found(q) ==
    /\ doc[q.doc] # None /\ q.right
    /\ q.kind = "code" => q.is.consumer = q.client

Check(q, stage) ==
    CASE stage = "client" -> Valid(q.client) /\ (q.kind = "authorize" => q.right)
      [] stage = "secret" -> Authentic(q.client, TypeFor(q)) /\ q.right
      [] stage = "scopes" -> Authorized(q.client, TypeFor(q), q.scopes)
      [] stage = "user" -> Valid(q.user)
      [] stage = "password" -> Authentic(q.user, "basic-auth")
      [] stage = "document" -> Found(q)
      [] stage = "owner" -> Valid(q.is.consumer)
      [] stage = "covered" -> q.scopes = {} \/ (doc[q.doc] # None /\ q.scopes \subseteq q.is.scopes)
      [] stage = "behalf" -> q.is.user = None \/ Valid(q.is.user)

\* Mutants: a chain that was refused goes on as if it were not; a bearer's token is
\* all that is checked.
Passes_Undefined(q) == q.refused \/ Check(q, Plan[q.kind][q.at])
Passes_TokenOnly(q) == ~q.refused /\ ((q.kind = "bearer" /\ q.at > 1) \/ Check(q, Plan[q.kind][q.at]))
Passes_AnyScopes(q) == ~q.refused /\ (Plan[q.kind][q.at] = "scopes" \/ Check(q, Plan[q.kind][q.at]))

\* After a refusal the next handler of the chain is given undefined, and refuses too.
Passes(q) == ~q.refused /\ Check(q, Plan[q.kind][q.at])

-----------------------------------------------------------------------------
(* What a request comes to.                                                 *)

Granting(q) == q.kind \in Exchange \cup Decision \cup {"authorize"}

\* Mutant: the owner is the user the request is for.
FieldsOf_User(q) ==
    [consumer |-> q.user, user |-> None, via |-> None, scopes |-> q.scopes,
     authType |-> TRUE, redirectUri |-> FALSE]

\* The fields of what is searched for or saved.
FieldsOf(q) ==
    LET base == [consumer |-> q.client, user |-> None, via |-> None, scopes |-> q.scopes,
                 authType |-> TRUE, redirectUri |-> FALSE]
    IN  CASE q.kind = "clientCredentials" -> base
          [] q.kind = "password" -> [base EXCEPT !.via = q.user, !.authType = FALSE]
          [] q.kind = "refreshToken" -> q.is
          [] q.kind = "code" -> [q.is EXCEPT !.authType = TRUE]
          [] q.kind \in {"authorize", "decideCode"} -> [base EXCEPT !.user = q.user, !.authType = FALSE]
          [] q.kind = "decideToken" -> [base EXCEPT !.user = q.user, !.redirectUri = TRUE]

\* tokenDao.find compares the fields that are given only.
Match(d, f) ==
    /\ d.consumer = f.consumer
    /\ f.user # None => d.user = f.user
    /\ f.via # None => d.via = f.via
    /\ f.scopes # {} => d.scopes = f.scopes
    /\ f.authType => d.authType
    /\ f.redirectUri => d.redirectUri

\* An id may be drawn again when no request has it.
Free == {k \in Id : doc[k] = None /\ \A r \in Req : Busy(r) => request[r].doc # k}
DocsOf(ty) == {k \in Id : doc[k] # None /\ doc[k].type = ty}
Has(ty, f) == \E k \in DocsOf(ty) : Match(doc[k].is, f)

\* The types of what q makes: findOrSave saves what it did not find.
Makes(q) ==
    LET f == FieldsOf(q) IN
    CASE q.kind = "authorize" -> {"transaction"}
      [] q.kind = "decideCode" -> {"code"}
      [] q.kind \in {"clientCredentials", "refreshToken", "decideToken"} ->
           {ty \in {"access_token"} : ~Has(ty, f)}
      [] q.kind \in {"password", "code"} -> {ty \in {"access_token", "refresh_token"} : ~Has(ty, f)}
      [] OTHER -> {}

\* The ids of new documents are drawn in order.
Least(ids) == CHOOSE k \in ids : \A j \in ids : k <= j
Place(types) == LET k == Least(Free) IN
    IF types = {"access_token", "refresh_token"}
    THEN [access_token |-> k, refresh_token |-> Least(Free \ {k})]
    ELSE [ty \in types |-> k]

\* Bound: a request arrives only while there is room for all those in flight may make.
Room == Cardinality(Free) >= 2 * (1 + Cardinality({r \in Req : Busy(r) /\ Granting(request[r])}))

-----------------------------------------------------------------------------
(* Requests.                                                                *)

\* What an admission of q claims: these were valid.
Claims(q) ==
    LET ty == TypeFor(q) IN
    IF q.kind = "bearer"
    THEN {<<"document", q.doc>>, <<"consumer", q.is.consumer>>}
         \cup {<<"consumer", u>> : u \in {q.is.user} \ {None}}
    ELSE {<<"consumer", q.client>>}
         \cup {<<"consumer", u>> : u \in {q.user} \ {None}}
         \cup {<<"document", k>> : k \in {q.doc} \ {None}}
         \cup {<<"credential", q.client, ty>> : k \in {q.kind} \ (Decision \cup {"authorize"})}
         \cup {<<"credential", q.user, "basic-auth">> : k \in {q.kind} \cap {"password"}}
         \cup {<<"scope", q.client, ty, s>> : s \in IF q.kind \in Decision THEN {} ELSE q.scopes}

\* What is valid now.
Facts ==
    {<<"consumer", c>> : c \in active}
    \cup {<<"document", k>> : k \in {x \in Id : doc[x] # None}}
    \cup {<<"credential", ct[1], ct[2]>> : ct \in {x \in Registered : Authentic(x[1], x[2])}}
    \cup {<<"scope", x[1], x[2], x[3]>> : x \in {y \in Consumer \X CredType \X Scope :
            Authorized(y[1], y[2], {y[3]})}}

Enter(r, q) ==
    /\ q.kind \in Kinds
    /\ ~Busy(r)
    /\ Granting(q) => Room
    /\ request' = [request EXCEPT ![r] = q]
    /\ unmet' = [unmet EXCEPT ![r] = Claims(q) \ Facts]
    /\ UNCHANGED <<active, credential, doc, changes, granted>>

As(kind) == [at |-> 1, kind |-> kind, client |-> None, user |-> None, scopes |-> {},
             doc |-> None, is |-> None, right |-> TRUE, refused |-> FALSE]
Bring(kind, k) == [As(kind) EXCEPT !.doc = k, !.is = doc[k].is]

Present(r) == \E kind \in {"basic", "plain", "key", "jwt", "login", "clientCredentials"},
                 c \in Client \cup User, b \in BOOLEAN, s \in SUBSET Scope :
    /\ c \in IF kind \in {"basic", "login"} THEN User ELSE Client
    /\ kind \in {"jwt", "login"} => s = {}
    /\ Enter(r, [As(kind) EXCEPT !.client = c, !.right = b, !.scopes = s])
Bear(r) == \E k \in DocsOf("access_token"), b \in BOOLEAN, s \in SUBSET Scope :
    Enter(r, [Bring("bearer", k) EXCEPT !.right = b, !.scopes = s])
Password(r) == \E c \in Client, u \in User, s \in SUBSET Scope :
    Enter(r, [As("password") EXCEPT !.client = c, !.user = u, !.scopes = s])
Redeem(r) == \E c \in Client, b \in BOOLEAN :
    \/ \E k \in DocsOf("refresh_token") : Enter(r, [Bring("refreshToken", k) EXCEPT !.client = c, !.right = b])
    \/ \E k \in DocsOf("code") : Enter(r, [Bring("code", k) EXCEPT !.client = c, !.right = b])
Authorize(r) == \E c \in Client, u \in User, b \in BOOLEAN, s \in SUBSET Scope :
    Enter(r, [As("authorize") EXCEPT !.client = c, !.user = u, !.right = b, !.scopes = s])

\* The transaction is read from the session, with its user and client.
Decide(r) == \E kind \in Decision : \E k \in DocsOf("transaction") :
    Enter(r, [Bring(kind, k) EXCEPT !.client = doc[k].is.consumer, !.user = doc[k].is.user,
                              !.scopes = doc[k].is.scopes])

Settle(r) ==
    /\ request' = [request EXCEPT ![r] = Idle]
    /\ unmet' = [unmet EXCEPT ![r] = {}]

Pending(r) == Busy(r) /\ request[r].at <= Len(Plan[request[r].kind])

\* The look-up finds what it should.  A code is removed as it is found.
Advance(r) ==
    LET q == request[r] IN
    /\ Pending(r) /\ Passes(q)
    /\ request' = [request EXCEPT ![r].at = @ + 1]
    /\ doc' = IF q.kind = "code" /\ Plan[q.kind][q.at] = "document" THEN [doc EXCEPT ![q.doc] = None] ELSE doc
    /\ UNCHANGED <<active, credential, changes, unmet, granted>>

\* Mutant: a token whose user is gone is not answered for.
Refuse_Silent(r) ==
    /\ Pending(r) /\ ~Passes(request[r]) /\ Plan[request[r].kind][request[r].at] # "behalf"
    /\ Settle(r)
    /\ UNCHANGED <<active, credential, doc, changes, granted>>

\* It does not: done(null, false).  Within an exchange of three handlers or more the
\* chain goes on, with nothing to hand to the next one.
Refuse(r) ==
    LET q == request[r] IN
    /\ Pending(r) /\ ~Passes(q)
    /\ IF q.kind \in Exchange /\ q.at \in 4..(Len(Plan[q.kind]) - 1)
       THEN /\ request' = [request EXCEPT ![r].at = @ + 1, ![r].refused = TRUE]
            /\ UNCHANGED unmet
       ELSE Settle(r)
    /\ UNCHANGED <<active, credential, doc, changes, granted>>

\* The end of the chain: the consumer is handed to the policy's callback, or what was
\* asked for is made; a decided transaction leaves the session.
Finish(r) ==
    LET q == request[r]  types == Makes(q)  place == Place(types) IN
    /\ Busy(r) /\ ~Pending(r)
    /\ doc' = [k \in Id |-> IF k \in Free /\ \E ty \in types : place[ty] = k
                            THEN [type |-> CHOOSE ty \in types : place[ty] = k, is |-> FieldsOf(q)]
                            ELSE IF q.kind \in Decision /\ k = q.doc THEN None ELSE doc[k]]
    /\ Settle(r)
    /\ UNCHANGED <<active, credential, changes, granted>>

\* A look-up is rejected.  Every chain ends in a catch that calls done, but that of the
\* bearer strategy: there the process ends, and all its requests with it.
Reject(r) ==
    /\ Pending(r)
    /\ IF request[r].kind = "bearer"
       THEN /\ request' = [x \in Req |-> Idle]
            /\ unmet' = [x \in Req |-> {}]
       ELSE Settle(r)
    /\ UNCHANGED <<active, credential, doc, changes, granted>>

-----------------------------------------------------------------------------
(* What happens to the stores meanwhile.                                    *)

\* The common part: history learns what is valid now.
Change ==
    /\ changes < MaxChanges /\ changes' = changes + 1
    /\ unmet' = [r \in Req |-> unmet[r] \ Facts']
    /\ UNCHANGED <<request>>

\* A consumer is deactivated or removed, or activated again.
SetConsumer(c) ==
    /\ active' = IF c \in active THEN active \ {c} ELSE active \cup {c}
    /\ UNCHANGED <<credential, doc, granted>>
    /\ Change

\* A credential is removed, or made or changed.
SetCredential(c, ty, v) ==
    /\ credential[<<c, ty>>] # v
    /\ credential' = [credential EXCEPT ![<<c, ty>>] = v]
    /\ granted' = IF ty = "oauth2" /\ v # None THEN [granted EXCEPT ![c] = @ \cup v.scopes] ELSE granted
    /\ UNCHANGED <<active, doc>>
    /\ Change

\* A token is revoked, or a token, code or session expires.
Expire(k) ==
    /\ doc[k] # None /\ doc' = [doc EXCEPT ![k] = None]
    /\ UNCHANGED <<active, credential, granted>>
    /\ Change

-----------------------------------------------------------------------------
Arrive(r) == Present(r) \/ Bear(r) \/ Password(r) \/ Redeem(r) \/ Authorize(r) \/ Decide(r)
Step(r) == Advance(r) \/ Refuse(r) \/ Finish(r)

Next ==
    \/ \E r \in Req : Arrive(r) \/ Step(r) \/ Reject(r)
    \/ \E c \in Consumer : SetConsumer(c)
    \/ \E ct \in Registered, v \in {None} \cup Credential : SetCredential(ct[1], ct[2], v)
    \/ \E k \in Id : Expire(k)

Spec == Init /\ [][Next]_vars

\* The stores answer.
FairSpec == Spec /\ \A r \in Req : WF_vars(Step(r))

-----------------------------------------------------------------------------
(* Properties.                                                              *)

\* Every variable has its type.
TypeOK ==
    /\ active \subseteq Consumer
    /\ credential \in [Registered -> {None} \cup Credential]
    /\ doc \in [Id -> {None} \cup Doc]
    /\ request \in [Req -> {Idle} \cup InFlight]
    /\ changes \in 0..MaxChanges
    /\ granted \in [Consumer -> SUBSET Scope]

\* A request reaches the end of its chain, where it is admitted or granted what it asks
\* for, only if everything this rests on - its consumer, credential, scopes, token, and
\* the users it is for - has been valid at some moment since it arrived, however the
\* stores change between its look-ups and whatever a chain does after it has refused
\* (auth.js:9-144, oauth2-server.js:142-247, oauth2.js:27-67).
AdmittedWasValid == \A r \in Req : Busy(r) /\ ~Pending(r) => unmet[r] = {}

\* No token, code or transaction has a scope that the oauth2 credential of its consumer
\* has never had: through transactions, codes, and the tokens made of refresh tokens.
ScopesHeld == \A k \in Id : doc[k] # None => doc[k].is.scopes \subseteq granted[doc[k].is.consumer]

\* Every request is answered, or ends with the process, also when a look-up is rejected.
EveryRequestAnswered == \A r \in Req : Busy(r) ~> ~Busy(r)
=============================================================================
