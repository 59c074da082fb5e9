------------------------------ MODULE AuthCodes ------------------------------
(***************************************************************************)
(* Authorization codes: lib/services/authorization-codes, with the grant   *)
(* and the exchange of lib/policies/oauth2/oauth2-server.js that use them. *)
(*                                                                         *)
(* A code is one Redis hash.  Redeeming it takes two commands, hgetall and *)
(* del, with the checks between them; calls of all gateway processes       *)
(* interleave at the commands.                                             *)
(***************************************************************************)
EXTENDS Naturals, FiniteSets

CONSTANTS
    Client,     \* applications: consumerId
    Uri,        \* redirect URIs
    User,       \* users that grant access
    CodeId,     \* ids of codes; uuids, never drawn twice
    Proc,       \* calls in progress, in any gateway process
    None,       \* no code
    MaxTime,    \* bound on the clock
    TTL         \* config.systemConfig.authorizationCodes.timeToExpiry

Code == [consumer : Client, uri : Uri, user : User, expiresAt : Nat]

\* What an exchange presents, and what it gets of a code.
Criteria == [id : CodeId, consumer : Client, uri : Uri]
Access   == [consumer : Client, uri : Uri, user : User]

ASSUME AuthCodesAssumption ==
    None \notin CodeId \cup Code \cup Criteria \cup Access /\ MaxTime \in Nat /\ TTL \in Nat

VARIABLES
    now,        \* Date.now()
    codes,      \* codes[i]: the hash of code i, or None
    call,       \* call[p]: the save or find p is executing
    dropping,   \* expired codes whose del was sent and not waited for
    granted,    \* history: every code ever saved, as it was saved
    redeemed,   \* history: codes that some exchange has been answered with
    spent,      \* history: spent[p] is the value of redeemed when p began
    overdue     \* history: overdue[p], the codes expired when p began

vars == <<now, codes, call, dropping, granted, redeemed, spent, overdue>>

\* A grant holds the code it saves; an exchange its criteria and what it found.
Call == [pc : {"idle", "save", "read", "remove", "found", "null"},
         id : CodeId \cup {None},
         consumer : Client \cup {None}, uri : Uri \cup {None},
         code : Code \cup {None}]
Idle == [pc |-> "idle", id |-> None, consumer |-> None, uri |-> None, code |-> None]

Init ==
    /\ now = 0
    /\ codes = [i \in CodeId |-> None]
    /\ call = [p \in Proc |-> Idle]
    /\ dropping = {}
    /\ granted = [i \in CodeId |-> None]
    /\ redeemed = {}
    /\ spent = [p \in Proc |-> {}]
    /\ overdue = [p \in Proc |-> {}]

Expired(c) == c.expiresAt <= now

Tick ==
    /\ now < MaxTime
    /\ now' = now + 1
    /\ UNCHANGED <<codes, call, dropping, granted, redeemed, spent, overdue>>

Minted == {call[p].id : p \in Proc} \cup {i \in CodeId : granted[i] # None}

\* The user allowed the access: mint a code bound to client, user and URI.
Grant(p, consumer, uri, user) ==
    /\ call[p] = Idle
    /\ \E i \in CodeId \ Minted :
         call' = [call EXCEPT ![p] = [pc |-> "save", id |-> i, consumer |-> consumer,
            uri |-> uri, code |-> [consumer |-> consumer, uri |-> uri, user |-> user,
                                   expiresAt |-> now + TTL]]]
    /\ UNCHANGED <<now, codes, dropping, granted, redeemed, spent, overdue>>

\* dao.save: hmset of the code's hash; its id goes to the client.
SaveCode(p) ==
    /\ call[p].pc = "save"
    /\ codes' = [codes EXCEPT ![call[p].id] = call[p].code]
    /\ granted' = [granted EXCEPT ![call[p].id] = call[p].code]
    /\ call' = [call EXCEPT ![p] = Idle]
    /\ UNCHANGED <<now, dropping, redeemed, spent, overdue>>

\* The exchange: the client presents a code and the URI it was issued for.
Exchange(p, i, consumer, uri) ==
    /\ call[p] = Idle
    /\ call' = [call EXCEPT ![p] = [pc |-> "read", id |-> i, consumer |-> consumer,
                                    uri |-> uri, code |-> None]]
    /\ spent' = [spent EXCEPT ![p] = redeemed]
    /\ overdue' = [overdue EXCEPT ![p] =
                     {j \in CodeId : granted[j] # None /\ Expired(granted[j])}]
    /\ UNCHANGED <<now, codes, dropping, granted, redeemed>>

\* Mutant: the URI of the exchange is not compared.
Equal_IgnoresUri(c, k) == c.consumer = k.consumer

\* Every key of the criteria equals the code's.
Equal(c, k) == c.consumer = k.consumer /\ c.uri = k.uri

\* Mutants: no code is dropped; a code presented with wrong criteria is.
ToDrop_Nothing(c, k) == {}
ToDrop_OnMismatch(c, k) == IF c # None /\ (Expired(c) \/ ~Equal(c, k)) THEN {k.id} ELSE {}

\* The code that dao.find removes on the way: one that has expired.
ToDrop(c, k) == IF c # None /\ Expired(c) THEN {k.id} ELSE {}

\* Mutant: whatever was read is taken for good.
ReadCode_NoChecks(p) ==
    /\ call[p].pc = "read"
    /\ call' = [call EXCEPT ![p].pc = "remove", ![p].code = codes[call[p].id]]
    /\ UNCHANGED <<now, codes, dropping, granted, redeemed, spent, overdue>>

\* dao.find: the reply to hgetall, and the checks.  The del of an expired code
\* is sent without waiting for it.
ReadCode(p) ==
    LET k == call[p]
        c == codes[k.id]
    IN  /\ k.pc = "read"
        /\ IF c = None \/ Expired(c) \/ ~Equal(c, k)
           THEN call' = [call EXCEPT ![p].pc = "null"]
           ELSE call' = [call EXCEPT ![p].pc = "remove", ![p].code = c]
        /\ dropping' = dropping \cup ToDrop(c, k)
        /\ UNCHANGED <<now, codes, granted, redeemed, spent, overdue>>

\* Mutant: the answer goes out without the code being deleted.
RemoveCode_Keeps(p) ==
    /\ call[p].pc = "remove"
    /\ call' = [call EXCEPT ![p].pc = "found"]
    /\ redeemed' = redeemed \cup {call[p].id}
    /\ UNCHANGED <<now, codes, dropping, granted, spent, overdue>>

\* service.find: the code was good; delete it, then answer with it.
RemoveCode(p) ==
    /\ call[p].pc = "remove"
    /\ codes' = [codes EXCEPT ![call[p].id] = None]
    /\ call' = [call EXCEPT ![p].pc = "found"]
    /\ redeemed' = redeemed \cup {call[p].id}
    /\ UNCHANGED <<now, dropping, granted, spent, overdue>>

\* The del of an expired code takes effect.
DropExpired(i) ==
    /\ i \in dropping
    /\ codes' = [codes EXCEPT ![i] = None]
    /\ dropping' = dropping \ {i}
    /\ UNCHANGED <<now, call, granted, redeemed, spent, overdue>>

\* The exchange goes on to issue tokens for the code's client, user and scopes
\* (see Tokens), or is refused.
Return(p) ==
    /\ call[p].pc \in {"found", "null"}
    /\ call' = [call EXCEPT ![p] = Idle]
    /\ spent' = [spent EXCEPT ![p] = {}]
    /\ overdue' = [overdue EXCEPT ![p] = {}]
    /\ UNCHANGED <<now, codes, dropping, granted, redeemed>>

Request(p) ==
    \E consumer \in Client, uri \in Uri :
      \/ \E user \in User : Grant(p, consumer, uri, user)
      \/ \E i \in CodeId : Exchange(p, i, consumer, uri)

Reply(p) == SaveCode(p) \/ ReadCode(p) \/ RemoveCode(p) \/ Return(p)

Next ==
    \/ Tick
    \/ \E i \in CodeId : DropExpired(i)
    \/ \E p \in Proc : Request(p) \/ Reply(p)

\* Redis executes every command it is sent.
Fairness ==
    /\ \A p \in Proc : WF_vars(Reply(p))
    /\ \A i \in CodeId : WF_vars(DropExpired(i))

Spec == Init /\ [][Next]_vars /\ Fairness

-----------------------------------------------------------------------------
(* Properties.                                                              *)

\* Every variable has its type; a call has the id of its code, and one that removes or
\* answers has the code.
TypeOK ==
    /\ now \in 0..MaxTime
    /\ codes \in [CodeId -> Code \cup {None}]
    /\ call \in [Proc -> Call]
    /\ dropping \in SUBSET CodeId
    /\ granted \in [CodeId -> Code \cup {None}]
    /\ redeemed \in SUBSET CodeId
    /\ spent \in [Proc -> SUBSET CodeId]
    /\ overdue \in [Proc -> SUBSET CodeId]
    /\ \A p \in Proc :
         /\ call[p].pc # "idle" => call[p].id # None
         /\ call[p].pc \in {"save", "remove", "found"} => call[p].code # None

\* What an exchange is answered with is the code exactly as it was granted, to
\* the client that presents it and for the URI it presents (oauth2-server.js
\* 102-120, authorization-code.dao.js 14-29).
AnswersTheGrant ==
    \A p \in Proc : call[p].pc = "found" =>
        /\ call[p].code = granted[call[p].id]
        /\ call[p].code.consumer = call[p].consumer
        /\ call[p].code.uri = call[p].uri

\* An exchange that begins after another was answered with the code is refused,
\* and so is one that begins after the code expired
\* (authorization-code.service.js 51-64, authorization-code.dao.js 20-24).
NoLateExchange ==
    \A p \in Proc : call[p].pc = "found" => call[p].id \notin spent[p] \cup overdue[p]

\* A code disappears only because an exchange was answered with it or because it
\* expired: an exchange by the wrong client, or with the wrong URI, does not use
\* it up, and no del in flight hits another code (authorization-code.dao.js 17-27).
OnlySpentCodesVanish ==
    \A i \in CodeId : granted[i] # None /\ codes[i] = None =>
        i \in redeemed \/ Expired(granted[i])

(***************************************************************************)
(* The store keeps the promise of OneTimeCodes.  A code is over when it    *)
(* was redeemed or has expired, whether or not its hash is still there.    *)
(***************************************************************************)
AccessOf(c) == IF c = None THEN None
               ELSE [consumer |-> c.consumer, uri |-> c.uri, user |-> c.user]

Promise == INSTANCE OneTimeCodes WITH
    grant  <- [i \in CodeId |-> AccessOf(granted[i])],
    over   <- redeemed \cup {i \in CodeId : granted[i] # None /\ Expired(granted[i])},
    asking <- [p \in Proc |-> IF call[p].pc \in {"idle", "save"} THEN None
                 ELSE [id |-> call[p].id, consumer |-> call[p].consumer, uri |-> call[p].uri]],
    barred <- [p \in Proc |-> spent[p] \cup overdue[p]],
    answer <- [p \in Proc |-> IF call[p].pc = "found" THEN AccessOf(call[p].code) ELSE None]

\* Between the two commands of an exchange others grant, redeem and drop codes, and time
\* passes; all the same each code is granted once, and exchanged by the client it was
\* granted to, twice only by exchanges that overlap, and by none that came late
\* (authorization-code.dao.js 14-29, authorization-code.service.js 44-64).
KeepsPromise == Promise!Spec

\* An expired code that is presented is deleted in the end.
ExpiredRemoved ==
    \A p \in Proc, i \in CodeId :
        (call[p].pc = "read" /\ call[p].id = i /\ codes[i] # None /\ Expired(codes[i]))
            ~> codes[i] = None
=============================================================================
