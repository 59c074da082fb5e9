------------------------------- MODULE Tokens -------------------------------
(***************************************************************************)
(* The OAuth2 token store: lib/services/tokens/token.service.js over       *)
(* lib/services/tokens/token.dao.js.                                       *)
(*                                                                         *)
(* The state lives in Redis.  For each token type there is one hash per    *)
(* token, an index hash per consumer of its active tokens, and an index of *)
(* its expired ones.  A Redis command, and a MULTI/EXEC block, is atomic;  *)
(* everything between two commands is a promise continuation, so the calls *)
(* of all gateway processes interleave at every command.  An action here   *)
(* is one command with the synchronous code that follows its reply.        *)
(***************************************************************************)
EXTENDS Naturals, FiniteSets

CONSTANTS
    Consumer,   \* consumers (users and applications) that own tokens
    Attr,       \* what else a token request fixes: authType, scopes, user...
    Id,         \* token ids; uuids in the code, so never drawn twice
    Proc,       \* service calls in progress, in any gateway process
    None,       \* "no token"
    MaxTime,    \* bound on the clock
    Ops,        \* the operations callers use, to keep instances small
    TTL,        \* config.systemConfig.{accessTokens,refreshTokens}.timeToExpiry
    Errors      \* whether a Redis command may fail

Type == {"access_token", "refresh_token"}

VARIABLES
    now,        \* Date.now()
    body,       \* body[ty][id]: the fields dao.save wrote in the token's hash
    archived,   \* archived[ty]: ids whose hash has the field "archived"
    active,     \* active[ty][c]: ids in c's index of active tokens
    expired,    \* expired[ty][c]: ids in c's index of expired tokens
    call,       \* call[p]: the service call p is executing
    lane,       \* lane[p][ty]: p's dao.find, then its dao.save, for type ty
    gets,       \* gets[p]: p's outstanding dao.get calls and their results
    dead,       \* history: tokens archived or expired when p's call began
    owed        \* history: tokens of the consumer when p's listing began

store == <<body, archived, active, expired>>
vars == <<now, store, call, lane, gets, dead, owed>>

(***************************************************************************)
(* A token's hash as save writes it.  A criteria object, and the token     *)
(* built from it, is a consumer with a set of further attributes.  The     *)
(* index stores expiresAt again, in the same MULTI, so it is not repeated. *)
(***************************************************************************)
Body == [consumer : Consumer, attrs : SUBSET Attr, expiresAt : Nat]

ASSUME TokensAssumption ==
    /\ None \notin Id \cup Body
    /\ MaxTime \in Nat
    /\ TTL \in [Type -> Nat]
    /\ Errors \in BOOLEAN

\* A service call with its options; past is includeExpired.
Call == [op : {"idle", "findOrSave", "get", "list", "revoke"},
         consumer : Consumer \cup {None}, attrs : SUBSET Attr,
         type : Type, past : BOOLEAN, failed : BOOLEAN]
Idle == [op |-> "idle", consumer |-> None, attrs |-> {},
         type |-> "access_token", past |-> FALSE, failed |-> FALSE]

\* The state of one dao.find, and of the dao.save that may follow it.
Lane == [pc : {"off", "index", "scan", "archive", "found", "save", "done", "failed"},
         scan : SUBSET Id,           \* activeTokenIds still to be read
         stale : SUBSET Id,          \* expiredTokenIds
         hit : Id \cup {None},       \* foundToken, or the token being saved
         due : Nat,                  \* expiresAt of the token being saved
         seen : SUBSET Id]           \* history: all of activeTokenIds but those
                                     \* whose reading failed
Off == [pc |-> "off", scan |-> {}, stale |-> {}, hit |-> None, due |-> 0, seen |-> {}]
Start == [Off EXCEPT !.pc = "index"]

\* dao.get calls in flight, those in their dao.revoke, and the tokens returned.
Gets == [reading : SUBSET Id, revoking : SUBSET Id, got : SUBSET Id]
NoGets == [reading |-> {}, revoking |-> {}, got |-> {}]

Saved(ty, id) == body[ty][id] # None
Expired(ty, id) == Saved(ty, id) /\ body[ty][id].expiresAt <= now
DeadNow == {k \in Type \X Id : k[2] \in archived[k[1]] \/ Expired(k[1], k[2])}

\* Every key of the criteria equals the token's: a token with more attributes
\* matches as well.  The field "archived" is not among the keys compared.
Match(ty, id, c, attrs) ==
    /\ Saved(ty, id)
    /\ body[ty][id].consumer = c
    /\ attrs \subseteq body[ty][id].attrs

Used == {id \in Id : \E ty \in Type : \/ Saved(ty, id)
                                      \/ \E p \in Proc : lane[p][ty].hit = id}

Init ==
    /\ now = 0
    /\ body = [ty \in Type |-> [id \in Id |-> None]]
    /\ archived = [ty \in Type |-> {}]
    /\ active = [ty \in Type |-> [c \in Consumer |-> {}]]
    /\ expired = [ty \in Type |-> [c \in Consumer |-> {}]]
    /\ call = [p \in Proc |-> Idle]
    /\ lane = [p \in Proc |-> [ty \in Type |-> Off]]
    /\ gets = [p \in Proc |-> NoGets]
    /\ dead = [p \in Proc |-> {}]
    /\ owed = [p \in Proc |-> {}]

\* Time passes; gateways are assumed to agree on the clock.
Tick == now < MaxTime /\ now' = now + 1 /\ UNCHANGED <<store, call, lane, gets, dead, owed>>

(***************************************************************************)
(* The MULTI block that archives: dao.revoke for one token, and the end of *)
(* dao.find for all the stale ones.                                        *)
(***************************************************************************)
\* Mutants: the id stays in the active index; the expired index misses it.
Archive_NoHdel(ty, ids, c) ==
    /\ archived' = [archived EXCEPT ![ty] = @ \cup ids]
    /\ expired' = [expired EXCEPT ![ty][c] = @ \cup ids]
    /\ UNCHANGED <<active, body>>
Archive_NoExpiredIndex(ty, ids, c) ==
    /\ archived' = [archived EXCEPT ![ty] = @ \cup ids]
    /\ active' = [active EXCEPT ![ty][c] = @ \ ids]
    /\ UNCHANGED <<expired, body>>

Archive(ty, ids, c) ==
    /\ archived' = [archived EXCEPT ![ty] = @ \cup ids]
    /\ active' = [active EXCEPT ![ty][c] = @ \ ids]
    /\ expired' = [expired EXCEPT ![ty][c] = @ \cup ids]
    /\ UNCHANGED body

SetLane(p, ty, l) == lane' = [lane EXCEPT ![p][ty] = l]

Begin(p, k) ==
    /\ k.op \in Ops
    /\ call[p] = Idle
    /\ call' = [call EXCEPT ![p] = k]
    /\ dead' = [dead EXCEPT ![p] = DeadNow]

-----------------------------------------------------------------------------
(* service.findOrSave: find, in both namespaces at once when a refresh      *)
(* token is wanted, then save what was not found.                           *)

\* Bound: a call starts only while ids remain for all that calls may have to
\* save.  A find whose index holds a match that outlives the clock saves none.
Room(n) ==
    LET pledged == {k \in Proc \X Type :
                      lane[k[1]][k[2]].pc \in {"index", "scan", "archive", "found"}}
    IN  n = 0 \/ Cardinality(pledged) + n <= Cardinality(Id \ Used)
Lasting(ty, c, attrs) ==
    \E id \in active[ty][c] : Match(ty, id, c, attrs) /\ body[ty][id].expiresAt > MaxTime

FindOrSave(p, c, attrs, refresh) ==
    /\ Room(Cardinality({ty \in Type : /\ ty = "access_token" \/ refresh
                                      /\ ~Lasting(ty, c, attrs)}))
    /\ Begin(p, [Idle EXCEPT !.op = "findOrSave", !.consumer = c, !.attrs = attrs])
    /\ lane' = [lane EXCEPT ![p] = [ty \in Type |->
                  IF ty = "access_token" \/ refresh THEN Start ELSE Off]]
    /\ UNCHANGED <<now, store, gets, owed>>

\* service.save with refreshTokenOnly, as the exchanges call it when access
\* tokens are JWTs; the lane starts where findOrSave's ends.
SaveRefreshOnly(p, c, attrs) ==
    /\ Room(1)
    /\ Begin(p, [Idle EXCEPT !.op = "findOrSave", !.consumer = c, !.attrs = attrs])
    /\ lane' = [lane EXCEPT ![p] = [ty \in Type |->
                  IF ty = "refresh_token" THEN [Off EXCEPT !.pc = "found"] ELSE Off]]
    /\ UNCHANGED <<now, store, gets, owed>>

\* After the loop over candidates: archive the stale ids, if there are any.
AfterScan(stale) == IF stale = {} THEN "found" ELSE "archive"

\* The reply to hgetall of the consumer's index: split it at Date.now().
ReadIndex(p, ty) ==
    /\ lane[p][ty].pc = "index"
    /\ LET ids == active[ty][call[p].consumer]
           live == {id \in ids : ~Expired(ty, id)}
           stale == ids \ live
       IN  SetLane(p, ty, [Off EXCEPT
               !.pc = IF live = {} THEN AfterScan(stale) ELSE "scan",
               !.scan = live, !.stale = stale, !.seen = live])
    /\ UNCHANGED <<now, store, call, gets, dead, owed>>

\* Mutant: the loop stops one short, with the last candidate unread.
ReadCandidate_StopsShort(p, ty, id) ==
    LET l == lane[p][ty]
    IN  /\ l.pc = "scan" /\ l.scan = {id}
        /\ SetLane(p, ty, [l EXCEPT !.pc = AfterScan(l.stale), !.scan = {}])
        /\ UNCHANGED <<now, store, call, gets, dead, owed>>

\* Mutant: a hit resolves the find at once, before it archives what had expired.
ReadCandidate_HitForgets(p, ty, id) ==
    LET l == lane[p][ty]
        rest == l.scan \ {id}
    IN  /\ l.pc = "scan" /\ id \in l.scan
        /\ SetLane(p, ty,
             IF Match(ty, id, call[p].consumer, call[p].attrs)
             THEN [l EXCEPT !.pc = "found", !.scan = {}, !.hit = id]
             ELSE [l EXCEPT !.pc = IF rest = {} THEN AfterScan(l.stale) ELSE "scan",
                            !.scan = rest])
        /\ UNCHANGED <<now, store, call, gets, dead, owed>>

\* The reply to hgetall of the next candidate, in the order Redis listed them.
ReadCandidate(p, ty, id) ==
    LET l == lane[p][ty]
        rest == l.scan \ {id}
    IN  /\ l.pc = "scan" /\ id \in l.scan
        /\ SetLane(p, ty,
             IF Match(ty, id, call[p].consumer, call[p].attrs)
             THEN [l EXCEPT !.pc = AfterScan(l.stale), !.scan = {}, !.hit = id]
             ELSE [l EXCEPT !.pc = IF rest = {} THEN AfterScan(l.stale) ELSE "scan",
                            !.scan = rest])
        /\ UNCHANGED <<now, store, call, gets, dead, owed>>

\* A candidate that cannot be read is passed over like one that differs.
CandidateError(p, ty, id) ==
    LET l == lane[p][ty]
        rest == l.scan \ {id}
    IN  /\ Errors
        /\ l.pc = "scan" /\ id \in l.scan
        /\ SetLane(p, ty, [l EXCEPT !.scan = rest, !.seen = @ \ {id},
                             !.pc = IF rest = {} THEN AfterScan(l.stale) ELSE "scan"])
        /\ UNCHANGED <<now, store, call, gets, dead, owed>>

ArchiveStale(p, ty) ==
    /\ lane[p][ty].pc = "archive"
    /\ Archive(ty, lane[p][ty].stale, call[p].consumer)
    /\ SetLane(p, ty, [lane[p][ty] EXCEPT !.pc = "found", !.stale = {}])
    /\ UNCHANGED <<now, call, gets, dead, owed>>

\* Promise.all of the finds has resolved: mint what is missing.  The four
\* branches of findOrSave save exactly the wanted tokens that were not found.
Missing(p) == {ty \in Type : lane[p][ty].pc = "found" /\ lane[p][ty].hit = None}

Decide(p) ==
    /\ \E ty \in Type : lane[p][ty].pc = "found"
    /\ \A ty \in Type : lane[p][ty].pc \in {"found", "off"}
    /\ \E fresh \in [Missing(p) -> Id \ Used] :
         /\ \A ty, tz \in Missing(p) : ty # tz => fresh[ty] # fresh[tz]
         /\ lane' = [lane EXCEPT ![p] = [ty \in Type |->
               LET l == lane[p][ty]
               IN  IF ty \in Missing(p)
                   THEN [l EXCEPT !.pc = "save", !.hit = fresh[ty], !.due = now + TTL[ty]]
                   ELSE IF l.pc = "found" THEN [l EXCEPT !.pc = "done", !.seen = {}] ELSE l]]
    /\ UNCHANGED <<now, store, call, gets, dead, owed>>

\* dao.save: the token's hash and its index entry, in one MULTI.
SaveToken(p, ty) ==
    LET l == lane[p][ty]
        c == call[p].consumer
    IN  /\ l.pc = "save"
        /\ body' = [body EXCEPT ![ty][l.hit] =
                     [consumer |-> c, attrs |-> call[p].attrs, expiresAt |-> l.due]]
        /\ active' = [active EXCEPT ![ty][c] = @ \cup {l.hit}]
        /\ SetLane(p, ty, [l EXCEPT !.pc = "done", !.due = 0, !.seen = {}])
        /\ UNCHANGED <<now, archived, expired, call, gets, dead, owed>>

\* The index read, the archiving or the save fails: its promise rejects.
CommandError(p, ty) ==
    /\ Errors
    /\ lane[p][ty].pc \in {"index", "archive", "save"}
    /\ SetLane(p, ty, [lane[p][ty] EXCEPT !.pc = "failed"])
    /\ UNCHANGED <<now, store, call, gets, dead, owed>>

\* Mutant: the call waits for a refresh token whether or not it wants one.
Settled_BothTypes(p) == \A ty \in Type : lane[p][ty].pc \in {"done", "failed"}

\* Promise.all has resolved, or has rejected and the other promise is over.
Settled(p) ==
    \/ \A ty \in Type : lane[p][ty].pc \in {"done", "off"}
    \/ /\ \E ty \in Type : lane[p][ty].pc = "failed"
       /\ \A ty \in Type : lane[p][ty].pc \in {"found", "done", "failed", "off"}

-----------------------------------------------------------------------------
(* service.get, getTokenObject, revoke and getTokensByConsumer.             *)

Get(p, ty, id, past) ==
    /\ Begin(p, [Idle EXCEPT !.op = "get", !.type = ty, !.past = past])
    /\ gets' = [gets EXCEPT ![p].reading = {id}]
    /\ UNCHANGED <<now, store, lane, owed>>

\* service.revoke first gets the token, as an access token that is not archived.
Revoke(p, id) ==
    /\ Begin(p, [Idle EXCEPT !.op = "revoke"])
    /\ gets' = [gets EXCEPT ![p].reading = {id}]
    /\ UNCHANGED <<now, store, lane, owed>>

\* dao.getTokensByConsumer: both indexes in one MULTI, then a get for each id.
List(p, ty, c, past) ==
    /\ Begin(p, [Idle EXCEPT !.op = "list", !.type = ty, !.past = past])
    /\ gets' = [gets EXCEPT ![p].reading =
                  active[ty][c] \cup (IF past THEN expired[ty][c] ELSE {})]
    /\ owed' = [owed EXCEPT ![p] =
                  {id \in Id : Saved(ty, id) /\ body[ty][id].consumer = c}]
    /\ UNCHANGED <<now, store, lane>>

\* Mutants of Outcome: an archived token counts as any other; a hash without
\* expiresAt counts as a token.
Outcome_IgnoresArchived(ty, id, past) ==
    IF ~Saved(ty, id) THEN "null" ELSE IF Expired(ty, id) THEN "revoke" ELSE "token"
Outcome_NoExpiresAtTest(ty, id, past) ==
    IF (~Saved(ty, id) /\ id \notin archived[ty]) \/ (id \in archived[ty] /\ ~past) THEN "null"
    ELSE IF Expired(ty, id) /\ id \notin archived[ty] THEN "revoke" ELSE "token"
\* What dao.get makes of the hash it read.
Outcome(ty, id, past) ==
    IF ~Saved(ty, id) \/ (id \in archived[ty] /\ ~past) THEN "null"
    ELSE IF Expired(ty, id) /\ id \notin archived[ty] THEN "revoke" ELSE "token"

\* dao.get: the reply to hgetall of the token's hash.
ReadToken(p, id) ==
    LET g == gets[p]
        outcome == Outcome(call[p].type, id, call[p].past)
    IN  /\ id \in g.reading
        /\ gets' = [gets EXCEPT ![p] =
             [reading  |-> g.reading \ {id},
              revoking |-> IF outcome = "revoke" THEN g.revoking \cup {id} ELSE g.revoking,
              got      |-> IF outcome = "token" THEN g.got \cup {id} ELSE g.got]]
        /\ UNCHANGED <<now, store, call, lane, dead, owed>>

\* dao.get revokes what it found expired.  It passes no options on, so revoke
\* takes the token for an access token whatever namespace it was read from.
RevokeExpired(p, id) ==
    /\ id \in gets[p].revoking
    /\ Archive("access_token", {id}, body[call[p].type][id].consumer)
    /\ LET g == gets[p]
       IN  gets' = [gets EXCEPT ![p] =
             [g EXCEPT !.revoking = @ \ {id},
                       !.got = IF call[p].past THEN @ \cup {id} ELSE @]]
    /\ UNCHANGED <<now, call, lane, dead, owed>>

\* One of the gets fails: the call will reject; its other gets run on.
GetError(p, id) ==
    /\ Errors
    /\ id \in gets[p].reading \cup gets[p].revoking
    /\ LET g == gets[p]
       IN  gets' = [gets EXCEPT ![p] =
             [g EXCEPT !.reading = @ \ {id}, !.revoking = @ \ {id}]]
    /\ call' = [call EXCEPT ![p].failed = TRUE]
    /\ UNCHANGED <<now, store, lane, dead, owed>>

GetsDone(p) == gets[p].reading = {} /\ gets[p].revoking = {}

\* service.revoke archives the token it got; it throws when there was none.
RevokeToken(p, id) ==
    /\ call[p].op = "revoke" /\ GetsDone(p)
    /\ id \in gets[p].got
    /\ Archive("access_token", {id}, body["access_token"][id].consumer)
    /\ call' = [call EXCEPT ![p] = Idle]
    /\ gets' = [gets EXCEPT ![p] = NoGets]
    /\ dead' = [dead EXCEPT ![p] = {}]
    /\ UNCHANGED <<now, lane, owed>>

\* Mutant: what the call had found leaks into the process's next call.
Return_KeepsLanes(p) ==
    /\ call[p].op = "findOrSave" /\ Settled(p)
    /\ call' = [call EXCEPT ![p] = Idle]
    /\ UNCHANGED <<now, store, lane, gets, dead, owed>>

\* The call's promise settles and the caller has its answer.  A revoke that
\* found its token gets here only when its own command fails.
Return(p) ==
    /\ \/ call[p].op = "findOrSave" /\ Settled(p)
       \/ call[p].op \in {"get", "list"} /\ GetsDone(p)
       \/ call[p].op = "revoke" /\ GetsDone(p) /\ (gets[p].got = {} \/ Errors)
    /\ call' = [call EXCEPT ![p] = Idle]
    /\ lane' = [lane EXCEPT ![p] = [ty \in Type |-> Off]]
    /\ gets' = [gets EXCEPT ![p] = NoGets]
    /\ dead' = [dead EXCEPT ![p] = {}]
    /\ owed' = [owed EXCEPT ![p] = {}]
    /\ UNCHANGED <<now, store>>

-----------------------------------------------------------------------------
Request(p) ==
    \/ \E c \in Consumer, attrs \in SUBSET Attr :
         \/ \E refresh \in BOOLEAN : FindOrSave(p, c, attrs, refresh)
         \/ SaveRefreshOnly(p, c, attrs)
    \/ \E id \in Id :
         \/ \E ty \in Type, past \in BOOLEAN : Get(p, ty, id, past)
         \/ Revoke(p, id)
    \/ \E ty \in Type, c \in Consumer, past \in BOOLEAN : List(p, ty, c, past)

Reply(p) ==
    \/ \E ty \in Type :
         \/ ReadIndex(p, ty)
         \/ \E id \in Id : ReadCandidate(p, ty, id)
         \/ ArchiveStale(p, ty)
         \/ SaveToken(p, ty)
    \/ Decide(p)
    \/ \E id \in Id : ReadToken(p, id) \/ RevokeExpired(p, id) \/ RevokeToken(p, id)
    \/ Return(p)

Fault(p) ==
    \/ \E ty \in Type : CommandError(p, ty) \/ \E id \in Id : CandidateError(p, ty, id)
    \/ \E id \in Id : GetError(p, id)

Next == Tick \/ \E p \in Proc : Request(p) \/ Reply(p) \/ Fault(p)

Spec == Init /\ [][Next]_vars

\* Redis answers every command: a call that waits for a reply gets one.
FairSpec == Spec /\ \A p \in Proc : WF_vars(Reply(p))

-----------------------------------------------------------------------------
(* Properties.                                                              *)

\* Every variable has its type; a lane works for a findOrSave, and one that
\* saves has its token.
TypeOK ==
    /\ now \in 0..MaxTime
    /\ body \in [Type -> [Id -> Body \cup {None}]]
    /\ archived \in [Type -> SUBSET Id]
    /\ active \in [Type -> [Consumer -> SUBSET Id]]
    /\ expired \in [Type -> [Consumer -> SUBSET Id]]
    /\ call \in [Proc -> Call]
    /\ lane \in [Proc -> [Type -> Lane]]
    /\ gets \in [Proc -> Gets]
    /\ dead \in [Proc -> SUBSET (Type \X Id)]
    /\ owed \in [Proc -> SUBSET Id]
    /\ \A p \in Proc, ty \in Type :
         /\ lane[p][ty].pc # "off" =>
              call[p].op = "findOrSave" /\ call[p].consumer \in Consumer
         /\ lane[p][ty].pc = "save" => lane[p][ty].hit # None

\* The two indexes of a consumer and the hashes of its tokens agree between any
\* two commands, although find, get and revoke write them from different places
\* and several of them may archive the same token (token.dao.js 32-36, 97-111,
\* 155-160): a token is in the active index of its own consumer exactly while it
\* is not archived, and in the expired index once it is.
IndexConsistent ==
    \A ty \in Type, id \in Id, c \in Consumer :
        /\ id \in active[ty][c] <=>
             Saved(ty, id) /\ body[ty][id].consumer = c /\ id \notin archived[ty]
        /\ Saved(ty, id) /\ body[ty][id].consumer = c =>
             (id \in expired[ty][c] <=> id \in archived[ty])

(***************************************************************************)
(* IndexConsistent is not inductive alone.  IndexInv adds what the store   *)
(* also keeps, and what the calls must hold for their next write to be     *)
(* harmless: a token about to be saved is new in every hash, and what is   *)
(* about to be archived was saved for the consumer named with it.          *)
(***************************************************************************)
IdsUnique == \A id \in Id : ~(Saved("access_token", id) /\ Saved("refresh_token", id))

ExpiredArchived ==
    \A ty \in Type, c \in Consumer : expired[ty][c] \subseteq archived[ty]

ArchivedKnown == \A ty \in Type : \A id \in archived[ty] : \E tz \in Type : Saved(tz, id)

StoreInv == IndexConsistent /\ IdsUnique /\ ExpiredArchived /\ ArchivedKnown

MintedFresh ==
    \A p \in Proc, ty \in Type : lane[p][ty].pc = "save" =>
      /\ \A tz \in Type : ~Saved(tz, lane[p][ty].hit)
      /\ \A q \in Proc, tz \in Type :
           lane[q][tz].pc = "save" /\ lane[q][tz].hit = lane[p][ty].hit => q = p /\ tz = ty

StaleOwned ==
    \A p \in Proc, ty \in Type : \A id \in lane[p][ty].stale :
        Saved(ty, id) /\ body[ty][id].consumer = call[p].consumer

GotSaved ==
    \A p \in Proc : \A id \in gets[p].revoking \cup gets[p].got : Saved(call[p].type, id)

CallsClean ==
    \A p \in Proc :
      /\ call[p].op # "findOrSave" => \A ty \in Type : lane[p][ty] = Off
      /\ call[p].op \in {"idle", "findOrSave"} => gets[p] = NoGets
      /\ call[p].op = "revoke" => call[p].type = "access_token"

IndexInv == StoreInv /\ MintedFresh /\ StaleOwned /\ GotSaved /\ CallsClean

\* Revoking an expired refresh token writes a stray access-token hash that has
\* nothing but "archived", and lists it as an expired access token (dao.get
\* drops its options, token.dao.js 132).  No call ever returns such a hash: the
\* test of expiresAt in dao.get stands in the way (token.dao.js 123).
StraysNeverReturned ==
    \A p \in Proc : \A id \in gets[p].got : Saved(call[p].type, id)

\* findOrSave mints a token only if none of the live tokens it listed, and could
\* read, matches (token.service.js 53-76, token.dao.js 62-90): a duplicate can
\* come only from a save that happened after this call read the index.
SaveOnlyIfNoMatch ==
    \A p \in Proc, ty \in Type :
        lane[p][ty].pc = "save" =>
            \A id \in lane[p][ty].seen : ~Match(ty, id, call[p].consumer, call[p].attrs)

\* A listing that asks for expired tokens too returns all that were saved for
\* the consumer when it began, also those archived meanwhile (token.dao.js
\* 163-205; tests "should get active and expired ... tokens by consumer").
ListingComplete ==
    \A p \in Proc :
        call[p].op = "list" /\ call[p].past /\ GetsDone(p) /\ ~call[p].failed
            => owed[p] \subseteq gets[p].got

(***************************************************************************)
(* The store keeps the promise of TokenLifecycle.  Its ids live in two     *)
(* namespaces, of which a stray hash holds nothing a call is answered with.*)
(***************************************************************************)
StatusOf(ty, id) ==
    IF ~Saved(ty, id) THEN "unborn"
    ELSE IF id \in archived[ty] \/ Expired(ty, id) THEN "dead" ELSE "live"

Lifecycle == INSTANCE TokenLifecycle WITH
    Token   <- Type \X Id,
    status  <- [k \in Type \X Id |-> StatusOf(k[1], k[2])],
    calling <- {p \in Proc : call[p].op # "idle"},
    barred  <- [p \in Proc |-> IF call[p].past THEN {} ELSE {k \in dead[p] : Saved(k[1], k[2])}],
    answer  <- [p \in Proc |->
                  {k \in Type \X Id : lane[p][k[1]].hit = k[2] /\ Saved(k[1], k[2])}
                  \cup {k \in Type \X Id : k[1] = call[p].type /\ k[2] \in gets[p].got}]

\* A token that was archived or had expired when a findOrSave began is never the one
\* it returns, although its loop compares no "archived" field (token.dao.js 54-90); a
\* get, revoke or listing without includeExpired returns none either (116-140); and
\* nothing brings an archived or expired token back.
ImplementsLifecycle == Lifecycle!Spec

\* Every call settles: the loop over the candidates ends, and Promise.all waits
\* for nothing that never comes.
CallsSettle == \A p \in Proc : call[p].op # "idle" ~> call[p].op = "idle"

\* Expired tokens that a find comes across are archived, whether or not the find
\* found what it was looking for (token.dao.js 97-111).
StaleArchived ==
    \A p \in Proc, ty \in Type, id \in Id :
        id \in lane[p][ty].stale ~> id \in archived[ty]
=============================================================================
