---------------------------- MODULE Credentials ----------------------------
(***************************************************************************)
(* Credentials and scopes: lib/services/credentials, as the admin routes   *)
(* rest/routes/credentials.js and scopes.js and the removal of a user call *)
(* them.  Two operations of the service, updateCredential and              *)
(* removeCredential, no route calls.                                       *)
(*                                                                         *)
(* A credential is one Redis hash.  basic-auth and oauth2 credentials are  *)
(* single: their id is the consumer's.  key-auth and jwt credentials have  *)
(* ids of their own, and a set lists them by consumer.  What scopes a      *)
(* credential has is kept twice: in its hash, and, for the removal of a    *)
(* scope to find it, in the hash scope-credentials of each scope.  The two *)
(* are written by separate commands sent at once.                          *)
(***************************************************************************)
EXTENDS Naturals, FiniteSets

CONSTANTS
    Consumer,   \* consumers, and ids of their single credentials
    Key,        \* ids of keys; a client may choose the id of a key it inserts
    Scope,
    Proc,       \* calls in progress, in any gateway process
    None,       \* nothing
    Gone        \* the reply to a read of a hash that is not there

Cred == Consumer \cup Key

Op == {"insert", "add", "remove", "set", "activate", "deactivate", "update", "removeScope"}

\* owner: the consumer whose insertion wrote the hash; without it there is no
\* secret and no consumerId.  No scopes, null scopes and [] are the same.
Credential == [owner : Consumer \cup {None}, isActive : BOOLEAN, scopes : SUBSET Scope]

ASSUME CredentialsAssumption ==
    /\ Consumer \cap Key = {}
    /\ None # Gone /\ None \notin Op
    /\ \A x \in Cred \cup Credential \cup Scope : x \notin {None, Gone}
    /\ \A ss \in SUBSET Scope : ss \notin {None, Gone}
    /\ {"hash", "list"} \cap Scope = {}

VARIABLES
    scopes,     \* the scopes defined
    creds,      \* creds[c]: the hash of credential c, or None
    assoc,      \* assoc[s]: the credentials in scope-credentials of s
    lists,      \* lists[k]: the key ids in the set of consumer k
    call,       \* call[p]: the operation p is executing
    there,      \* the consumers that findConsumer finds
    raced,      \* history: credentials that two overlapping calls may give scopes
    cut,        \* history: credentials deleted while a call was about to write them
    put,        \* history: credentials whose scopes were set as a whole
    cleared     \* history: consumers whose credentials were removed after them, with no
                \* call under way that had found the consumer or read its credential

store == <<scopes, creds, assoc, lists, there>>
hist  == <<raced, cut, put, cleared>>
vars  == <<store, call, hist>>

\* op on cred, of owner if it is an insertion, or on the one scope wanted if it is
\* "removeScope".  want: the scopes named, None if an insertion names none.  need,
\* reading: scopes whose existence, and credentials whose hash, is still to be read.
\* seen: what the reads of hashes gave.  writes: the commands still to be executed.
Call == [op : Op \cup {None}, cred : Cred \cup {None}, owner : Consumer \cup {None},
         want : {None} \cup SUBSET Scope, reading : SUBSET Cred, need : SUBSET Scope,
         seen : [Cred -> {None, Gone} \cup SUBSET Scope],
         writes : SUBSET (Scope \cup {"hash", "list"})]
Nothing == [c \in Cred |-> None]
Idle == [op |-> None, cred |-> None, owner |-> None, want |-> None, reading |-> {},
         need |-> {}, seen |-> Nothing, writes |-> {}]

Init ==
    /\ scopes = {}
    /\ creds = [c \in Cred |-> None]
    /\ assoc = [s \in Scope |-> {}]
    /\ lists = [k \in Consumer |-> {}]
    /\ call = [p \in Proc |-> Idle]
    /\ there = Consumer
    /\ raced = {} /\ cut = {} /\ put = {} /\ cleared = {}

\* The credentials a call may write, and those whose scopes it may write.
About(c) == IF c.op = "removeScope" THEN Cred ELSE {c.cred} \ {None}
Rescoped(c) == IF c.op \in {"activate", "deactivate", "update"} THEN {} ELSE About(c)

Begin(p, c) ==
    /\ call[p] = Idle
    /\ call' = [call EXCEPT ![p] = c]
    /\ raced' = raced \cup (Rescoped(c) \cap UNION {Rescoped(call[q]) : q \in Proc})
    /\ UNCHANGED <<store, cut, put, cleared>>

Quit(p) == call' = [call EXCEPT ![p] = Idle]

\* hmset of a credential's scopes or status, over its hash or over nothing.
Hash(c) == IF creds[c] = None THEN [owner |-> None, isActive |-> FALSE, scopes |-> {}]
                              ELSE creds[c]

-----------------------------------------------------------------------------
(* Scopes.                                                                  *)

\* s.insertScopes: hget, then hmset.  Its second command changes what its first
\* alone could have: the two are one step.
InsertScope(s) ==
    /\ scopes' = scopes \cup {s}
    /\ UNCHANGED <<creds, assoc, lists, there, call, hist>>

\* dao.removeScopes begins with hgetall of the credentials of the scope.
RemoveScope(p, s) ==
    Begin(p, [Idle EXCEPT !.op = "removeScope", !.want = {s}, !.reading = assoc[s]])

Seen(c) == IF creds[c] = None THEN Gone ELSE creds[c].scopes

\* hgetall of each of them.
ReadAssociated(p, c) ==
    LET m == call[p] IN
    /\ m.op = "removeScope" /\ c \in m.reading
    /\ call' = [call EXCEPT ![p] = [m EXCEPT !.reading = m.reading \ {c},
                                            !.seen = [m.seen EXCEPT ![c] = Seen(c)]]]
    /\ UNCHANGED <<store, hist>>

\* Mutant: credentials that are gone are written as well.
Rewritten_Gone(seen) == {c \in Cred : seen[c] # None}

\* if (credentialObj && credentialObj.scopes)
Rewritten(seen) == {c \in Cred : seen[c] \notin {None, Gone}}

\* newScopes: what was read, less the scope.
Left(ss, s) == IF ss = Gone THEN {} ELSE ss \ {s}

\* The transaction: the scope, its associations, and the scopes of the credentials.
RemoveScopeExec(p, s) ==
    LET seen == call[p].seen
    IN  /\ call[p].op = "removeScope" /\ call[p].reading = {} /\ call[p].want = {s}
        /\ scopes' = scopes \ {s}
        /\ assoc' = [assoc EXCEPT ![s] = {}]
        /\ creds' = [c \in Cred |-> IF c \in Rewritten(seen)
                                    THEN [Hash(c) EXCEPT !.scopes = Left(seen[c], s)]
                                    ELSE creds[c]]
        /\ Quit(p)
        /\ UNCHANGED <<lists, there, hist>>

-----------------------------------------------------------------------------
(* Credentials.                                                             *)

\* Mutant: a scope is added to the credential and not to the scope's associations.
Associated_NotAdd(op, want) == IF op \in {"insert", "remove"} /\ want # None THEN want ELSE {}

\* The scopes whose associations are written: those inserted, added or removed.
Associated(op, want) ==
    IF op \in {"insert", "add", "remove"} /\ want # None THEN want ELSE {}

\* The commands that write what the operation asks for.
Writes(op, c, want) ==
    {"hash"} \cup Associated(op, want) \cup (IF op = "insert" /\ c \in Key THEN {"list"} ELSE {})

\* Mutant: the credential need not exist.
Refused_NotNone(op, h) == op = "insert" /\ h # None /\ h.isActive

\* An insertion over an active credential, any other operation on none, and the
\* status there is already, are refused.
Refused(op, h) ==
    \/ op # "insert" /\ h = None
    \/ op \in {"insert", "activate"} /\ h # None /\ h.isActive
    \/ op = "deactivate" /\ h # None /\ ~h.isActive

\* The call begins with hgetall of the credential.  (Scopes are asked for at the same
\* time or later; which of the two answers comes first makes no difference.  A change of
\* status reads the hash twice, in the route and in the service, which asks only whether
\* it is there: a call that this second read stops is one that does not go on.  Nor does
\* the removal of a scope from a credential whose hash has no scopes at all, where
\* credential.scopes.filter throws; from one whose scopes are [] it goes on.)
Operate(p, op, c, want, need) ==
    /\ ~Refused(op, creds[c])
    /\ Begin(p, [Idle EXCEPT !.op = op, !.cred = c, !.want = want, !.need = need,
                             !.seen = [Nothing EXCEPT ![c] = Seen(c)],
                             !.writes = Writes(op, c, want)])

\* Mutant: credentials are inserted for whatever id is given.
Found_Any(k) == TRUE

\* findConsumer, by which every insertion begins.
Found(k) == k \in there

\* An insertion of a single credential of k, with scopes or without, has found k.
InsertSingle(p, k, want) ==
    /\ Found(k)
    /\ Begin(p, [Idle EXCEPT !.op = "insert", !.cred = k, !.owner = k, !.want = want])

\* checkSingleCredExistence.
LookUp(p) ==
    LET c == call[p] IN
    /\ c.op = "insert" /\ c.writes = {}
    /\ IF Refused("insert", creds[c.cred]) THEN Quit(p)
       ELSE call' = [call EXCEPT ![p] = [c EXCEPT !.need = IF c.want = None THEN {} ELSE c.want,
                                                  !.writes = Writes("insert", c.cred, c.want)]]
    /\ UNCHANGED <<store, hist>>

\* An insertion of key c for consumer k: nothing is read of the key.
InsertKey(p, k, c, want) ==
    /\ Found(k)
    /\ Begin(p, [Idle EXCEPT !.op = "insert", !.cred = c, !.owner = k, !.want = want,
                             !.need = want, !.writes = Writes("insert", c, want)])

\* PUT and DELETE of one scope of a credential, PUT of all its scopes, PUT of its
\* status, and updateCredential of its properties.  Only the first asks whether the scope
\* exists.
AddScope(p, c, s)   == Operate(p, "add", c, {s}, {s})
DropScope(p, c, s)  == Operate(p, "remove", c, {s}, {})
SetScopes(p, c, ss) == Operate(p, "set", c, ss, {})
SetStatus(p, c, op) == Operate(p, op, c, None, {})
Update(p, c)        == Operate(p, "update", c, None, {})

\* hget of a scope that must exist.
CheckScope(p, s) ==
    /\ s \in call[p].need
    /\ IF s \in scopes THEN call' = [call EXCEPT ![p].need = @ \ {s}] ELSE Quit(p)
    /\ UNCHANGED <<store, hist>>

\* Mutant: a removal writes all the scopes it read or was asked to remove.
NewScopes_Union(op, want, seen) ==
    CASE op \in {"add", "remove"} -> seen \cup want
      [] OTHER -> want

\* The scopes written to the hash, computed from the scopes read.
NewScopes(op, want, seen) ==
    CASE op = "add" -> seen \cup want
      [] op = "remove" -> seen \ want
      [] OTHER -> want

\* The hash after the hmset of a call.
Written(c) ==
    LET h == Hash(c.cred)
        new == NewScopes(c.op, c.want, c.seen[c.cred])
    IN  CASE c.op = "activate" -> [h EXCEPT !.isActive = TRUE]
          [] c.op = "deactivate" -> [h EXCEPT !.isActive = FALSE]
          [] c.op = "update" -> h
          [] c.op = "insert" -> [owner |-> c.owner, isActive |-> TRUE,
                                 scopes |-> IF c.want = None THEN h.scopes ELSE new]
          [] OTHER -> [h EXCEPT !.scopes = new]

\* Once all reads have been answered the writes are sent, all at once.  One of them,
\* w, is executed now; after the last, p is done.
Executed(p, w) ==
    /\ call[p].reading = {} /\ call[p].need = {}
    /\ w \in call[p].writes
    /\ IF call[p].writes = {w} THEN Quit(p)
       ELSE call' = [call EXCEPT ![p].writes = @ \ {w}]

WriteHash(p) ==
    LET c == call[p]
    IN  /\ Executed(p, "hash")
        /\ creds' = [creds EXCEPT ![c.cred] = Written(c)]
        /\ put' = IF c.op = "set" THEN put \cup {c.cred} ELSE put
        /\ UNCHANGED <<scopes, assoc, lists, there, raced, cut, cleared>>

\* hset or hdel in scope-credentials of s.
WriteAssociation(p, s) ==
    LET c == call[p]
    IN  /\ Executed(p, s)
        /\ assoc' = [assoc EXCEPT ![s] = IF c.op = "remove" THEN @ \ {c.cred} ELSE @ \cup {c.cred}]
        /\ UNCHANGED <<scopes, creds, lists, there, hist>>

\* sadd of a key to its consumer's set.  (Other operations on a key add it to the set of
\* undefined, which nothing reads.)
WriteList(p) ==
    /\ Executed(p, "list")
    /\ lists' = [lists EXCEPT ![call[p].owner] = @ \cup {call[p].cred}]
    /\ UNCHANGED <<scopes, creds, assoc, there, hist>>

\* The hashes that dao.removeAllCredentials deletes.  It asks for the list of the
\* keys, but does not wait for the answer: the transaction has been executed when
\* the deletions of the keys, and of their associations, are queued on it.
Deleted(k) == {k}

\* A user or an application is removed.  Ids are uuids: it does not come back.
RemoveConsumer(k) ==
    /\ there' = there \ {k}
    /\ UNCHANGED <<scopes, creds, assoc, lists, call, hist>>

\* The credentials of ids are deleted, those about to be written among them.
Cut(ids) == cut' = cut \cup (ids \cap UNION {About(call[q]) : q \in Proc})

\* Call c goes on writing a credential of k, or k into a list.
Late(c, k) == c.cred = k \/ c.owner = k \/ c.seen[k] \notin {None, Gone}

\* dao.removeAllCredentials, which the removal of a user calls once it has removed the
\* user; that of an application does not.
RemoveAll(k) ==
    /\ k \notin there
    /\ creds' = [c \in Cred |-> IF c \in Deleted(k) THEN None ELSE creds[c]]
    /\ lists' = [lists EXCEPT ![k] = {}]
    /\ Cut({k})
    /\ cleared' = IF \E q \in Proc : Late(call[q], k) THEN cleared \ {k} ELSE cleared \cup {k}
    /\ UNCHANGED <<scopes, assoc, call, there, raced, put>>

\* s.removeCredential: the hash alone.
RemoveCredential(c) ==
    /\ creds' = [creds EXCEPT ![c] = None]
    /\ Cut({c})
    /\ UNCHANGED <<scopes, assoc, lists, call, there, raced, put, cleared>>

-----------------------------------------------------------------------------

Request(p) ==
    \/ \E s \in Scope : RemoveScope(p, s)
    \/ \E k \in Consumer, want \in {None} \cup SUBSET Scope : InsertSingle(p, k, want)
    \/ \E k \in Consumer, c \in Key, want \in SUBSET Scope : InsertKey(p, k, c, want)
    \/ \E c \in Cred, s \in Scope : AddScope(p, c, s) \/ DropScope(p, c, s)
    \/ \E c \in Cred, want \in SUBSET Scope : SetScopes(p, c, want)
    \/ \E c \in Cred, op \in {"activate", "deactivate"} : SetStatus(p, c, op)
    \/ \E c \in Cred : Update(p, c)

Reply(p) ==
    \/ \E c \in Cred : ReadAssociated(p, c)
    \/ \E s \in Scope : RemoveScopeExec(p, s) \/ CheckScope(p, s) \/ WriteAssociation(p, s)
    \/ LookUp(p) \/ WriteHash(p) \/ WriteList(p)

Next ==
    \/ \E s \in Scope : InsertScope(s)
    \/ \E k \in Consumer : RemoveConsumer(k) \/ RemoveAll(k)
    \/ \E c \in Cred : RemoveCredential(c)
    \/ \E p \in Proc : Request(p) \/ Reply(p)

Spec == Init /\ [][Next]_vars

-----------------------------------------------------------------------------
(* Properties.                                                              *)

\* Every variable has its type, and a call that writes scopes has read the hash.
TypeOK ==
    /\ scopes \in SUBSET Scope
    /\ creds \in [Cred -> Credential \cup {None}]
    /\ assoc \in [Scope -> SUBSET Cred]
    /\ lists \in [Consumer -> SUBSET Key]
    /\ call \in [Proc -> Call]
    /\ raced \in SUBSET Cred /\ cut \in SUBSET Cred /\ put \in SUBSET Cred
    /\ there \in SUBSET Consumer /\ cleared \in SUBSET Consumer
    /\ \A p \in Proc : call[p].op \in {"add", "remove"}
         => call[p].seen[call[p].cred] \notin {None, Gone}

\* Unless two overlapping calls wrote its scopes, or they were set as a whole, a
\* credential no call is writing has only scopes that are defined, and that will
\* be taken from it when they are removed, whatever removals of users, changes of
\* status, and calls on other credentials overlap (credential.dao.js 39-94,
\* credential.service.js 214-246).
ScopesAgree ==
    \A c \in Cred \ (raced \cup put \cup UNION {Rescoped(call[q]) : q \in Proc}) :
        creds[c] # None => \A s \in creds[c].scopes : s \in scopes /\ c \in assoc[s]

\* A hash without owner, which no insertion wrote, is left behind only by a call
\* that was about to write it when it was deleted (credential.dao.js 83-87,
\* 136-142; credential.service.js 156-180, 214-257).
GhostsAreCut == \A c \in Cred : creds[c] # None /\ creds[c].owner = None => c \in cut

\* A consumer whose credentials were removed, with no call on them under way, never has a
\* single credential or a list of keys again: whatever begins later finds neither the
\* consumer nor a credential (user.service.js 118-133, credentials.js 23-35, findConsumer.js).
\* Its keys, and what is associated with a scope, are another matter: see RemovedLoseKeys.
RemovedStayClear == \A k \in cleared : creds[k] = None /\ lists[k] = {}

\* The removal of a user's credentials, which empties the list of its keys, deletes each
\* key the list held and removes it from the scopes (credential.dao.js 161-178: Get a list
\* of all keys the user owns and all the scopes so we can remove keys from them).
RemovedLoseKeys ==
    [][\A k \in Consumer : lists'[k] = {} =>
         \A c \in lists[k] : creds'[c] = None /\ \A s \in Scope : c \notin assoc'[s]]_vars

\* Unless two overlapping calls write its scopes, or it is deleted under such
\* a call, a credential gains a scope only by a call asked to give it that scope
\* (credential.service.js 214-257).
NoScopeUnasked ==
    [][\A c \in Cred \ (raced \cup cut) : creds'[c] # None =>
         \A s \in creds'[c].scopes :
           \/ creds[c] # None /\ s \in creds[c].scopes
           \/ \E p \in Proc : /\ call[p].cred = c /\ call[p].op \in {"insert", "add", "set"}
                              /\ call[p].want # None /\ s \in call[p].want]_vars
=============================================================================
