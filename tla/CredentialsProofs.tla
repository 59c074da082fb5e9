------------------------- MODULE CredentialsProofs -------------------------
(* Theorems about Credentials, for every value of its constants.            *)
EXTENDS Credentials, TLAPS

-----------------------------------------------------------------------------
(* Types.                                                                   *)

\* What call c has to know.
Sound(c) ==
    /\ c.op \in {"add", "remove", "set"} => c.want \in SUBSET Scope
    /\ c.op \in {"add", "remove"} => c.seen[c.cred] \in SUBSET Scope
    /\ c.op \notin {None, "removeScope"} => c.cred \in Cred
    /\ c.op = "insert" => c.owner \in Consumer
    /\ "list" \in c.writes => c.op = "insert" /\ c.cred \in Key /\ c.owner \in Consumer
    /\ c.op \in {None, "removeScope"} => c.writes = {} /\ c.need = {}

TypeInv == TypeOK /\ \A p \in Proc : Sound(call[p])

\* The call of p becomes c.
Becomes(p, c) == c \in Call /\ Sound(c) /\ call' = [call EXCEPT ![p] = c]

\* Whatever is no call stays typed.
Stored ==
    /\ scopes' \in SUBSET Scope
    /\ creds' \in [Cred -> Credential \cup {None}]
    /\ assoc' \in [Scope -> SUBSET Cred]
    /\ lists' \in [Consumer -> SUBSET Key]
    /\ raced' \in SUBSET Cred /\ cut' \in SUBSET Cred /\ put' \in SUBSET Cred
    /\ there' \in SUBSET Consumer /\ cleared' \in SUBSET Consumer

\* None and Gone are no sets of scopes, credentials or names of operations.
LEMMA Apart ==
    /\ None # Gone /\ None \notin Op /\ "hash" \notin Scope /\ "list" \notin Scope
    /\ None \notin Cred /\ Gone \notin Cred /\ None \notin Credential /\ None \notin Scope
    /\ None \notin SUBSET Scope /\ Gone \notin SUBSET Scope
    /\ Consumer \subseteq Cred /\ Key \subseteq Cred /\ Consumer \cap Key = {}
  BY CredentialsAssumption DEF Cred

\* One call changes, and knows what it has to.
LEMMA StepTyped ==
    ASSUME TypeInv, NEW p \in Proc, NEW c, Becomes(p, c), Stored
    PROVE  TypeInv'
<1>1. call' \in [Proc -> Call] /\ \A q \in Proc : Sound(call'[q])
  BY DEF Becomes, TypeInv, TypeOK
<1>2. \A q \in Proc : call'[q].op \in {"add", "remove"} => call'[q].seen[call'[q].cred] \notin {None, Gone}
  BY <1>1, Apart DEF Sound
<1>3. TypeOK'
  BY <1>1, <1>2 DEF TypeOK, Stored
<1>. QED
  BY <1>1, <1>3 DEF TypeInv

\* No call changes.
LEMMA CallsSame ==
    ASSUME TypeInv, Stored, UNCHANGED call
    PROVE  TypeInv'
  BY DEF TypeInv, TypeOK, Stored

\* Stores that are not touched stay typed.
LEMMA StoredSame ==
    ASSUME TypeInv, UNCHANGED <<store, cut, put, cleared>>, raced' \in SUBSET Cred
    PROVE  Stored
  BY DEF TypeInv, TypeOK, Stored, store

\* An idle call is well formed.
LEMMA IdleTyped == Idle \in Call /\ Sound(Idle) /\ Nothing \in [Cred -> {None}]
  BY Apart DEF Idle, Call, Sound, Nothing, Op

\* A call that is over.
LEMMA Quits ==
    ASSUME NEW p \in Proc, Quit(p)
    PROVE  Becomes(p, Idle)
  BY IdleTyped DEF Quit, Becomes

\* A new call, of which raced takes notice.
LEMMA BeginTyped ==
    ASSUME TypeInv, NEW p \in Proc, NEW c \in Call, Sound(c), Begin(p, c)
    PROVE  /\ TypeInv'
           /\ call[p] = Idle /\ Becomes(p, c)
           /\ UNCHANGED <<store, cut, put, cleared>>
<1>1. raced' \in SUBSET Cred
  BY DEF Begin, Rescoped, About, TypeInv, TypeOK, Call
<1>2. Becomes(p, c) /\ UNCHANGED <<store, cut, put, cleared>>
  BY DEF Begin, Becomes
<1>. QED
  BY <1>1, <1>2, StoredSame, StepTyped DEF Begin

\* What a read of a hash gives.
LEMMA SeenTyped ==
    ASSUME TypeInv, NEW c \in Cred
    PROVE  /\ creds[c] = None => Seen(c) = Gone
           /\ creds[c] # None => /\ creds[c] \in Credential
                                 /\ Seen(c) = creds[c].scopes /\ Seen(c) \in SUBSET Scope
  BY DEF TypeInv, TypeOK, Seen, Credential

\* The commands of an operation.
LEMMA WritesTyped ==
    ASSUME NEW op \in Op, NEW c \in Cred, NEW want \in {None} \cup SUBSET Scope
    PROVE  /\ Writes(op, c, want) \in SUBSET (Scope \cup {"hash", "list"})
           /\ "hash" \in Writes(op, c, want)
           /\ "list" \in Writes(op, c, want) <=> op = "insert" /\ c \in Key
           /\ \A s \in Scope : s \in Writes(op, c, want) <=> s \in Associated(op, want)
  BY Apart DEF Writes, Associated

-----------------------------------------------------------------------------
(* New calls.                                                               *)

NewRemoval(s) == [Idle EXCEPT !.op = "removeScope", !.want = {s}, !.reading = assoc[s]]
NewSingle(k, want) == [Idle EXCEPT !.op = "insert", !.cred = k, !.owner = k, !.want = want]
NewKey(k, c, want) == [Idle EXCEPT !.op = "insert", !.cred = c, !.owner = k, !.want = want,
                                   !.need = want, !.writes = Writes("insert", c, want)]
NewOp(op, c, want, need) == [Idle EXCEPT !.op = op, !.cred = c, !.want = want, !.need = need,
                                         !.seen = [Nothing EXCEPT ![c] = Seen(c)],
                                         !.writes = Writes(op, c, want)]

\* The operations on a credential that is there.
Change == {"add", "remove", "set", "activate", "deactivate", "update"}

\* Such an operation, with what it is given.
Operates(p, op, c, want, need) ==
    /\ op \in Change /\ c \in Cred /\ want \in {None} \cup SUBSET Scope
    /\ IF op \in {"add", "remove", "set"} THEN want \in SUBSET Scope ELSE want = None
    /\ need = IF op = "add" THEN want ELSE {}
    /\ creds[c] # None
    /\ Begin(p, NewOp(op, c, want, need))

\* What the removal of a scope begins with.
LEMMA NewRemovalMade ==
    ASSUME TypeInv, NEW s \in Scope
    PROVE  LET n == NewRemoval(s) IN
           /\ n \in Call /\ Sound(n)
           /\ n.op = "removeScope" /\ n.want = {s} /\ n.reading = assoc[s]
           /\ n.cred = None /\ n.owner = None /\ n.seen = Nothing
<1>1. assoc[s] \in SUBSET Cred /\ {s} \in SUBSET Scope
  BY DEF TypeInv, TypeOK
<1>. QED
  BY <1>1, IdleTyped, Apart DEF NewRemoval, Idle, Call, Sound, Op

\* What the insertion of a single credential does.
LEMMA NewSingleMade ==
    ASSUME NEW k \in Consumer, NEW want \in {None} \cup SUBSET Scope
    PROVE  LET n == NewSingle(k, want) IN
           /\ n \in Call /\ Sound(n)
           /\ n.op = "insert" /\ n.cred = k /\ n.owner = k /\ n.want = want
           /\ n.seen = Nothing /\ n.writes = {} /\ n.need = {} /\ n.reading = {}
  BY IdleTyped, Apart DEF NewSingle, Idle, Call, Sound, Op

\* What that of a key does.
LEMMA NewKeyMade ==
    ASSUME NEW k \in Consumer, NEW c \in Key, NEW want \in SUBSET Scope
    PROVE  LET n == NewKey(k, c, want) IN
           /\ n \in Call /\ Sound(n)
           /\ n.op = "insert" /\ n.cred = c /\ n.owner = k /\ n.want = want /\ n.need = want
           /\ n.seen = Nothing /\ n.reading = {} /\ n.writes = Writes("insert", c, want)
<1>1. Writes("insert", c, want) \in SUBSET (Scope \cup {"hash", "list"})
  BY WritesTyped, Apart DEF Op
<1>. QED
  BY <1>1, IdleTyped, Apart DEF NewKey, Idle, Call, Sound, Op

\* What an operation on a credential begins with: the scopes it has.
LEMMA NewOpMade ==
    ASSUME TypeInv, NEW p \in Proc, NEW op, NEW c, NEW want, NEW need, Operates(p, op, c, want, need)
    PROVE  LET n == NewOp(op, c, want, need) IN
           /\ n \in Call /\ Sound(n)
           /\ n.op = op /\ n.cred = c /\ n.owner = None /\ n.want = want /\ n.need = need
           /\ n.reading = {} /\ n.writes = Writes(op, c, want)
           /\ n.seen[c] = creds[c].scopes /\ creds[c].scopes \in SUBSET Scope
           /\ \A d \in Cred \ {c} : n.seen[d] = None
<1>1. op \in Op \ {"insert", "removeScope"} /\ c \in Cred /\ want \in {None} \cup SUBSET Scope
      /\ need \in SUBSET Scope
  BY DEF Operates, Change, Op
<1>2. /\ Writes(op, c, want) \in SUBSET (Scope \cup {"hash", "list"})
      /\ "list" \notin Writes(op, c, want)
  BY <1>1, WritesTyped
<1>3. creds[c].scopes \in SUBSET Scope /\ Seen(c) = creds[c].scopes
  BY <1>1, SeenTyped DEF Operates
<1>. DEFINE n == NewOp(op, c, want, need)
            seen == [Nothing EXCEPT ![c] = Seen(c)]
<1>4. seen \in [Cred -> {None, Gone} \cup SUBSET Scope] /\ seen[c] = creds[c].scopes
      /\ \A d \in Cred \ {c} : seen[d] = None
  BY <1>1, <1>3 DEF Nothing
<1>5. /\ n.op = op /\ n.cred = c /\ n.owner = None /\ n.want = want /\ n.reading = {}
      /\ n.need = need /\ n.seen = seen /\ n.writes = Writes(op, c, want)
  BY DEF NewOp, Idle
<1>6. n \in Call
  BY <1>1, <1>2, <1>4 DEF NewOp, Idle, Call
<1>7. Sound(n)
  BY <1>1, <1>2, <1>3, <1>4, <1>5, Apart DEF Sound, Operates
<1>. QED
  BY <1>3, <1>4, <1>5, <1>6, <1>7

\* The requests, sorted by the form of call they begin.
LEMMA RequestCases ==
    ASSUME NEW p \in Proc, Request(p)
    PROVE  \/ \E s \in Scope : Begin(p, NewRemoval(s))
           \/ \E k \in Consumer, want \in {None} \cup SUBSET Scope : Found(k) /\ Begin(p, NewSingle(k, want))
           \/ \E k \in Consumer, c \in Key, want \in SUBSET Scope : Found(k) /\ Begin(p, NewKey(k, c, want))
           \/ \E op, c, want, need : Operates(p, op, c, want, need)
<1>1. ASSUME NEW s \in Scope, RemoveScope(p, s) PROVE Begin(p, NewRemoval(s))
  BY <1>1 DEF RemoveScope, NewRemoval
<1>2. ASSUME NEW k \in Consumer, NEW want \in {None} \cup SUBSET Scope, InsertSingle(p, k, want)
      PROVE  Found(k) /\ Begin(p, NewSingle(k, want))
  BY <1>2 DEF InsertSingle, NewSingle
<1>3. ASSUME NEW k \in Consumer, NEW c \in Key, NEW want \in SUBSET Scope, InsertKey(p, k, c, want)
      PROVE  Found(k) /\ Begin(p, NewKey(k, c, want))
  BY <1>3 DEF InsertKey, NewKey
<1>. DEFINE Some == \E op, c, want, need : Operates(p, op, c, want, need)
<1>4. ASSUME NEW c \in Cred, NEW s \in Scope, AddScope(p, c, s) PROVE Some
  <2>1. Operates(p, "add", c, {s}, {s})
    BY <1>4 DEF AddScope, Operate, Operates, Refused, NewOp, Change
  <2>. QED
    BY <2>1
<1>5. ASSUME NEW c \in Cred, NEW s \in Scope, DropScope(p, c, s) PROVE Some
  <2>1. Operates(p, "remove", c, {s}, {})
    BY <1>5 DEF DropScope, Operate, Operates, Refused, NewOp, Change
  <2>. QED
    BY <2>1
<1>6. ASSUME NEW c \in Cred, NEW want \in SUBSET Scope, SetScopes(p, c, want) PROVE Some
  <2>1. Operates(p, "set", c, want, {})
    BY <1>6 DEF SetScopes, Operate, Operates, Refused, NewOp, Change
  <2>. QED
    BY <2>1
<1>7. ASSUME NEW c \in Cred, NEW op \in {"activate", "deactivate"}, SetStatus(p, c, op) PROVE Some
  <2>1. Operates(p, op, c, None, {})
    BY <1>7 DEF SetStatus, Operate, Operates, Refused, NewOp, Change
  <2>. QED
    BY <2>1
<1>8. ASSUME NEW c \in Cred, Update(p, c) PROVE Some
  <2>1. Operates(p, "update", c, None, {})
    BY <1>8 DEF Update, Operate, Operates, Refused, NewOp, Change
  <2>. QED
    BY <2>1
<1>9. \/ \E s \in Scope : RemoveScope(p, s)
      \/ \E k \in Consumer, want \in {None} \cup SUBSET Scope : InsertSingle(p, k, want)
      \/ \E k \in Consumer, c \in Key, want \in SUBSET Scope : InsertKey(p, k, c, want)
      \/ Some
  <2>. HIDE DEF Some
  <2>. QED
    BY <1>4, <1>5, <1>6, <1>7, <1>8 DEF Request
<1>. HIDE DEF Some
<1>10. CASE \E s \in Scope : RemoveScope(p, s)
  BY <1>1, <1>10
<1>11. CASE \E k \in Consumer, want \in {None} \cup SUBSET Scope : InsertSingle(p, k, want)
  BY <1>2, <1>11
<1>12. CASE \E k \in Consumer, c \in Key, want \in SUBSET Scope : InsertKey(p, k, c, want)
  BY <1>3, <1>12
<1>13. CASE Some
  BY <1>13, Zenon DEF Some
<1>. QED
  BY <1>9, <1>10, <1>11, <1>12, <1>13

-----------------------------------------------------------------------------
(* Replies.                                                                 *)

\* What p becomes by a reply that does not end it.
LEMMA ReadTyped ==
    ASSUME TypeInv, NEW p \in Proc, NEW c \in Cred, ReadAssociated(p, c)
    PROVE  LET n == call'[p] IN
           /\ Becomes(p, n) /\ UNCHANGED <<store, hist>>
           /\ n.op = "removeScope" /\ call[p].op = "removeScope" /\ c \in call[p].reading
           /\ n.cred = call[p].cred /\ n.owner = call[p].owner /\ n.want = call[p].want
           /\ n.reading = call[p].reading \ {c}
           /\ n.seen[c] = Seen(c) /\ \A d \in Cred \ {c} : n.seen[d] = call[p].seen[d]
<1>. DEFINE m == call[p]
            seen == [m.seen EXCEPT ![c] = Seen(c)]
            n == [m EXCEPT !.reading = m.reading \ {c}, !.seen = seen]
<1>1. m \in Call /\ Sound(m) /\ m.op = "removeScope" /\ c \in m.reading
  BY DEF TypeInv, TypeOK, ReadAssociated
<1>2. seen \in [Cred -> {None, Gone} \cup SUBSET Scope] /\ seen[c] = Seen(c)
      /\ \A d \in Cred \ {c} : seen[d] = m.seen[d]
  <2>1. m.seen \in [Cred -> {None, Gone} \cup SUBSET Scope]
    BY <1>1 DEF Call
  <2>2. Seen(c) \in {None, Gone} \cup SUBSET Scope
    BY SeenTyped
  <2>. QED
    BY <2>1, <2>2
<1>3. n \in Call /\ Sound(n)
  BY <1>1, <1>2, Apart DEF Call, Sound
<1>4. call' = [call EXCEPT ![p] = n]
  BY DEF ReadAssociated
<1>5. call'[p] = n
  BY <1>4 DEF TypeInv, TypeOK
<1>6. /\ n.op = m.op /\ n.cred = m.cred /\ n.owner = m.owner /\ n.want = m.want
      /\ n.reading = m.reading \ {c} /\ n.seen = seen
  BY <1>1 DEF Call
<1>7. Becomes(p, n) /\ UNCHANGED <<store, hist>>
  BY <1>3, <1>4 DEF ReadAssociated, Becomes
<1>. HIDE DEF n
<1>. QED
  BY <1>1, <1>2, <1>5, <1>6, <1>7

\* An insertion of a single credential finds it active, or goes on to its writes.
LEMMA LookUpTyped ==
    ASSUME TypeInv, NEW p \in Proc, LookUp(p)
    PROVE  LET n == call'[p] IN
           /\ call[p].op = "insert" /\ call[p].writes = {} /\ UNCHANGED <<store, hist>>
           /\ \/ n = Idle /\ Becomes(p, Idle)
              \/ /\ Becomes(p, n) /\ n.op = "insert" /\ n.cred = call[p].cred /\ n.owner = call[p].owner
                 /\ n.want = call[p].want /\ n.seen = call[p].seen /\ n.reading = call[p].reading
                 /\ n.need = (IF n.want = None THEN {} ELSE n.want)
                 /\ n.writes = Writes("insert", n.cred, n.want)
<1>. DEFINE m == call[p]
            n == [m EXCEPT !.need = IF m.want = None THEN {} ELSE m.want,
                           !.writes = Writes("insert", m.cred, m.want)]
<1>1. m \in Call /\ Sound(m) /\ m.op = "insert" /\ m.writes = {} /\ UNCHANGED <<store, hist>>
  BY DEF TypeInv, TypeOK, LookUp
<1>2. m.cred \in Cred /\ m.owner \in Consumer /\ m.want \in {None} \cup SUBSET Scope
  BY <1>1, Apart DEF Sound, Call, Op
<1>3. Writes("insert", m.cred, m.want) \in SUBSET (Scope \cup {"hash", "list"})
  BY <1>2, WritesTyped DEF Op
<1>4. n \in Call /\ Sound(n)
  <2>1. "list" \in Writes("insert", m.cred, m.want) => m.cred \in Key
    BY <1>2, WritesTyped DEF Op
  <2>2. n \in Call
    BY <1>1, <1>2, <1>3 DEF Call
  <2>. QED
    BY <1>1, <1>2, <2>1, <2>2, Apart DEF Call, Sound, Op
<1>5. CASE Quit(p)
  BY <1>1, <1>5, Quits DEF Quit, TypeInv, TypeOK
<1>6. CASE call' = [call EXCEPT ![p] = n]
  <2>1. call'[p] = n
    BY <1>6 DEF TypeInv, TypeOK
  <2>2. /\ n.op = m.op /\ n.cred = m.cred /\ n.owner = m.owner /\ n.want = m.want
        /\ n.seen = m.seen /\ n.reading = m.reading
        /\ n.need = (IF m.want = None THEN {} ELSE m.want)
        /\ n.writes = Writes("insert", m.cred, m.want)
    BY <1>1 DEF Call
  <2>3. Becomes(p, n)
    BY <1>4, <1>6 DEF Becomes
  <2>. HIDE DEF n
  <2>. QED
    BY <1>1, <2>1, <2>2, <2>3
<1>. QED
  BY <1>5, <1>6 DEF LookUp

\* A scope is there, or the call ends.
LEMMA CheckScopeTyped ==
    ASSUME TypeInv, NEW p \in Proc, NEW s \in Scope, CheckScope(p, s)
    PROVE  LET n == call'[p] IN
           /\ s \in call[p].need /\ UNCHANGED <<store, hist>>
           /\ \/ n = Idle /\ Becomes(p, Idle)
              \/ /\ Becomes(p, n) /\ s \in scopes /\ n.need = call[p].need \ {s}
                 /\ n.op = call[p].op /\ n.cred = call[p].cred /\ n.owner = call[p].owner
                 /\ n.want = call[p].want /\ n.seen = call[p].seen /\ n.reading = call[p].reading
                 /\ n.writes = call[p].writes
<1>. DEFINE m == call[p]
            n == [m EXCEPT !.need = m.need \ {s}]
<1>1. m \in Call /\ Sound(m) /\ s \in m.need /\ UNCHANGED <<store, hist>>
  BY DEF TypeInv, TypeOK, CheckScope
<1>2. CASE Quit(p)
  BY <1>1, <1>2, Quits DEF Quit, TypeInv, TypeOK
<1>3. CASE s \in scopes /\ call' = [call EXCEPT ![p].need = @ \ {s}]
  <2>1. call' = [call EXCEPT ![p] = n]
    BY <1>3
  <2>2. n \in Call
    BY <1>1 DEF Call
  <2>3. /\ n.op = m.op /\ n.cred = m.cred /\ n.owner = m.owner /\ n.want = m.want /\ n.need = m.need \ {s}
        /\ n.reading = m.reading /\ n.seen = m.seen /\ n.writes = m.writes
    BY <1>1 DEF Call
  <2>. HIDE DEF n
  <2>4. Sound(n)
    BY <1>1, <2>3 DEF Sound
  <2>5. call'[p] = n
    BY <2>1 DEF TypeInv, TypeOK
  <2>. QED
    BY <1>1, <1>3, <2>1, <2>2, <2>3, <2>4, <2>5 DEF Becomes
<1>. QED
  BY <1>2, <1>3 DEF CheckScope

\* A command is executed, and the call is over or has one less to wait for.
LEMMA ExecutedTyped ==
    ASSUME TypeInv, NEW p \in Proc, NEW w, Executed(p, w)
    PROVE  LET n == call'[p] IN
           /\ w \in call[p].writes /\ call[p].need = {} /\ call[p].reading = {}
           /\ call[p].op \in Op \ {"removeScope"} /\ call[p].cred \in Cred
           /\ \/ n = Idle /\ Becomes(p, Idle) /\ call[p].writes = {w}
              \/ /\ Becomes(p, n) /\ n.writes = call[p].writes \ {w} /\ call[p].writes # {w}
                 /\ n.op = call[p].op /\ n.cred = call[p].cred /\ n.owner = call[p].owner
                 /\ n.want = call[p].want /\ n.seen = call[p].seen /\ n.reading = call[p].reading
                 /\ n.need = call[p].need
<1>. DEFINE m == call[p]
            n == [m EXCEPT !.writes = m.writes \ {w}]
<1>1. m \in Call /\ Sound(m) /\ w \in m.writes /\ m.need = {} /\ m.reading = {}
  BY DEF TypeInv, TypeOK, Executed
<1>0. m.op \in Op \ {"removeScope"} /\ m.cred \in Cred
  BY <1>1 DEF Sound, Call
<1>2. CASE Quit(p) /\ m.writes = {w}
  BY <1>0, <1>1, <1>2, Quits DEF Quit, TypeInv, TypeOK
<1>3. CASE call' = [call EXCEPT ![p].writes = @ \ {w}] /\ m.writes # {w}
  <2>1. call' = [call EXCEPT ![p] = n]
    BY <1>3
  <2>2. n \in Call
    BY <1>1 DEF Call
  <2>3. /\ n.op = m.op /\ n.cred = m.cred /\ n.owner = m.owner /\ n.want = m.want /\ n.need = m.need
        /\ n.reading = m.reading /\ n.seen = m.seen /\ n.writes = m.writes \ {w}
    BY <1>1 DEF Call
  <2>. HIDE DEF n
  <2>4. Sound(n)
    BY <1>1, <2>3 DEF Sound
  <2>5. call'[p] = n
    BY <2>1 DEF TypeInv, TypeOK
  <2>. QED
    BY <1>0, <1>1, <1>3, <2>1, <2>2, <2>3, <2>4, <2>5 DEF Becomes
<1>. QED
  BY <1>2, <1>3 DEF Executed

\* What is written to a hash.
LEMMA WrittenTyped ==
    ASSUME TypeInv, NEW p \in Proc, "hash" \in call[p].writes
    PROVE  LET c == call[p]  h == Hash(c.cred)  w == Written(c) IN
           /\ c.cred \in Cred /\ h \in Credential /\ w \in Credential
           /\ c.op \in Op \ {"removeScope"}
           /\ c.op # "insert" => w.owner = h.owner
           /\ c.op = "insert" => w.owner = c.owner /\ c.owner \in Consumer
           /\ c.op \in {"activate", "deactivate", "update"} => w.scopes = h.scopes
           /\ c.op = "insert" => w.scopes = IF c.want = None THEN h.scopes ELSE c.want
           /\ c.op = "add" => w.scopes = c.seen[c.cred] \cup c.want
           /\ c.op = "remove" => w.scopes = c.seen[c.cred] \ c.want
           /\ c.op = "set" => w.scopes = c.want
<1>. DEFINE c == call[p]
            h == Hash(c.cred)
<1>1. c \in Call /\ Sound(c)
  BY DEF TypeInv, TypeOK
<1>2. c.op \in Op \ {"removeScope"} /\ c.cred \in Cred
  BY <1>1 DEF Sound, Call
<1>3. h \in Credential
  BY <1>2 DEF TypeInv, TypeOK, Hash, Credential
<1>4. c.op = "insert" => c.owner \in Consumer
  BY <1>1 DEF Sound
<1>. HIDE DEF h
<1>5. CASE c.op \in {"activate", "deactivate", "update"}
  BY <1>2, <1>3, <1>5 DEF Written, Credential, h
<1>6. CASE c.op = "insert"
  BY <1>1, <1>2, <1>3, <1>4, <1>6 DEF Written, NewScopes, Credential, Call, h
<1>7. CASE c.op \in {"add", "remove", "set"}
  <2>1. c.want \in SUBSET Scope /\ (c.op # "set" => c.seen[c.cred] \in SUBSET Scope)
    BY <1>1, <1>7 DEF Sound
  <2>. QED
    BY <1>2, <1>3, <1>7, <2>1 DEF Written, NewScopes, Credential, h
<1>. QED
  BY <1>2, <1>5, <1>6, <1>7 DEF Op

\* The hashes after the removal of a scope.
LEMMA RemovedTyped ==
    ASSUME TypeInv, NEW p \in Proc, NEW s \in Scope, RemoveScopeExec(p, s)
    PROVE  LET seen == call[p].seen IN
           /\ call[p].op = "removeScope" /\ call[p].reading = {} /\ call[p].want = {s}
           /\ creds' \in [Cred -> Credential \cup {None}]
           /\ Becomes(p, Idle) /\ call'[p] = Idle
           /\ \A c \in Cred :
                IF seen[c] \in {None, Gone} THEN creds'[c] = creds[c]
                ELSE /\ seen[c] \in SUBSET Scope
                     /\ creds'[c] \in Credential /\ creds'[c].scopes = seen[c] \ {s}
                     /\ creds'[c].owner = Hash(c).owner
<1>. DEFINE seen == call[p].seen
<1>1. call[p] \in Call /\ call[p].op = "removeScope" /\ call[p].reading = {} /\ call[p].want = {s}
  BY DEF TypeInv, TypeOK, RemoveScopeExec
<1>2. seen \in [Cred -> {None, Gone} \cup SUBSET Scope]
  BY <1>1 DEF Call
<1>3. creds' = [c \in Cred |-> IF c \in Rewritten(seen) THEN [Hash(c) EXCEPT !.scopes = Left(seen[c], s)]
                                                        ELSE creds[c]]
  BY DEF RemoveScopeExec
<1>4. ASSUME NEW c \in Cred
      PROVE  /\ creds'[c] \in Credential \cup {None}
             /\ IF seen[c] \in {None, Gone} THEN creds'[c] = creds[c]
                ELSE /\ seen[c] \in SUBSET Scope
                     /\ creds'[c] \in Credential /\ creds'[c].scopes = seen[c] \ {s}
                     /\ creds'[c].owner = Hash(c).owner
  <2>1. creds[c] \in Credential \cup {None} /\ Hash(c) \in Credential
    BY DEF TypeInv, TypeOK, Hash, Credential
  <2>2. CASE seen[c] \in {None, Gone}
    BY <1>3, <2>1, <2>2 DEF Rewritten
  <2>3. CASE seen[c] \notin {None, Gone}
    <3>1. seen[c] \in SUBSET Scope /\ Left(seen[c], s) = seen[c] \ {s}
      BY <1>2, <2>3 DEF Left
    <3>2. creds'[c] = [Hash(c) EXCEPT !.scopes = seen[c] \ {s}]
      BY <1>3, <2>3, <3>1 DEF Rewritten
    <3>. QED
      BY <2>1, <2>3, <3>1, <3>2 DEF Credential
  <2>. QED
    BY <2>2, <2>3
<1>5. Becomes(p, Idle) /\ call'[p] = Idle
  BY Quits DEF RemoveScopeExec, Quit, TypeInv, TypeOK
<1>. QED
  BY <1>1, <1>3, <1>4, <1>5

\* Each step keeps the types.
LEMMA NextTyped == TypeInv /\ [Next]_vars => TypeInv'
<1>. SUFFICES ASSUME TypeInv, [Next]_vars PROVE TypeInv'
  OBVIOUS
<1>1. ASSUME NEW s \in Scope, InsertScope(s) PROVE TypeInv'
  BY <1>1, CallsSame DEF InsertScope, Stored, TypeInv, TypeOK, hist
<1>2. ASSUME NEW k \in Consumer, RemoveConsumer(k) PROVE TypeInv'
  BY <1>2, CallsSame DEF RemoveConsumer, Stored, TypeInv, TypeOK, hist
<1>3. ASSUME NEW ids \in SUBSET Cred, Cut(ids) PROVE cut' \in SUBSET Cred
  BY <1>3 DEF Cut, TypeInv, TypeOK
<1>4. ASSUME NEW k \in Consumer, RemoveAll(k) PROVE TypeInv'
  <2>1. cut' \in SUBSET Cred
    BY <1>3, <1>4, Apart DEF RemoveAll
  <2>2. creds' \in [Cred -> Credential \cup {None}] /\ lists' \in [Consumer -> SUBSET Key]
        /\ cleared' \in SUBSET Consumer
    BY <1>4 DEF RemoveAll, TypeInv, TypeOK
  <2>. QED
    BY <1>4, <2>1, <2>2, CallsSame DEF RemoveAll, Stored, TypeInv, TypeOK
<1>5. ASSUME NEW c \in Cred, RemoveCredential(c) PROVE TypeInv'
  <2>1. cut' \in SUBSET Cred
    BY <1>3, <1>5 DEF RemoveCredential
  <2>. QED
    BY <1>5, <2>1, CallsSame DEF RemoveCredential, Stored, TypeInv, TypeOK
<1>6. ASSUME NEW p \in Proc, Request(p) PROVE TypeInv'
  <2>1. ASSUME NEW op, NEW c, NEW want, NEW need, Operates(p, op, c, want, need) PROVE TypeInv'
    <3>1. NewOp(op, c, want, need) \in Call /\ Sound(NewOp(op, c, want, need))
      BY <2>1, NewOpMade
    <3>. QED
      BY <2>1, <3>1, BeginTyped DEF Operates
  <2>2. ASSUME NEW s \in Scope, Begin(p, NewRemoval(s)) PROVE TypeInv'
    <3>1. NewRemoval(s) \in Call /\ Sound(NewRemoval(s))
      BY NewRemovalMade
    <3>. QED
      BY <2>2, <3>1, BeginTyped
  <2>3. ASSUME NEW k \in Consumer, NEW want \in {None} \cup SUBSET Scope, Begin(p, NewSingle(k, want)) PROVE TypeInv'
    <3>1. NewSingle(k, want) \in Call /\ Sound(NewSingle(k, want))
      BY NewSingleMade
    <3>. QED
      BY <2>3, <3>1, BeginTyped
  <2>4. ASSUME NEW k \in Consumer, NEW c \in Key, NEW want \in SUBSET Scope, Begin(p, NewKey(k, c, want)) PROVE TypeInv'
    <3>1. NewKey(k, c, want) \in Call /\ Sound(NewKey(k, c, want))
      BY NewKeyMade
    <3>. QED
      BY <2>4, <3>1, BeginTyped
  <2>. QED
    BY <1>6, <2>1, <2>2, <2>3, <2>4, RequestCases
<1>7. UNCHANGED <<store, hist>> => Stored
  BY StoredSame DEF hist, TypeInv, TypeOK
<1>8. ASSUME NEW p \in Proc, Reply(p) PROVE TypeInv'
  <2>1. ASSUME NEW c \in Cred, ReadAssociated(p, c) PROVE TypeInv'
    BY <1>7, <2>1, ReadTyped, StepTyped
  <2>2. ASSUME NEW s \in Scope, RemoveScopeExec(p, s) PROVE TypeInv'
    <3>1. Stored
      BY <2>2, RemovedTyped DEF RemoveScopeExec, Stored, TypeInv, TypeOK, hist
    <3>. QED
      BY <2>2, <3>1, RemovedTyped, StepTyped
  <2>3. ASSUME NEW s \in Scope, CheckScope(p, s) PROVE TypeInv'
    BY <1>7, <2>3, CheckScopeTyped, StepTyped
  <2>4. ASSUME NEW w, Executed(p, w), Stored PROVE TypeInv'
    BY <2>4, ExecutedTyped, StepTyped
  <2>5. ASSUME NEW s \in Scope, WriteAssociation(p, s) PROVE TypeInv'
    <3>1. call[p].cred \in Cred
      BY <2>5, ExecutedTyped DEF WriteAssociation
    <3>2. Stored
      BY <2>5, <3>1 DEF WriteAssociation, Stored, TypeInv, TypeOK, hist
    <3>. QED
      BY <2>4, <2>5, <3>2 DEF WriteAssociation
  <2>6. CASE LookUp(p)
    BY <1>7, <2>6, LookUpTyped, StepTyped
  <2>7. CASE WriteHash(p)
    <3>1. "hash" \in call[p].writes
      BY <2>7 DEF WriteHash, Executed
    <3>2. Stored
      BY <2>7, <3>1, WrittenTyped DEF WriteHash, Stored, TypeInv, TypeOK
    <3>. QED
      BY <2>4, <2>7, <3>2 DEF WriteHash
  <2>8. CASE WriteList(p)
    <3>1. call[p].cred \in Key /\ call[p].owner \in Consumer
      BY <2>8 DEF WriteList, Executed, Sound, TypeInv
    <3>2. Stored
      BY <2>8, <3>1 DEF WriteList, Stored, TypeInv, TypeOK, hist
    <3>. QED
      BY <2>4, <2>8, <3>2 DEF WriteList
  <2>. QED
    BY <1>8, <2>1, <2>2, <2>3, <2>5, <2>6, <2>7, <2>8 DEF Reply
<1>9. CASE UNCHANGED vars
  BY <1>7, <1>9, CallsSame DEF vars
<1>. QED
  BY <1>1, <1>2, <1>4, <1>5, <1>6, <1>8, <1>9 DEF Next

\* The types hold always.
LEMMA TypeAlways == Spec => []TypeInv
<1>1. Init => TypeInv
  <2>. SUFFICES ASSUME Init PROVE TypeInv
    OBVIOUS
  <2>1. \A p \in Proc : call[p] = Idle
    BY DEF Init
  <2>2. Idle.op = None
    BY DEF Idle
  <2>3. call \in [Proc -> Call]
    BY IdleTyped DEF Init
  <2>4. \A p \in Proc : call[p].op \notin {"add", "remove"}
    BY <2>1, <2>2, Apart DEF Op
  <2>. QED
    BY <2>1, <2>3, <2>4, IdleTyped DEF Init, TypeInv, TypeOK
<1>. QED
  BY <1>1, NextTyped, PTL DEF Spec

\* Every variable has its type, and a call that writes scopes has read the hash.
THEOREM Typing == Spec => []TypeOK
<1>1. TypeInv => TypeOK
  BY DEF TypeInv
<1>. QED
  BY <1>1, TypeAlways, PTL
-----------------------------------------------------------------------------
(* Ghosts, and what the removed keep.                                       *)

\* p is over, or goes on with the same credential, scopes seen and commands at most; only an
\* insertion gets its commands later.
Goes(p) ==
    LET n == call'[p] IN
    /\ Becomes(p, n)
    /\ \/ n = Idle
       \/ /\ n.op = call[p].op /\ n.cred = call[p].cred /\ n.owner = call[p].owner
          /\ n.seen = call[p].seen
          /\ n.op # "insert" => n.writes \subseteq call[p].writes

\* A look-up, an answer about a scope, and an executed command.
LEMMA GoesOn ==
    ASSUME TypeInv, NEW p \in Proc
    PROVE  /\ LookUp(p) => Goes(p)
           /\ \A s \in Scope : CheckScope(p, s) => Goes(p)
           /\ \A w : Executed(p, w) => Goes(p)
<1>1. ASSUME LookUp(p) PROVE Goes(p)
  BY <1>1, LookUpTyped DEF Goes
<1>2. ASSUME NEW s \in Scope, CheckScope(p, s) PROVE Goes(p)
  BY <1>2, CheckScopeTyped DEF Goes
<1>3. ASSUME NEW w, Executed(p, w) PROVE Goes(p)
  BY <1>3, ExecutedTyped DEF Goes
<1>. QED
  BY <1>1, <1>2, <1>3

\* The credentials that are there or were deleted under a call.
Held == {c \in Cred : creds[c] # None \/ c \in cut}

\* What call c will write over, or give scopes to, without inserting it, is among those held.
Known(c, held) ==
    /\ "hash" \in c.writes /\ c.op # "insert" => c.cred \in held
    /\ c.op = "removeScope" => \A d \in Cred : c.seen[d] \notin {None, Gone} => d \in held

GhostInv == GhostsAreCut /\ \A p \in Proc : Known(call[p], Held)

\* An idle call writes nothing.
LEMMA IdleKnown == \A held : Known(Idle, held)
  BY Apart DEF Known, Idle, Op

\* What is known stays known while nothing held is lost.
LEMMA KnownGrows ==
    ASSUME NEW c, NEW H, NEW J, H \subseteq J, Known(c, H)
    PROVE  Known(c, J)
  BY DEF Known

\* One call changes.
LEMMA GhostStep ==
    ASSUME TypeInv, GhostInv, NEW p \in Proc, NEW n, Becomes(p, n), Known(n, Held'),
           Held \subseteq Held', GhostsAreCut'
    PROVE  GhostInv'
<1>1. \A q \in Proc : Known(call'[q], Held')
  <2>. TAKE q \in Proc
  <2>1. CASE q = p
    BY <2>1 DEF Becomes, TypeInv, TypeOK
  <2>2. CASE q # p
    BY <2>2, KnownGrows DEF Becomes, TypeInv, TypeOK, GhostInv
  <2>. QED
    BY <2>1, <2>2
<1>. QED
  BY <1>1 DEF GhostInv

\* A call goes on, whatever it wrote.
LEMMA GoesKnown ==
    ASSUME TypeInv, GhostInv, NEW p \in Proc, Goes(p), Held \subseteq Held', GhostsAreCut'
    PROVE  GhostInv'
<1>1. Known(call'[p], Held')
  BY IdleKnown DEF Goes, Known, GhostInv
<1>. QED
  BY <1>1, GhostStep DEF Goes

\* A new call finds what it will write.
LEMMA GhostBegin ==
    ASSUME TypeInv, GhostInv, NEW p \in Proc, Request(p)
    PROVE  GhostInv'
<1>1. ASSUME NEW c, c \in Call, Sound(c), Begin(p, c), Known(c, Held) PROVE GhostInv'
  <2>1. Becomes(p, c) /\ UNCHANGED <<creds, cut>>
    BY <1>1, BeginTyped DEF store
  <2>2. Held' = Held /\ GhostsAreCut'
    BY <2>1 DEF Held, GhostsAreCut, GhostInv
  <2>. QED
    BY <1>1, <2>1, <2>2, GhostStep
<1>2. ASSUME NEW s \in Scope, Begin(p, NewRemoval(s)) PROVE GhostInv'
  <2>1. LET n == NewRemoval(s) IN
        /\ n \in Call /\ Sound(n) /\ n.op = "removeScope" /\ n.seen = Nothing
    BY NewRemovalMade
  <2>2. Known(NewRemoval(s), Held)
    BY <2>1 DEF Known, Sound, Nothing
  <2>. QED
    BY <1>1, <1>2, <2>1, <2>2
<1>3. ASSUME NEW k \in Consumer, NEW want \in {None} \cup SUBSET Scope, Begin(p, NewSingle(k, want)) PROVE GhostInv'
  <2>1. LET n == NewSingle(k, want) IN n \in Call /\ Sound(n) /\ n.op = "insert"
    BY NewSingleMade
  <2>. QED
    BY <1>1, <1>3, <2>1 DEF Known
<1>4. ASSUME NEW k \in Consumer, NEW c \in Key, NEW want \in SUBSET Scope, Begin(p, NewKey(k, c, want)) PROVE GhostInv'
  <2>1. LET n == NewKey(k, c, want) IN n \in Call /\ Sound(n) /\ n.op = "insert"
    BY NewKeyMade
  <2>. QED
    BY <1>1, <1>4, <2>1 DEF Known
<1>5. ASSUME NEW op, NEW c, NEW want, NEW need, Operates(p, op, c, want, need) PROVE GhostInv'
  <2>1. LET n == NewOp(op, c, want, need) IN n \in Call /\ Sound(n) /\ n.op = op /\ n.cred = c
    BY <1>5, NewOpMade
  <2>2. op # "removeScope" /\ c \in Held
    BY <1>5 DEF Operates, Change, Held
  <2>3. Known(NewOp(op, c, want, need), Held)
    BY <2>1, <2>2 DEF Known
  <2>. QED
    BY <1>1, <1>5, <2>1, <2>3 DEF Operates
<1>. QED
  BY <1>2, <1>3, <1>4, <1>5, RequestCases

\* Each step keeps that.
LEMMA GhostNext == TypeInv /\ GhostInv /\ [Next]_vars => GhostInv'
<1>. SUFFICES ASSUME TypeInv, GhostInv, [Next]_vars PROVE GhostInv'
  OBVIOUS
<1>1. ASSUME UNCHANGED <<creds, cut>> PROVE Held' = Held /\ GhostsAreCut'
  BY <1>1 DEF Held, GhostsAreCut, GhostInv
<1>2. ASSUME UNCHANGED <<creds, cut, call>> PROVE GhostInv'
  BY <1>1, <1>2 DEF GhostInv
<1>3. ASSUME NEW c \in Cred, Cut({c}), UNCHANGED call, creds'[c] = None,
             \A d \in Cred \ {c} : creds'[d] = creds[d]
      PROVE  GhostInv'
  <2>1. cut' = cut \cup ({c} \cap UNION {About(call[q]) : q \in Proc})
    BY <1>3 DEF Cut
  <2>2. GhostsAreCut'
    BY <1>3, <2>1 DEF GhostsAreCut, GhostInv
  <2>3. ASSUME NEW q \in Proc PROVE Held \cap About(call[q]) \subseteq Held'
    BY <1>3, <2>1 DEF Held
  <2>4. ASSUME NEW q \in Proc PROVE Known(call[q], Held')
    <3>1. Known(call[q], Held) /\ Sound(call[q])
      BY DEF GhostInv, TypeInv
    <3>2. call[q].op = "removeScope" => About(call[q]) = Cred
      BY DEF About
    <3>3. CASE "hash" \in call[q].writes /\ call[q].op # "insert"
      <4>1. call[q].op # "removeScope" /\ call[q].cred \in Cred
        BY <3>1, <3>3 DEF Sound
      <4>2. call[q].cred \in About(call[q])
        BY <4>1, Apart DEF About
      <4>. QED
        BY <2>3, <3>1, <3>3, <4>1, <4>2 DEF Known
    <3>4. CASE ~("hash" \in call[q].writes /\ call[q].op # "insert")
      BY <2>3, <3>1, <3>2, <3>4 DEF Known, Held
    <3>. QED
      BY <3>3, <3>4
  <2>. QED
    BY <1>3, <2>2, <2>4 DEF GhostInv
<1>4. ASSUME NEW k \in Consumer, RemoveAll(k) PROVE GhostInv'
  <2>1. k \in Cred /\ creds'[k] = None /\ \A d \in Cred \ {k} : creds'[d] = creds[d]
    BY <1>4, Apart DEF RemoveAll, Deleted
  <2>. QED
    BY <1>3, <1>4, <2>1 DEF RemoveAll
<1>5. ASSUME NEW c \in Cred, RemoveCredential(c) PROVE GhostInv'
  <2>1. creds'[c] = None /\ \A d \in Cred \ {c} : creds'[d] = creds[d]
    BY <1>5 DEF RemoveCredential, TypeInv, TypeOK
  <2>. QED
    BY <1>3, <1>5, <2>1 DEF RemoveCredential
<1>6. ASSUME NEW p \in Proc, Reply(p) PROVE GhostInv'
  <2>1. ASSUME NEW c \in Cred, ReadAssociated(p, c) PROVE GhostInv'
    <3>1. /\ Becomes(p, call'[p]) /\ UNCHANGED <<creds, cut>>
          /\ call[p].op = "removeScope" /\ call'[p].op = "removeScope"
          /\ call'[p].seen[c] = Seen(c) /\ \A d \in Cred \ {c} : call'[p].seen[d] = call[p].seen[d]
      BY <2>1, ReadTyped DEF store, hist
    <3>2. Known(call[p], Held) /\ call'[p].writes = {}
      BY <3>1 DEF GhostInv, Becomes, Sound
    <3>3. Seen(c) \notin {None, Gone} => c \in Held
      BY DEF Seen, Held
    <3>4. Known(call'[p], Held)
      BY <3>1, <3>2, <3>3 DEF Known
    <3>. QED
      BY <1>1, <3>1, <3>4, GhostStep
  <2>2. ASSUME NEW s \in Scope, RemoveScopeExec(p, s) PROVE GhostInv'
    <3>1. /\ call[p].op = "removeScope" /\ Becomes(p, Idle) /\ UNCHANGED cut
          /\ \A c \in Cred : IF call[p].seen[c] \in {None, Gone} THEN creds'[c] = creds[c]
                             ELSE creds'[c] \in Credential /\ creds'[c].owner = Hash(c).owner
      <4>1. UNCHANGED cut
        BY <2>2 DEF RemoveScopeExec, hist
      <4>2. call[p].op = "removeScope" /\ Becomes(p, Idle)
        BY <2>2, RemovedTyped
      <4>3. ASSUME NEW c \in Cred
            PROVE  IF call[p].seen[c] \in {None, Gone} THEN creds'[c] = creds[c]
                   ELSE creds'[c] \in Credential /\ creds'[c].owner = Hash(c).owner
        BY <2>2, RemovedTyped
      <4>. QED
        BY <4>1, <4>2, <4>3
    <3>2. Held \subseteq Held'
      BY <3>1, Apart DEF Held
    <3>3. ASSUME NEW c \in Cred, creds'[c] # None, creds'[c].owner = None PROVE c \in cut
      <4>1. CASE call[p].seen[c] \in {None, Gone}
        BY <3>1, <3>3, <4>1 DEF GhostInv, GhostsAreCut
      <4>2. CASE call[p].seen[c] \notin {None, Gone}
        <5>1. c \in Held /\ Hash(c).owner = None
          BY <3>1, <3>3, <4>2 DEF GhostInv, Known
        <5>. QED
          BY <5>1 DEF Held, Hash, GhostInv, GhostsAreCut
      <4>. QED
        BY <4>1, <4>2
    <3>4. GhostsAreCut'
      BY <3>1, <3>3 DEF GhostsAreCut
    <3>. QED
      BY <3>1, <3>2, <3>4, GhostStep, IdleKnown
  <2>3. ASSUME NEW s \in Scope, CheckScope(p, s) PROVE GhostInv'
    BY <1>1, <2>3, GoesOn, GoesKnown DEF CheckScope, store, hist
  <2>4. ASSUME NEW s \in Scope, WriteAssociation(p, s) PROVE GhostInv'
    BY <1>1, <2>4, GoesOn, GoesKnown DEF WriteAssociation, hist
  <2>5. CASE LookUp(p)
    BY <1>1, <2>5, GoesOn, GoesKnown DEF LookUp, store, hist
  <2>6. CASE WriteList(p)
    BY <1>1, <2>6, GoesOn, GoesKnown DEF WriteList, hist
  <2>7. CASE WriteHash(p)
    <3>. DEFINE c == call[p].cred
                w == Written(call[p])
    <3>1. Executed(p, "hash") /\ "hash" \in call[p].writes /\ UNCHANGED cut
          /\ creds' = [creds EXCEPT ![c] = w]
      BY <2>7 DEF WriteHash, Executed
    <3>2. /\ c \in Cred /\ w \in Credential
          /\ call[p].op # "insert" => w.owner = Hash(c).owner
          /\ call[p].op = "insert" => w.owner \in Consumer
      BY <3>1, WrittenTyped
    <3>. HIDE DEF w
    <3>3. creds'[c] = w /\ \A d \in Cred \ {c} : creds'[d] = creds[d]
      BY <3>1, <3>2 DEF TypeInv, TypeOK
    <3>4. Held \subseteq Held'
      BY <3>1, <3>2, <3>3, Apart DEF Held
    <3>5. w.owner = None => c \in cut
      <4>1. w.owner = None => Hash(c).owner = None /\ c \in Held
        BY <3>1, <3>2, Apart DEF GhostInv, Known
      <4>. QED
        BY <3>2, <4>1 DEF Held, Hash, GhostInv, GhostsAreCut
    <3>6. GhostsAreCut'
      BY <3>1, <3>2, <3>3, <3>5 DEF GhostsAreCut, GhostInv
    <3>. QED
      BY <3>1, <3>4, <3>6, GoesOn, GoesKnown
  <2>. QED
    BY <1>6, <2>1, <2>2, <2>3, <2>4, <2>5, <2>6, <2>7 DEF Reply
<1>7. ASSUME NEW s \in Scope, InsertScope(s) PROVE GhostInv'
  BY <1>2, <1>7 DEF InsertScope, hist
<1>8. ASSUME NEW k \in Consumer, RemoveConsumer(k) PROVE GhostInv'
  BY <1>2, <1>8 DEF RemoveConsumer, hist
<1>9. CASE UNCHANGED vars
  BY <1>2, <1>9 DEF vars, store, hist
<1>. QED
  BY <1>4, <1>5, <1>6, <1>7, <1>8, <1>9, GhostBegin DEF Next

\* A hash without owner is left behind only by a call that was about to write it when it was
\* deleted, whatever the calls that overlap (credential.dao.js 83-87, 136-142).
THEOREM Ghosts == Spec => []GhostsAreCut
<1>1. Init => GhostInv
  BY IdleKnown DEF Init, GhostInv, GhostsAreCut
<1>2. GhostInv => GhostsAreCut
  BY DEF GhostInv
<1>. QED
  BY <1>1, <1>2, TypeAlways, GhostNext, PTL DEF Spec
\* A consumer that is cleared is not found, has nothing, and no call is about to write it.
ClearedInv ==
    \A k \in cleared :
        /\ k \notin there /\ creds[k] = None /\ lists[k] = {}
        /\ \A p \in Proc : ~Late(call[p], k)

\* An idle call is not late.
LEMMA IdleNotLate == \A k \in Consumer : ~Late(Idle, k)
  BY Apart DEF Late, Idle, Nothing, Cred

\* One call changes, and nothing is written of the cleared.
LEMMA ClearedStep ==
    ASSUME TypeInv, ClearedInv, NEW p \in Proc, NEW n, Becomes(p, n), cleared' = cleared, there' = there,
           \A k \in cleared : creds'[k] = None /\ lists'[k] = {} /\ ~Late(n, k)
    PROVE  ClearedInv'
<1>1. \A k \in cleared, q \in Proc : ~Late(call'[q], k)
  <2>. TAKE k \in cleared, q \in Proc
  <2>1. CASE q = p
    BY <2>1 DEF Becomes, TypeInv, TypeOK
  <2>2. CASE q # p
    BY <2>2 DEF Becomes, TypeInv, TypeOK, ClearedInv
  <2>. QED
    BY <2>1, <2>2
<1>. QED
  BY <1>1 DEF ClearedInv

\* A call that goes on is as late as it was.
LEMMA GoesCleared ==
    ASSUME TypeInv, ClearedInv, NEW p \in Proc, Goes(p), cleared' = cleared, there' = there,
           \A k \in cleared : creds'[k] = None /\ lists'[k] = {}
    PROVE  ClearedInv'
<1>1. cleared \subseteq Consumer
  BY DEF TypeInv, TypeOK
<1>2. \A k \in cleared : ~Late(call'[p], k)
  BY <1>1, IdleNotLate DEF Goes, Late, ClearedInv
<1>. QED
  BY <1>2, ClearedStep DEF Goes

\* A new call finds nothing of the cleared.
LEMMA ClearedBegin ==
    ASSUME TypeInv, ClearedInv, NEW p \in Proc, Request(p)
    PROVE  ClearedInv'
<1>0. cleared \subseteq Consumer
  BY DEF TypeInv, TypeOK
<1>1. ASSUME NEW c, c \in Call, Sound(c), Begin(p, c), \A k \in cleared : ~Late(c, k) PROVE ClearedInv'
  <2>1. Becomes(p, c) /\ UNCHANGED <<creds, lists, there, cleared>>
    BY <1>1, BeginTyped DEF store
  <2>2. \A k \in cleared : creds'[k] = None /\ lists'[k] = {}
    BY <2>1 DEF ClearedInv
  <2>. QED
    BY <1>1, <2>1, <2>2, ClearedStep
<1>2. ASSUME NEW s \in Scope, Begin(p, NewRemoval(s)) PROVE ClearedInv'
  <2>1. LET n == NewRemoval(s) IN
        n \in Call /\ Sound(n) /\ n.cred = None /\ n.owner = None /\ n.seen = Nothing
    BY NewRemovalMade
  <2>2. \A k \in cleared : ~Late(NewRemoval(s), k)
    BY <1>0, <2>1, Apart DEF Late, Nothing
  <2>. QED
    BY <1>1, <1>2, <2>1, <2>2
<1>3. ASSUME NEW k \in Consumer, NEW want \in {None} \cup SUBSET Scope, Found(k), Begin(p, NewSingle(k, want))
      PROVE  ClearedInv'
  <2>1. LET n == NewSingle(k, want) IN
        n \in Call /\ Sound(n) /\ n.cred = k /\ n.owner = k /\ n.seen = Nothing
    BY NewSingleMade
  <2>2. \A j \in cleared : ~Late(NewSingle(k, want), j)
    BY <1>0, <1>3, <2>1, Apart DEF Late, Nothing, Found, ClearedInv
  <2>. QED
    BY <1>1, <1>3, <2>1, <2>2
<1>4. ASSUME NEW k \in Consumer, NEW c \in Key, NEW want \in SUBSET Scope, Found(k), Begin(p, NewKey(k, c, want))
      PROVE  ClearedInv'
  <2>1. LET n == NewKey(k, c, want) IN
        n \in Call /\ Sound(n) /\ n.cred = c /\ n.owner = k /\ n.seen = Nothing
    BY NewKeyMade
  <2>2. \A j \in cleared : ~Late(NewKey(k, c, want), j)
    BY <1>0, <1>4, <2>1, Apart DEF Late, Nothing, Found, ClearedInv
  <2>. QED
    BY <1>1, <1>4, <2>1, <2>2
<1>5. ASSUME NEW op, NEW c, NEW want, NEW need, Operates(p, op, c, want, need) PROVE ClearedInv'
  <2>1. LET n == NewOp(op, c, want, need) IN
        /\ n \in Call /\ Sound(n) /\ n.cred = c /\ n.owner = None
        /\ \A d \in Cred \ {c} : n.seen[d] = None
    BY <1>5, NewOpMade
  <2>2. c \notin cleared
    BY <1>5 DEF Operates, ClearedInv
  <2>3. \A k \in cleared : ~Late(NewOp(op, c, want, need), k)
    BY <1>0, <2>1, <2>2, Apart DEF Late
  <2>. QED
    BY <1>1, <1>5, <2>1, <2>3 DEF Operates
<1>. QED
  BY <1>2, <1>3, <1>4, <1>5, RequestCases

\* Each step keeps that.
LEMMA ClearedNext == TypeInv /\ ClearedInv /\ [Next]_vars => ClearedInv'
<1>. SUFFICES ASSUME TypeInv, ClearedInv, [Next]_vars PROVE ClearedInv'
  OBVIOUS
<1>0. cleared \subseteq Cred
  BY Apart DEF TypeInv, TypeOK
<1>1. ASSUME UNCHANGED <<creds, lists, there, call, cleared>> PROVE ClearedInv'
  BY <1>1 DEF ClearedInv
<1>2. ASSUME NEW k \in Consumer, RemoveConsumer(k) PROVE ClearedInv'
  BY <1>2 DEF RemoveConsumer, hist, ClearedInv
<1>3. ASSUME NEW k \in Consumer, RemoveAll(k) PROVE ClearedInv'
  <2>1. /\ creds'[k] = None /\ lists'[k] = {}
        /\ \A j \in Consumer \ {k} : creds'[j] = creds[j] /\ lists'[j] = lists[j]
        /\ k \notin there /\ UNCHANGED <<there, call>>
    BY <1>3, Apart DEF RemoveAll, Deleted, TypeInv, TypeOK
  <2>2. k \in cleared' => \A q \in Proc : ~Late(call[q], k)
    BY <1>3 DEF RemoveAll
  <2>3. cleared' \subseteq cleared \cup {k} /\ cleared \subseteq Consumer
    BY <1>3 DEF RemoveAll, TypeInv, TypeOK
  <2>. QED
    BY <2>1, <2>2, <2>3 DEF ClearedInv
<1>4. ASSUME NEW c \in Cred, RemoveCredential(c) PROVE ClearedInv'
  BY <1>0, <1>4 DEF RemoveCredential, ClearedInv, TypeInv, TypeOK
<1>5. ASSUME NEW p \in Proc, Reply(p) PROVE ClearedInv'
  <2>1. ASSUME NEW c \in Cred, ReadAssociated(p, c) PROVE ClearedInv'
    <3>1. /\ Becomes(p, call'[p]) /\ UNCHANGED <<creds, lists, there, cleared>>
          /\ call'[p].cred = call[p].cred /\ call'[p].owner = call[p].owner
          /\ call'[p].seen[c] = Seen(c) /\ \A d \in Cred \ {c} : call'[p].seen[d] = call[p].seen[d]
      BY <2>1, ReadTyped DEF store, hist
    <3>2. \A k \in cleared : ~Late(call'[p], k)
      BY <1>0, <3>1 DEF Late, ClearedInv, Seen
    <3>3. \A k \in cleared : creds'[k] = None /\ lists'[k] = {}
      BY <3>1 DEF ClearedInv
    <3>. QED
      BY <3>1, <3>2, <3>3, ClearedStep
  <2>2. ASSUME NEW s \in Scope, RemoveScopeExec(p, s) PROVE ClearedInv'
    <3>1. UNCHANGED <<lists, there, cleared>> /\ Becomes(p, Idle)
      BY <2>2, RemovedTyped DEF RemoveScopeExec, hist
    <3>2. ASSUME NEW c \in Cred, call[p].seen[c] \in {None, Gone} PROVE creds'[c] = creds[c]
      BY <2>2, <3>2, RemovedTyped
    <3>3. \A k \in cleared : creds'[k] = None /\ lists'[k] = {} /\ ~Late(Idle, k)
      BY <1>0, <3>1, <3>2, IdleNotLate DEF ClearedInv, Late, TypeInv, TypeOK
    <3>. QED
      BY <3>1, <3>3, ClearedStep
  <2>3. ASSUME UNCHANGED <<creds, lists, there, cleared>>, Goes(p) PROVE ClearedInv'
    <3>1. \A k \in cleared : creds'[k] = None /\ lists'[k] = {}
      BY <2>3 DEF ClearedInv
    <3>. QED
      BY <2>3, <3>1, GoesCleared
  <2>4. ASSUME NEW s \in Scope, CheckScope(p, s) PROVE ClearedInv'
    BY <2>3, <2>4, GoesOn DEF CheckScope, store, hist
  <2>5. ASSUME NEW s \in Scope, WriteAssociation(p, s) PROVE ClearedInv'
    BY <2>3, <2>5, GoesOn DEF WriteAssociation, hist
  <2>6. CASE LookUp(p)
    BY <2>3, <2>6, GoesOn DEF LookUp, store, hist
  <2>7. CASE WriteList(p)
    <3>1. \A k \in cleared : creds'[k] = None /\ lists'[k] = {}
      BY <1>0, <2>7 DEF WriteList, ClearedInv, Late, TypeInv, TypeOK
    <3>. QED
      BY <2>7, <3>1, GoesOn, GoesCleared DEF WriteList, hist
  <2>8. CASE WriteHash(p)
    <3>1. creds' = [creds EXCEPT ![call[p].cred] = Written(call[p])] /\ UNCHANGED <<lists, there, cleared>>
          /\ Executed(p, "hash")
      BY <2>8 DEF WriteHash
    <3>2. \A k \in cleared : creds'[k] = None /\ lists'[k] = {}
      BY <1>0, <3>1 DEF ClearedInv, Late, TypeInv, TypeOK
    <3>. QED
      BY <3>1, <3>2, GoesOn, GoesCleared
  <2>. QED
    BY <1>5, <2>1, <2>2, <2>4, <2>5, <2>6, <2>7, <2>8 DEF Reply
<1>6. ASSUME NEW s \in Scope, InsertScope(s) PROVE ClearedInv'
  BY <1>1, <1>6 DEF InsertScope, hist
<1>7. CASE UNCHANGED vars
  BY <1>1, <1>7 DEF vars, store, hist
<1>. QED
  BY <1>2, <1>3, <1>4, <1>5, <1>6, <1>7, ClearedBegin DEF Next

\* A consumer whose credentials were removed with no call on them under way never has a single
\* credential or a list of keys again (user.service.js 118-133, credentials.js 23-35).
THEOREM ClearedStayClear == Spec => []RemovedStayClear
<1>1. Init => ClearedInv
  BY DEF Init, ClearedInv
<1>2. ClearedInv => RemovedStayClear
  BY DEF ClearedInv, RemovedStayClear
<1>. QED
  BY <1>1, <1>2, TypeAlways, ClearedNext, PTL DEF Spec
-----------------------------------------------------------------------------
(* What is read of scopes.                                                  *)

\* Call c will write scopes of d computed from what it read of d.
Reading(c, d) ==
    \/ c.op \in {"add", "remove"} /\ c.cred = d /\ "hash" \in c.writes
    \/ c.op = "removeScope"

\* What it read is still in hash h.
Fresh(c, d, h) ==
    Reading(c, d) /\ c.seen[d] \notin {None, Gone} => h # None /\ c.seen[d] \subseteq h.scopes

\* Two calls that may write the scopes of one credential are known to race; what a call read of
\* a credential that is neither raced for nor deleted under it is not yet out of date.
SeenInv ==
    /\ \A p, q \in Proc : p # q => Rescoped(call[p]) \cap Rescoped(call[q]) \subseteq raced
    /\ \A p \in Proc, d \in Cred \ (raced \cup cut) : Fresh(call[p], d, creds[d])

\* The scopes of d stay.
Keeps(d) == creds[d] # None => creds'[d] # None /\ creds'[d].scopes = creds[d].scopes

\* A call reads only what it may rescope, and an idle one nothing.
LEMMA Rescopes ==
    /\ \A c, d : d \in Cred /\ Reading(c, d) => d \in Rescoped(c) /\ d \in About(c)
    /\ Rescoped(Idle) = {}
    /\ \A d, h : Fresh(Idle, d, h)
<1>1. ASSUME NEW c, NEW d \in Cred, Reading(c, d) PROVE d \in Rescoped(c) /\ d \in About(c)
  BY <1>1, Apart DEF Reading, Rescoped, About
<1>2. Idle.op = None /\ Idle.cred = None /\ None \notin {"add", "remove", "removeScope"}
  BY Apart DEF Idle, Op
<1>3. Rescoped(Idle) = {}
  BY <1>2 DEF Rescoped, About
<1>4. \A d, h : Fresh(Idle, d, h)
  BY <1>2 DEF Fresh, Reading
<1>. QED
  BY <1>1, <1>3, <1>4

\* One call changes.
LEMMA SeenStep ==
    ASSUME TypeInv, SeenInv, NEW p \in Proc, NEW n, Becomes(p, n), raced \subseteq raced', cut' = cut,
           \A q \in Proc \ {p} : Rescoped(n) \cap Rescoped(call[q]) \subseteq raced',
           \A d \in Cred \ (raced' \cup cut) :
               Fresh(n, d, creds'[d]) /\ (Keeps(d) \/ d \in Rescoped(call[p]))
    PROVE  SeenInv'
<1>1. call'[p] = n /\ \A q \in Proc \ {p} : call'[q] = call[q]
  BY DEF Becomes, TypeInv, TypeOK
<1>2. \A q, r \in Proc : q # r => Rescoped(call'[q]) \cap Rescoped(call'[r]) \subseteq raced'
  <2>. SUFFICES ASSUME NEW q \in Proc, NEW r \in Proc, q # r
                PROVE  Rescoped(call'[q]) \cap Rescoped(call'[r]) \subseteq raced'
    OBVIOUS
  <2>1. CASE q = p
    BY <1>1, <2>1
  <2>2. CASE r = p
    BY <1>1, <2>2
  <2>3. CASE q # p /\ r # p
    BY <1>1, <2>3 DEF SeenInv
  <2>. QED
    BY <2>1, <2>2, <2>3
<1>3. ASSUME NEW q \in Proc, NEW d \in Cred \ (raced' \cup cut) PROVE Fresh(call'[q], d, creds'[d])
  <2>1. CASE q = p
    BY <1>1, <2>1
  <2>2. CASE q # p
    <3>1. Fresh(call[q], d, creds[d])
      BY DEF SeenInv
    <3>2. CASE d \in Rescoped(call[p])
      <4>1. d \notin Rescoped(call[q])
        BY <2>2, <3>2 DEF SeenInv
      <4>. QED
        BY <1>1, <2>2, <4>1, Rescopes DEF Fresh
    <3>3. CASE Keeps(d)
      BY <1>1, <2>2, <3>1, <3>3 DEF Fresh, Keeps
    <3>. QED
      BY <3>2, <3>3
  <2>. QED
    BY <2>1, <2>2
<1>. QED
  BY <1>2, <1>3 DEF SeenInv

\* A call goes on.
LEMMA GoesSeen ==
    ASSUME TypeInv, SeenInv, NEW p \in Proc, Goes(p), raced' = raced, cut' = cut,
           \A d \in Cred \ (raced \cup cut) :
               Fresh(call'[p], d, creds'[d]) /\ (Keeps(d) \/ d \in Rescoped(call[p]))
    PROVE  SeenInv'
<1>1. Rescoped(call'[p]) \subseteq Rescoped(call[p])
  BY Rescopes DEF Goes, Rescoped, About
<1>2. \A q \in Proc \ {p} : Rescoped(call'[p]) \cap Rescoped(call[q]) \subseteq raced
  BY <1>1 DEF SeenInv
<1>. QED
  BY <1>2, SeenStep DEF Goes

\* A call goes on, and no hash changes.
LEMMA GoesSeenSame ==
    ASSUME TypeInv, SeenInv, NEW p \in Proc, Goes(p), UNCHANGED <<raced, cut, creds>>
    PROVE  SeenInv'
<1>1. ASSUME NEW d \in Cred \ (raced \cup cut) PROVE Fresh(call'[p], d, creds'[d])
  <2>1. Fresh(call[p], d, creds[d])
    BY DEF SeenInv
  <2>2. CASE call'[p] = Idle
    BY <2>2, Rescopes
  <2>3. CASE /\ call'[p].op = call[p].op /\ call'[p].cred = call[p].cred /\ call'[p].seen = call[p].seen
             /\ (call'[p].op # "insert" => call'[p].writes \subseteq call[p].writes)
    BY <2>1, <2>3 DEF Fresh, Reading
  <2>. QED
    BY <2>2, <2>3 DEF Goes
<1>. QED
  BY <1>1, GoesSeen DEF Keeps

\* A new call.
LEMMA SeenBegin ==
    ASSUME TypeInv, SeenInv, NEW p \in Proc, Request(p)
    PROVE  SeenInv'
<1>1. ASSUME NEW c, c \in Call, Sound(c), Begin(p, c), \A d \in Cred : Fresh(c, d, creds[d]) PROVE SeenInv'
  <2>1. Becomes(p, c) /\ UNCHANGED <<creds, cut>>
    BY <1>1, BeginTyped DEF store
  <2>2. raced' = raced \cup (Rescoped(c) \cap UNION {Rescoped(call[q]) : q \in Proc})
    BY <1>1 DEF Begin
  <2>3. \A q \in Proc \ {p} : Rescoped(c) \cap Rescoped(call[q]) \subseteq raced'
    BY <2>2
  <2>. QED
    BY <1>1, <2>1, <2>2, <2>3, SeenStep DEF Keeps
<1>2. ASSUME NEW s \in Scope, Begin(p, NewRemoval(s)) PROVE SeenInv'
  <2>1. LET n == NewRemoval(s) IN n \in Call /\ Sound(n) /\ n.seen = Nothing
    BY NewRemovalMade
  <2>. QED
    BY <1>1, <1>2, <2>1 DEF Fresh, Nothing
<1>3. ASSUME NEW k \in Consumer, NEW want \in {None} \cup SUBSET Scope, Begin(p, NewSingle(k, want)) PROVE SeenInv'
  <2>1. LET n == NewSingle(k, want) IN n \in Call /\ Sound(n) /\ n.op = "insert"
    BY NewSingleMade
  <2>. QED
    BY <1>1, <1>3, <2>1 DEF Fresh, Reading
<1>4. ASSUME NEW k \in Consumer, NEW c \in Key, NEW want \in SUBSET Scope, Begin(p, NewKey(k, c, want)) PROVE SeenInv'
  <2>1. LET n == NewKey(k, c, want) IN n \in Call /\ Sound(n) /\ n.op = "insert"
    BY NewKeyMade
  <2>. QED
    BY <1>1, <1>4, <2>1 DEF Fresh, Reading
<1>5. ASSUME NEW op, NEW c, NEW want, NEW need, Operates(p, op, c, want, need) PROVE SeenInv'
  <2>1. LET n == NewOp(op, c, want, need) IN
        /\ n \in Call /\ Sound(n) /\ n.op = op /\ n.cred = c
        /\ n.seen[c] = creds[c].scopes /\ \A d \in Cred \ {c} : n.seen[d] = None
    BY <1>5, NewOpMade
  <2>2. \A d \in Cred : Fresh(NewOp(op, c, want, need), d, creds[d])
    BY <1>5, <2>1 DEF Fresh, Operates
  <2>. QED
    BY <1>1, <1>5, <2>1, <2>2 DEF Operates
<1>. QED
  BY <1>2, <1>3, <1>4, <1>5, RequestCases

\* Each step keeps that.
LEMMA SeenNext == TypeInv /\ SeenInv /\ [Next]_vars => SeenInv'
<1>. SUFFICES ASSUME TypeInv, SeenInv, [Next]_vars PROVE SeenInv'
  OBVIOUS
<1>1. ASSUME UNCHANGED <<creds, raced, cut, call>> PROVE SeenInv'
  BY <1>1 DEF SeenInv
<1>2. ASSUME NEW c \in Cred, Cut({c}), UNCHANGED <<call, raced>>, \A d \in Cred \ {c} : creds'[d] = creds[d]
      PROVE  SeenInv'
  <2>1. cut' = cut \cup ({c} \cap UNION {About(call[q]) : q \in Proc})
    BY <1>2 DEF Cut
  <2>2. ASSUME NEW p \in Proc, NEW d \in Cred \ (raced \cup cut') PROVE Fresh(call[p], d, creds'[d])
    <3>1. CASE d = c
      <4>1. d \notin About(call[p])
        BY <2>1, <2>2, <3>1
      <4>. QED
        BY <2>2, <4>1, Rescopes DEF Fresh
    <3>2. CASE d # c
      BY <1>2, <2>1, <2>2, <3>2 DEF SeenInv
    <3>. QED
      BY <3>1, <3>2
  <2>. QED
    BY <1>2, <2>2 DEF SeenInv
<1>3. ASSUME NEW k \in Consumer, RemoveAll(k) PROVE SeenInv'
  <2>1. k \in Cred /\ \A d \in Cred \ {k} : creds'[d] = creds[d]
    BY <1>3, Apart DEF RemoveAll, Deleted
  <2>. QED
    BY <1>2, <1>3, <2>1 DEF RemoveAll
<1>4. ASSUME NEW c \in Cred, RemoveCredential(c) PROVE SeenInv'
  <2>1. \A d \in Cred \ {c} : creds'[d] = creds[d]
    BY <1>4 DEF RemoveCredential, TypeInv, TypeOK
  <2>. QED
    BY <1>2, <1>4, <2>1 DEF RemoveCredential
<1>5. ASSUME NEW p \in Proc, Reply(p) PROVE SeenInv'
  <2>1. ASSUME NEW c \in Cred, ReadAssociated(p, c) PROVE SeenInv'
    <3>1. /\ Becomes(p, call'[p]) /\ UNCHANGED <<creds, cut, raced>>
          /\ call[p].op = "removeScope" /\ call'[p].op = "removeScope"
          /\ call'[p].seen[c] = Seen(c) /\ \A d \in Cred \ {c} : call'[p].seen[d] = call[p].seen[d]
      BY <2>1, ReadTyped DEF store, hist
    <3>2. Rescoped(call'[p]) = Rescoped(call[p])
      BY <3>1 DEF Rescoped, About
    <3>3. \A d \in Cred \ (raced \cup cut) : Fresh(call'[p], d, creds[d])
      BY <3>1 DEF Fresh, Reading, SeenInv, Seen
    <3>4. \A q \in Proc \ {p} : Rescoped(call'[p]) \cap Rescoped(call[q]) \subseteq raced
      BY <3>2 DEF SeenInv
    <3>. QED
      BY <3>1, <3>3, <3>4, SeenStep DEF Keeps
  <2>2. ASSUME NEW s \in Scope, RemoveScopeExec(p, s) PROVE SeenInv'
    <3>1. UNCHANGED <<raced, cut>>
      BY <2>2 DEF RemoveScopeExec, hist
    <3>2. Becomes(p, Idle) /\ call[p].op = "removeScope"
      BY <2>2, RemovedTyped
    <3>3. \A d \in Cred : d \in Rescoped(call[p])
      BY <3>2 DEF Rescoped, About
    <3>. QED
      BY <3>1, <3>2, <3>3, SeenStep, Rescopes
  <2>3. ASSUME NEW s \in Scope, CheckScope(p, s) PROVE SeenInv'
    BY <2>3, GoesOn, GoesSeenSame DEF CheckScope, store, hist
  <2>4. ASSUME NEW s \in Scope, WriteAssociation(p, s) PROVE SeenInv'
    BY <2>4, GoesOn, GoesSeenSame DEF WriteAssociation, hist
  <2>5. CASE LookUp(p)
    BY <2>5, GoesOn, GoesSeenSame DEF LookUp, store, hist
  <2>6. CASE WriteList(p)
    BY <2>6, GoesOn, GoesSeenSame DEF WriteList, hist
  <2>7. CASE WriteHash(p)
    <3>. DEFINE c == call[p].cred
                w == Written(call[p])
    <3>1. /\ Executed(p, "hash") /\ "hash" \in call[p].writes /\ UNCHANGED <<cut, raced>>
          /\ creds' = [creds EXCEPT ![c] = w]
      BY <2>7 DEF WriteHash, Executed
    <3>2. /\ c \in Cred /\ w \in Credential
          /\ call[p].op \in {"activate", "deactivate", "update"} => w.scopes = Hash(c).scopes
      BY <3>1, WrittenTyped
    <3>0. call[p].op \in Op \ {"removeScope"}
      BY <3>1, WrittenTyped
    <3>. HIDE DEF w
    <3>3. creds'[c] = w /\ \A d \in Cred \ {c} : creds'[d] = creds[d]
      BY <3>1, <3>2 DEF TypeInv, TypeOK
    <3>4. Keeps(c) \/ c \in Rescoped(call[p])
      BY <3>0, <3>2, <3>3, Apart DEF Keeps, Hash, Rescoped, About
    <3>5. \A d \in Cred : Keeps(d) \/ d \in Rescoped(call[p])
      BY <3>3, <3>4 DEF Keeps
    <3>6. ASSUME NEW d \in Cred PROVE Fresh(call'[p], d, creds'[d])
      <4>1. CASE call'[p] = Idle
        BY <4>1, Rescopes
      <4>2. CASE call'[p].op = call[p].op /\ call'[p].writes = call[p].writes \ {"hash"}
        BY <3>0, <4>2 DEF Fresh, Reading
      <4>. QED
        BY <3>1, <4>1, <4>2, ExecutedTyped
    <3>. QED
      BY <3>1, <3>5, <3>6, GoesOn, GoesSeen
  <2>. QED
    BY <1>5, <2>1, <2>2, <2>3, <2>4, <2>5, <2>6, <2>7 DEF Reply
<1>6. ASSUME NEW s \in Scope, InsertScope(s) PROVE SeenInv'
  BY <1>1, <1>6 DEF InsertScope, hist
<1>7. ASSUME NEW k \in Consumer, RemoveConsumer(k) PROVE SeenInv'
  BY <1>1, <1>7 DEF RemoveConsumer, hist
<1>8. CASE UNCHANGED vars
  BY <1>1, <1>8 DEF vars, store, hist
<1>. QED
  BY <1>3, <1>4, <1>5, <1>6, <1>7, <1>8, SeenBegin DEF Next
\* What c gains when credential d gets the scopes of hash h: those it was asked to give.
Asked(d, s) ==
    \E p \in Proc : /\ call[p].cred = d /\ call[p].op \in {"insert", "add", "set"}
                    /\ call[p].want # None /\ s \in call[p].want

\* The hash of d gains no scope but those a call was asked to give it.
Unasked(d) ==
    creds'[d] # None => \A s \in creds'[d].scopes : (creds[d] # None /\ s \in creds[d].scopes) \/ Asked(d, s)

\* A step gives no scope that no call was asked to give.
LEMMA UnaskedStep ==
    ASSUME TypeInv, SeenInv, [Next]_vars, NEW d \in Cred \ (raced \cup cut)
    PROVE  Unasked(d)
<1>1. ASSUME creds'[d] = creds[d] PROVE Unasked(d)
  BY <1>1 DEF Unasked
<1>2. ASSUME creds' = creds PROVE Unasked(d)
  BY <1>1, <1>2
<1>3. ASSUME creds'[d] = None PROVE Unasked(d)
  BY <1>3 DEF Unasked
<1>4. ASSUME NEW k \in Consumer, RemoveAll(k) PROVE Unasked(d)
  BY <1>1, <1>3, <1>4 DEF RemoveAll
<1>5. ASSUME NEW c \in Cred, RemoveCredential(c) PROVE Unasked(d)
  BY <1>1, <1>3, <1>5 DEF RemoveCredential, TypeInv, TypeOK
<1>6. ASSUME NEW p \in Proc, Request(p) PROVE Unasked(d)
  <2>1. creds' = creds
    BY <1>6, RequestCases DEF Begin, Operates, store
  <2>. QED
    BY <1>2, <2>1
<1>7. ASSUME NEW p \in Proc, Reply(p) PROVE Unasked(d)
  <2>1. ASSUME NEW c \in Cred, ReadAssociated(p, c) PROVE Unasked(d)
    BY <1>2, <2>1 DEF ReadAssociated, store
  <2>2. ASSUME NEW s \in Scope, RemoveScopeExec(p, s) PROVE Unasked(d)
    <3>1. /\ call[p].op = "removeScope"
          /\ IF call[p].seen[d] \in {None, Gone} THEN creds'[d] = creds[d]
             ELSE creds'[d].scopes = call[p].seen[d] \ {s}
      <4>1. call[p].op = "removeScope"
        BY <2>2, RemovedTyped
      <4>2. IF call[p].seen[d] \in {None, Gone} THEN creds'[d] = creds[d]
            ELSE creds'[d].scopes = call[p].seen[d] \ {s}
        BY <2>2, RemovedTyped
      <4>. QED
        BY <4>1, <4>2
    <3>2. Fresh(call[p], d, creds[d])
      BY DEF SeenInv
    <3>3. CASE call[p].seen[d] \in {None, Gone}
      BY <1>1, <3>1, <3>3
    <3>4. CASE call[p].seen[d] \notin {None, Gone}
      BY <3>1, <3>2, <3>4 DEF Fresh, Reading, Unasked
    <3>. QED
      BY <3>3, <3>4
  <2>3. ASSUME NEW s \in Scope, CheckScope(p, s) PROVE Unasked(d)
    BY <1>2, <2>3 DEF CheckScope, store
  <2>4. ASSUME NEW s \in Scope, WriteAssociation(p, s) PROVE Unasked(d)
    BY <1>2, <2>4 DEF WriteAssociation
  <2>5. CASE LookUp(p)
    BY <1>2, <2>5 DEF LookUp, store
  <2>6. CASE WriteList(p)
    BY <1>2, <2>6 DEF WriteList
  <2>7. CASE WriteHash(p)
    <3>. DEFINE c == call[p].cred
                w == Written(call[p])
    <3>1. "hash" \in call[p].writes /\ creds' = [creds EXCEPT ![c] = w]
      BY <2>7 DEF WriteHash, Executed
    <3>2. /\ c \in Cred /\ call[p].op \in Op \ {"removeScope"}
          /\ call[p].op \in {"activate", "deactivate", "update"} => w.scopes = Hash(c).scopes
          /\ call[p].op = "insert" => w.scopes = IF call[p].want = None THEN Hash(c).scopes ELSE call[p].want
          /\ call[p].op = "add" => w.scopes = call[p].seen[c] \cup call[p].want
          /\ call[p].op = "remove" => w.scopes = call[p].seen[c] \ call[p].want
          /\ call[p].op = "set" => w.scopes = call[p].want
      BY <3>1, WrittenTyped
    <3>3. CASE d # c
      BY <1>1, <3>1, <3>3 DEF TypeInv, TypeOK
    <3>4. CASE d = c
      <4>. HIDE DEF w
      <4>1. creds'[d] = w
        BY <3>1, <3>2, <3>4 DEF TypeInv, TypeOK
      <4>2. ASSUME NEW s \in Hash(d).scopes PROVE creds[d] # None /\ s \in creds[d].scopes
        BY <4>2 DEF Hash
      <4>3. ASSUME call[p].op \in {"add", "remove"}
            PROVE  creds[d] # None /\ call[p].seen[d] \subseteq creds[d].scopes
        <5>1. Fresh(call[p], d, creds[d]) /\ Sound(call[p])
          BY DEF SeenInv, TypeInv
        <5>. QED
          BY <3>1, <3>4, <4>3, <5>1, Apart DEF Fresh, Reading, Sound
      <4>4. ASSUME NEW s \in w.scopes
            PROVE  \/ creds[d] # None /\ s \in creds[d].scopes
                   \/ /\ call[p].op \in {"insert", "add", "set"} /\ call[p].want # None /\ s \in call[p].want
        <5>1. call[p].op \in {"add", "set"} => call[p].want # None
          BY Apart DEF TypeInv, Sound
        <5>. QED
          BY <3>2, <3>4, <4>2, <4>3, <4>4, <5>1 DEF Op
      <4>. QED
        BY <3>4, <4>1, <4>4 DEF Unasked, Asked
    <3>. QED
      BY <3>3, <3>4
  <2>. QED
    BY <1>7, <2>1, <2>2, <2>3, <2>4, <2>5, <2>6, <2>7 DEF Reply
<1>8. ASSUME NEW s \in Scope, InsertScope(s) PROVE Unasked(d)
  BY <1>2, <1>8 DEF InsertScope
<1>9. ASSUME NEW k \in Consumer, RemoveConsumer(k) PROVE Unasked(d)
  BY <1>2, <1>9 DEF RemoveConsumer
<1>10. CASE UNCHANGED vars
  BY <1>2, <1>10 DEF vars, store
<1>. QED
  BY <1>4, <1>5, <1>6, <1>7, <1>8, <1>9, <1>10 DEF Next

\* Unless two overlapping calls write its scopes, or it is deleted under such a call, a credential
\* gains a scope only by a call asked to give it that scope (credential.service.js 214-257).
THEOREM OnlyScopesAsked == Spec => NoScopeUnasked
<1>1. Init => SeenInv
  BY Rescopes DEF Init, SeenInv
<1>2. TypeInv /\ SeenInv /\ [Next]_vars =>
        [\A c \in Cred \ (raced \cup cut) : creds'[c] # None =>
           \A s \in creds'[c].scopes :
             \/ creds[c] # None /\ s \in creds[c].scopes
             \/ \E p \in Proc : /\ call[p].cred = c /\ call[p].op \in {"insert", "add", "set"}
                                /\ call[p].want # None /\ s \in call[p].want]_vars
  BY UnaskedStep DEF Unasked, Asked
<1>. QED
  BY <1>1, <1>2, TypeAlways, SeenNext, PTL DEF Spec, NoScopeUnasked
-----------------------------------------------------------------------------
(* Scopes and their associations.                                           *)

\* Scope s of credential c is defined, and will be taken from it when it is removed.
Backed(c, s) == s \in scopes /\ c \in assoc[s]

\* The scopes of c are backed.
Agrees(c) == creds[c] # None => \A s \in creds[c].scopes : Backed(c, s)

\* Call m, an insertion or the addition of a scope: what c has is backed, or will be once the
\* commands left have been executed; what it will have is, or its scopes are still asked for.
Giving(c, m) ==
    /\ creds[c] # None => \A s \in creds[c].scopes :
          s \in scopes /\ (c \in assoc[s] \/ ("hash" \notin m.writes /\ s \in m.writes))
    /\ "hash" \in m.writes /\ m.want # None => \A s \in m.want :
          (s \in m.need \/ s \in scopes) /\ (s \in m.writes \/ c \in assoc[s])
    /\ "hash" \in m.writes /\ m.op = "add" => \A s \in m.seen[c] : Backed(c, s)

\* Call m, the removal of a scope from c: what is not wanted away stays backed, and the rest is
\* gone once the hash is written.
Taking(c, m) ==
    /\ creds[c] # None => \A s \in creds[c].scopes :
          IF "hash" \in m.writes THEN s \in m.want \/ Backed(c, s) ELSE s \notin m.want /\ Backed(c, s)
    /\ "hash" \in m.writes => \A s \in m.seen[c] \ m.want : Backed(c, s)

\* Call m, the removal of a scope: a credential that has it is still to be read or was.
Emptying(c, m) ==
    /\ Agrees(c)
    /\ creds[c] # None => \A s \in creds[c].scopes \cap m.want : c \in m.reading \/ m.seen[c] \notin {None, Gone}
    /\ m.seen[c] \notin {None, Gone} => \A s \in m.seen[c] : Backed(c, s)

\* Call m writes the scopes of c.
Writing(c, m) ==
    /\ m.op \in {"insert", "add"} => Giving(c, m)
    /\ m.op = "remove" => Taking(c, m)
    /\ m.op = "removeScope" => Emptying(c, m)

\* The commands of call m.
Shape(m) ==
    /\ m.need # {} => "hash" \in m.writes
    /\ m.op = "set" => m.writes \subseteq {"hash"} /\ m.need = {}
    /\ m.op = "remove" => m.writes \cap Scope \subseteq m.want /\ m.need = {}

AgreeInv ==
    /\ \A p \in Proc : Shape(call[p])
    /\ \A c \in Cred \ (raced \cup put) :
          /\ (\A p \in Proc : c \notin Rescoped(call[p])) => Agrees(c)
          /\ \A p \in Proc : c \in Rescoped(call[p]) => Writing(c, call[p])

\* c gets no scope and loses no backing.
Calm(c) ==
    /\ \A s \in Scope : Backed(c, s) => Backed(c, s)'
    /\ scopes \subseteq scopes' /\ \A s \in Scope : c \in assoc[s] => c \in assoc'[s]
    /\ creds'[c] # None => \A s \in creds'[c].scopes : creds[c] # None /\ s \in creds[c].scopes

\* What is not touched is calm.
LEMMA SameCalm ==
    ASSUME UNCHANGED <<scopes, creds, assoc>>
    PROVE  \A c \in Cred : Calm(c)
  BY DEF Calm, Backed

\* The scopes of a hash are scopes.
LEMMA ScopesTyped ==
    ASSUME TypeInv, NEW c \in Cred
    PROVE  creds[c] # None => creds[c].scopes \subseteq Scope
  BY DEF TypeInv, TypeOK, Credential

\* A calm credential stays in agreement.
LEMMA CalmAgrees ==
    ASSUME TypeInv, NEW c \in Cred, Calm(c), Agrees(c)
    PROVE  Agrees(c)'
  BY ScopesTyped DEF Calm, Agrees

\* A call that is writing a calm credential, and does nothing itself, goes on as it was.
LEMMA CalmWriting ==
    ASSUME TypeInv, NEW c \in Cred, Calm(c), NEW q \in Proc, call'[q] = call[q],
           c \in Rescoped(call[q]), Writing(c, call[q])
    PROVE  Writing(c, call[q])'
<1>. DEFINE m == call[q]
<1>1. m \in Call /\ Sound(m)
  BY DEF TypeInv, TypeOK
<1>2. m.want # None => m.want \subseteq Scope
  BY <1>1 DEF Call
<1>3. m.seen[c] \notin {None, Gone} => m.seen[c] \subseteq Scope
  BY <1>1 DEF Call
<1>4. ASSUME m.op \in {"insert", "add"} PROVE Giving(c, call[q])'
  <2>1. Giving(c, m)
    BY <1>4 DEF Writing
  <2>2. m.op = "add" => m.seen[c] \subseteq Scope
    <3>1. m.op = "add" => m.cred = c /\ m.seen[m.cred] \in SUBSET Scope
      BY <1>1 DEF Rescoped, About, Sound
    <3>. QED
      BY <3>1
  <2>. QED
    BY <1>2, <2>1, <2>2, ScopesTyped DEF Giving, Calm
<1>5. ASSUME m.op = "remove" PROVE Taking(c, call[q])'
  <2>1. Taking(c, m)
    BY <1>5 DEF Writing
  <2>2. m.seen[c] \subseteq Scope
    <3>1. m.cred = c /\ m.seen[m.cred] \in SUBSET Scope
      BY <1>1, <1>5 DEF Rescoped, About, Sound
    <3>. QED
      BY <3>1
  <2>. QED
    BY <2>1, <2>2, ScopesTyped DEF Taking, Calm
<1>6. ASSUME m.op = "removeScope" PROVE Emptying(c, call[q])'
  <2>1. Emptying(c, m)
    BY <1>6 DEF Writing
  <2>2. Agrees(c)'
    BY <2>1, CalmAgrees DEF Emptying
  <2>. QED
    BY <1>3, <2>1, <2>2, ScopesTyped DEF Emptying, Calm
<1>. QED
  BY <1>4, <1>5, <1>6 DEF Writing

\* One call changes.
LEMMA AgreeStep ==
    ASSUME TypeInv, SeenInv, AgreeInv, NEW p \in Proc,
           call' = [call EXCEPT ![p] = call'[p]], Shape(call'[p]),
           raced \subseteq raced', put \subseteq put',
           \A c \in Cred \ (raced' \cup put') :
               /\ Calm(c) \/ c \in Rescoped(call[p])
               /\ c \in Rescoped(call'[p]) => Writing(c, call[p])'
               /\ c \in Rescoped(call[p]) /\ c \notin Rescoped(call'[p]) => Agrees(c)'
    PROVE  AgreeInv'
<1>1. \A q \in Proc \ {p} : call'[q] = call[q]
  BY DEF TypeInv, TypeOK
<1>2. \A q \in Proc : Shape(call'[q])
  BY <1>1 DEF AgreeInv
<1>3. ASSUME NEW c \in Cred \ (raced' \cup put'), \A q \in Proc : c \notin Rescoped(call'[q])
      PROVE  Agrees(c)'
  <2>1. CASE c \in Rescoped(call[p])
    BY <1>3, <2>1
  <2>2. CASE c \notin Rescoped(call[p])
    <3>1. Agrees(c) /\ Calm(c)
      BY <1>1, <1>3, <2>2 DEF AgreeInv
    <3>. QED
      BY <3>1, CalmAgrees
  <2>. QED
    BY <2>1, <2>2
<1>4. ASSUME NEW c \in Cred \ (raced' \cup put'), NEW q \in Proc, c \in Rescoped(call'[q])
      PROVE  Writing(c, call[q])'
  <2>1. CASE q = p
    BY <1>4, <2>1
  <2>2. CASE q # p
    <3>1. c \in Rescoped(call[q]) /\ Writing(c, call[q])
      BY <1>1, <1>4, <2>2 DEF AgreeInv
    <3>2. c \notin Rescoped(call[p])
      BY <2>2, <3>1 DEF SeenInv
    <3>. QED
      BY <1>1, <2>2, <3>1, <3>2, CalmWriting
  <2>. QED
    BY <2>1, <2>2
<1>. QED
  BY <1>2, <1>3, <1>4 DEF AgreeInv

\* No call changes, and all is calm.
LEMMA AgreeCalm ==
    ASSUME TypeInv, AgreeInv, UNCHANGED <<call, raced, put>>, \A c \in Cred : Calm(c)
    PROVE  AgreeInv'
<1>1. ASSUME NEW c \in Cred \ (raced \cup put), \A q \in Proc : c \notin Rescoped(call[q]) PROVE Agrees(c)'
  BY <1>1, CalmAgrees DEF AgreeInv
<1>2. ASSUME NEW c \in Cred \ (raced \cup put), NEW q \in Proc, c \in Rescoped(call[q])
      PROVE  Writing(c, call[q])'
  BY <1>2, CalmWriting DEF AgreeInv
<1>. QED
  BY <1>1, <1>2 DEF AgreeInv
\* A new call: nothing is written yet, and no other call rescopes what it will write.
LEMMA AgreeBegin ==
    ASSUME TypeInv, SeenInv, AgreeInv, NEW p \in Proc, Request(p)
    PROVE  AgreeInv'
<1>1. ASSUME NEW n, n \in Call, Sound(n), Begin(p, n), Shape(n),
             \A c \in Cred : Agrees(c) /\ c \in Rescoped(n) => Writing(c, n)
      PROVE  AgreeInv'
  <2>1. /\ call[p] = Idle /\ Becomes(p, n) /\ call'[p] = n
        /\ UNCHANGED <<scopes, creds, assoc, put>>
    BY <1>1, BeginTyped DEF store, Becomes, TypeInv, TypeOK
  <2>2. raced' = raced \cup (Rescoped(n) \cap UNION {Rescoped(call[q]) : q \in Proc})
    BY <1>1 DEF Begin
  <2>3. call' = [call EXCEPT ![p] = call'[p]] /\ Shape(call'[p]) /\ raced \subseteq raced' /\ put \subseteq put'
    BY <1>1, <2>1, <2>2 DEF Becomes
  <2>4. ASSUME NEW c \in Cred \ (raced' \cup put), c \in Rescoped(n) PROVE Writing(c, call[p])'
    <3>1. \A q \in Proc : c \notin Rescoped(call[q])
      BY <2>2, <2>4
    <3>2. Agrees(c)
      BY <2>2, <2>4, <3>1 DEF AgreeInv
    <3>3. Writing(c, n)
      BY <1>1, <2>4, <3>2
    <3>. QED
      BY <2>1, <3>3 DEF Writing, Giving, Taking, Emptying, Agrees, Backed
  <2>5. \A c \in Cred : Calm(c) /\ c \notin Rescoped(call[p])
    BY <2>1, SameCalm, Rescopes
  <2>. QED
    BY <2>1, <2>3, <2>4, <2>5, AgreeStep
<1>2. ASSUME NEW s \in Scope, Begin(p, NewRemoval(s)) PROVE AgreeInv'
  <2>. DEFINE n == NewRemoval(s)
  <2>1. /\ n \in Call /\ Sound(n) /\ n.op = "removeScope" /\ n.want = {s} /\ n.reading = assoc[s]
        /\ n.seen = Nothing
    BY NewRemovalMade
  <2>2. n.writes = {} /\ n.need = {}
    BY <2>1 DEF Sound
  <2>. HIDE DEF n
  <2>3. Shape(n)
    BY <2>1, <2>2 DEF Shape
  <2>4. ASSUME NEW c \in Cred, Agrees(c) PROVE Writing(c, n)
    <3>1. n.seen[c] = None
      BY <2>1 DEF Nothing
    <3>. QED
      BY <2>1, <2>4, <3>1 DEF Writing, Emptying, Agrees, Backed
  <2>. QED
    BY <1>1, <1>2, <2>1, <2>3, <2>4 DEF n
<1>3. ASSUME NEW k \in Consumer, NEW want \in {None} \cup SUBSET Scope, Begin(p, NewSingle(k, want)) PROVE AgreeInv'
  <2>. DEFINE n == NewSingle(k, want)
  <2>1. n \in Call /\ Sound(n) /\ n.op = "insert" /\ n.writes = {} /\ n.need = {}
    BY NewSingleMade
  <2>. HIDE DEF n
  <2>2. Shape(n) /\ \A c \in Cred : Agrees(c) => Writing(c, n)
    BY <2>1 DEF Shape, Writing, Giving, Agrees, Backed
  <2>. QED
    BY <1>1, <1>3, <2>1, <2>2 DEF n
<1>4. ASSUME NEW k \in Consumer, NEW c \in Key, NEW want \in SUBSET Scope, Begin(p, NewKey(k, c, want)) PROVE AgreeInv'
  <2>. DEFINE n == NewKey(k, c, want)
  <2>1. /\ n \in Call /\ Sound(n) /\ n.op = "insert" /\ n.want = want /\ n.need = want
        /\ n.writes = Writes("insert", c, want)
    BY NewKeyMade
  <2>2. "hash" \in n.writes /\ want # None /\ \A s \in want : s \in n.writes
    BY <2>1, Apart DEF Writes, Associated
  <2>. HIDE DEF n
  <2>3. Shape(n) /\ \A d \in Cred : Agrees(d) => Writing(d, n)
    BY <2>1, <2>2 DEF Shape, Writing, Giving, Agrees, Backed
  <2>. QED
    BY <1>1, <1>4, <2>1, <2>3 DEF n
<1>5. ASSUME NEW op, NEW c, NEW want, NEW need, Operates(p, op, c, want, need) PROVE AgreeInv'
  <2>. DEFINE n == NewOp(op, c, want, need)
  <2>1. /\ n \in Call /\ Sound(n) /\ n.op = op /\ n.cred = c /\ n.want = want /\ n.need = need
        /\ n.writes = Writes(op, c, want) /\ n.seen[c] = creds[c].scopes
    BY <1>5, NewOpMade
  <2>2. /\ op \in Change /\ c \in Cred /\ creds[c] # None /\ Begin(p, n)
        /\ op \in {"add", "remove", "set"} => want \in SUBSET Scope
        /\ need = IF op = "add" THEN want ELSE {}
    BY <1>5 DEF Operates
  <2>3. "hash" \in n.writes
    BY <2>1 DEF Writes
  <2>4. op = "add" => want # None /\ \A s \in want : s \in n.writes
    BY <2>1, <2>2, Apart DEF Writes, Associated
  <2>5. (op = "set" => n.writes = {"hash"}) /\ (op = "remove" => n.writes \cap Scope \subseteq want)
    BY <2>1, <2>2, Apart DEF Writes, Associated
  <2>. HIDE DEF n
  <2>6. Shape(n)
    BY <2>1, <2>2, <2>3, <2>5 DEF Shape
  <2>7. ASSUME NEW d \in Cred, Agrees(d), d \in Rescoped(n) PROVE Writing(d, n)
    <3>1. d = c
      BY <2>1, <2>2, <2>7 DEF Rescoped, About, Change
    <3>. QED
      BY <2>1, <2>2, <2>3, <2>4, <2>7, <3>1 DEF Writing, Giving, Taking, Agrees, Backed, Change
  <2>. QED
    BY <1>1, <2>1, <2>2, <2>6, <2>7
<1>. QED
  BY <1>2, <1>3, <1>4, <1>5, RequestCases

\* What the removal of a scope leaves.
LEMMA AgreeRemoved ==
    ASSUME TypeInv, SeenInv, AgreeInv, NEW p \in Proc, NEW s \in Scope, RemoveScopeExec(p, s)
    PROVE  AgreeInv'
<1>. DEFINE m == call[p]
<1>1. m.op = "removeScope" /\ m.want = {s} /\ m.reading = {} /\ Becomes(p, Idle) /\ call'[p] = Idle
  BY RemovedTyped
<1>2. UNCHANGED <<raced, put>> /\ scopes' = scopes \ {s} /\ assoc' = [assoc EXCEPT ![s] = {}]
  BY DEF RemoveScopeExec, hist
<1>3. ASSUME NEW c \in Cred \ (raced \cup put) PROVE Agrees(c)'
  <2>1. Emptying(c, m)
    BY <1>1 DEF AgreeInv, Writing, Rescoped, About
  <2>2. m.seen[c] \notin {None, Gone} => m.seen[c] \subseteq Scope
    BY DEF TypeInv, TypeOK, Call
  <2>3. \A t \in Scope \ {s} : Backed(c, t) => t \in scopes' /\ c \in assoc'[t]
    BY <1>2 DEF Backed, TypeInv, TypeOK
  <2>4. CASE m.seen[c] \in {None, Gone}
    <3>1. creds'[c] = creds[c]
      BY <2>4, RemovedTyped
    <3>2. creds[c] # None => s \notin creds[c].scopes /\ creds[c].scopes \subseteq Scope
      BY <1>1, <2>1, <2>4, ScopesTyped DEF Emptying
    <3>. QED
      BY <2>1, <2>3, <3>1, <3>2 DEF Emptying, Agrees, Backed
  <2>5. CASE m.seen[c] \notin {None, Gone}
    <3>1. creds'[c].scopes = m.seen[c] \ {s}
      BY <2>5, RemovedTyped
    <3>. QED
      BY <2>1, <2>2, <2>3, <2>5, <3>1 DEF Emptying, Agrees, Backed
  <2>. QED
    BY <2>4, <2>5
<1>4. \A c \in Cred : c \in Rescoped(m) /\ c \notin Rescoped(Idle)
  BY <1>1, Rescopes DEF Rescoped, About
<1>5. Shape(Idle)
  BY Apart DEF Shape, Idle, Op
<1>. QED
  BY <1>1, <1>2, <1>3, <1>4, <1>5, AgreeStep DEF Becomes

\* The removal of a scope reads a credential.
LEMMA AgreeRead ==
    ASSUME TypeInv, SeenInv, AgreeInv, NEW p \in Proc, NEW b \in Cred, ReadAssociated(p, b)
    PROVE  AgreeInv'
<1>. DEFINE m == call[p]
            n == call'[p]
<1>1. /\ Becomes(p, n) /\ UNCHANGED <<scopes, creds, assoc, raced, put>>
      /\ m.op = "removeScope" /\ n.op = "removeScope" /\ n.want = m.want /\ n.reading = m.reading \ {b}
      /\ n.seen[b] = Seen(b) /\ \A d \in Cred \ {b} : n.seen[d] = m.seen[d]
  BY ReadTyped DEF store, hist
<1>2. Shape(n)
  BY <1>1 DEF Shape, Becomes, Sound
<1>3. ASSUME NEW c \in Cred \ (raced \cup put) PROVE Writing(c, call[p])'
  <2>1. Emptying(c, m)
    BY <1>1 DEF AgreeInv, Writing, Rescoped, About
  <2>2. /\ creds[c] # None => \A s \in creds[c].scopes \cap n.want : c \in n.reading \/ n.seen[c] \notin {None, Gone}
        /\ n.seen[c] \notin {None, Gone} => \A s \in n.seen[c] : Backed(c, s)
    <3>1. CASE c = b
      <4>1. creds[c] # None => Seen(c) = creds[c].scopes /\ Seen(c) \notin {None, Gone}
        BY SeenTyped, Apart
      <4>2. creds[c] = None => Seen(c) = Gone
        BY SeenTyped
      <4>. QED
        BY <1>1, <2>1, <3>1, <4>1, <4>2 DEF Emptying, Agrees
    <3>2. CASE c # b
      BY <1>1, <2>1, <3>2 DEF Emptying
    <3>. QED
      BY <3>1, <3>2
  <2>. QED
    BY <1>1, <2>1, <2>2 DEF Writing, Emptying, Agrees, Backed
<1>4. \A c \in Cred : Calm(c) /\ c \in Rescoped(n)
  BY <1>1, SameCalm DEF Rescoped, About
<1>. QED
  BY <1>1, <1>2, <1>3, <1>4, AgreeStep DEF Becomes
\* The commands of a call that executes one.
LEMMA ShapeStays ==
    ASSUME TypeInv, AgreeInv, NEW p \in Proc, NEW w, Executed(p, w)
    PROVE  Shape(call'[p])
<1>1. Shape(Idle)
  BY Apart DEF Shape, Idle, Op
<1>2. Shape(call[p])
  BY DEF AgreeInv
<1>. QED
  BY <1>1, <1>2, ExecutedTyped DEF Shape

\* A call ends: nothing was left of what it writes but w, or it wrote nothing of the hash yet.
LEMMA AgreeExecuted ==
    ASSUME TypeInv, SeenInv, AgreeInv, NEW p \in Proc, NEW w, Executed(p, w),
           UNCHANGED raced, put \subseteq put',
           \A c \in Cred \ {call[p].cred} : Calm(c),
           \A c \in Cred \ (raced \cup put') : c = call[p].cred =>
               IF call[p].op \in {"activate", "deactivate", "update"} THEN Calm(c)
               ELSE IF call'[p] = Idle THEN Agrees(c)' ELSE Writing(c, call[p])'
    PROVE  AgreeInv'
<1>. DEFINE m == call[p]
            n == call'[p]
<1>1. /\ m.cred \in Cred /\ m.op \in Op \ {"removeScope"} /\ Becomes(p, n)
      /\ n = Idle \/ (n.op = m.op /\ n.cred = m.cred)
  BY ExecutedTyped
<1>2. ASSUME NEW c \in Cred, c \in Rescoped(n) PROVE c = m.cred /\ n # Idle
  BY <1>1, <1>2, Rescopes DEF Rescoped, About
<1>3. ASSUME NEW c \in Cred \ (raced \cup put')
      PROVE  /\ Calm(c) \/ c \in Rescoped(m)
             /\ c \in Rescoped(n) => Writing(c, call[p])'
             /\ c \in Rescoped(m) /\ c \notin Rescoped(n) => Agrees(c)'
  <2>1. CASE c # m.cred
    <3>1. c \notin Rescoped(m)
      BY <1>1, <2>1 DEF Rescoped, About
    <3>. QED
      BY <1>2, <2>1, <3>1
  <2>2. CASE c = m.cred /\ m.op \in {"activate", "deactivate", "update"}
    <3>1. c \notin Rescoped(m) /\ c \notin Rescoped(n)
      BY <1>1, <2>2, Rescopes DEF Rescoped
    <3>. QED
      BY <2>2, <3>1
  <2>3. CASE c = m.cred /\ m.op \notin {"activate", "deactivate", "update"}
    <3>1. c \in Rescoped(m)
      BY <1>1, <2>3, Apart DEF Rescoped, About
    <3>2. c \notin Rescoped(n) => n = Idle
      BY <1>1, <3>1 DEF Rescoped, About
    <3>. QED
      BY <1>2, <2>3, <3>1, <3>2
  <2>. QED
    BY <2>1, <2>2, <2>3
<1>. QED
  BY <1>1, <1>3, ShapeStays, AgreeStep DEF Becomes

\* A scope is answered for, or is not there.
LEMMA AgreeChecked ==
    ASSUME TypeInv, SeenInv, AgreeInv, NEW p \in Proc, NEW s \in Scope, CheckScope(p, s)
    PROVE  AgreeInv'
<1>. DEFINE m == call[p]
            n == call'[p]
<1>1. /\ UNCHANGED <<scopes, creds, assoc, raced, put>> /\ s \in m.need /\ Sound(m) /\ Becomes(p, n)
      /\ \/ n = Idle
         \/ /\ s \in scopes /\ n.need = m.need \ {s} /\ n.op = m.op /\ n.cred = m.cred
            /\ n.want = m.want /\ n.seen = m.seen /\ n.writes = m.writes
  BY CheckScopeTyped DEF store, hist, TypeInv
<1>2. Shape(m) /\ "hash" \in m.writes /\ m.op \notin {None, "removeScope", "remove"}
  BY <1>1 DEF AgreeInv, Shape, Sound
<1>3. \A c \in Cred : Calm(c)
  BY <1>1, SameCalm
<1>4. CASE n = Idle
  <2>1. Shape(n)
    BY <1>4, Apart DEF Shape, Idle, Op
  <2>2. ASSUME NEW c \in Cred \ (raced \cup put), c \in Rescoped(m) PROVE Agrees(c)'
    <3>1. Writing(c, m)
      BY <2>2 DEF AgreeInv
    <3>2. m.op \in {"insert", "add"}
      <4>1. m.op \in Op
        BY <1>2 DEF TypeInv, TypeOK, Call
      <4>. QED
        BY <1>1, <1>2, <2>2, <4>1 DEF Op, Rescoped, Shape
    <3>. QED
      BY <1>1, <1>2, <3>1, <3>2 DEF Writing, Giving, Agrees, Backed
  <2>. QED
    BY <1>1, <1>3, <1>4, <2>1, <2>2, Rescopes, AgreeStep DEF Becomes
<1>5. CASE n # Idle
  <2>1. Shape(n)
    BY <1>1, <1>2, <1>5 DEF Shape
  <2>2. Rescoped(n) = Rescoped(m)
    BY <1>1, <1>5 DEF Rescoped, About
  <2>3. ASSUME NEW c \in Cred \ (raced \cup put), c \in Rescoped(n) PROVE Writing(c, call[p])'
    <3>1. Writing(c, m)
      BY <2>2, <2>3 DEF AgreeInv
    <3>. QED
      BY <1>1, <1>2, <1>5, <3>1 DEF Writing, Giving, Backed
  <2>. QED
    BY <1>1, <1>3, <2>1, <2>2, <2>3, AgreeStep DEF Becomes
<1>. QED
  BY <1>4, <1>5

\* An insertion looks the credential up.
LEMMA AgreeLookUp ==
    ASSUME TypeInv, SeenInv, AgreeInv, NEW p \in Proc, LookUp(p)
    PROVE  AgreeInv'
<1>. DEFINE m == call[p]
            n == call'[p]
<1>1. /\ UNCHANGED <<scopes, creds, assoc, raced, put>> /\ Becomes(p, n)
      /\ m.op = "insert" /\ m.writes = {} /\ Sound(m) /\ m.want \in {None} \cup SUBSET Scope
      /\ \/ n = Idle
         \/ /\ n.op = "insert" /\ n.cred = m.cred /\ n.want = m.want
            /\ n.need = (IF n.want = None THEN {} ELSE n.want)
            /\ n.writes = Writes("insert", n.cred, n.want)
  BY LookUpTyped DEF store, hist, TypeInv, TypeOK, Call
<1>2. \A c \in Cred : Calm(c)
  BY <1>1, SameCalm
<1>3. ASSUME NEW c \in Cred \ (raced \cup put), c \in Rescoped(m) PROVE Agrees(c)
  BY <1>1, <1>3 DEF AgreeInv, Writing, Giving, Agrees, Backed
<1>4. CASE n = Idle
  <2>1. Shape(n)
    BY <1>4, Apart DEF Shape, Idle, Op
  <2>. QED
    BY <1>1, <1>2, <1>3, <1>4, <2>1, CalmAgrees, Rescopes, AgreeStep DEF Becomes
<1>5. CASE n # Idle
  <2>1. "hash" \in n.writes /\ (n.want # None => \A s \in n.want : s \in n.writes)
    BY <1>1, <1>5 DEF Writes, Associated
  <2>2. Shape(n)
    BY <1>1, <1>5, <2>1 DEF Shape
  <2>3. Rescoped(n) = Rescoped(m)
    BY <1>1, <1>5 DEF Rescoped, About
  <2>4. ASSUME NEW c \in Cred \ (raced \cup put), c \in Rescoped(n) PROVE Writing(c, call[p])'
    <3>1. Agrees(c)
      BY <1>3, <2>3, <2>4
    <3>. QED
      BY <1>1, <1>5, <2>1, <3>1 DEF Writing, Giving, Agrees, Backed
  <2>. QED
    BY <1>1, <1>2, <2>2, <2>3, <2>4, AgreeStep DEF Becomes
<1>. QED
  BY <1>4, <1>5

\* A key is listed.
LEMMA AgreeListed ==
    ASSUME TypeInv, SeenInv, AgreeInv, NEW p \in Proc, WriteList(p)
    PROVE  AgreeInv'
<1>. DEFINE m == call[p]
            n == call'[p]
<1>1. /\ Executed(p, "list") /\ UNCHANGED <<scopes, creds, assoc, raced, put>> /\ m.op = "insert" /\ m.need = {}
      /\ \/ n = Idle /\ m.writes = {"list"}
         \/ /\ n.writes = m.writes \ {"list"} /\ n.op = m.op /\ n.cred = m.cred /\ n.want = m.want /\ n.need = m.need
            /\ n.seen = m.seen
  BY ExecutedTyped DEF WriteList, hist, TypeInv, Sound
<1>2. \A d \in Cred : Calm(d)
  BY <1>1, SameCalm
<1>3. ASSUME NEW c \in Cred \ (raced \cup put), c = m.cred
      PROVE  /\ n = Idle => Agrees(c)'
             /\ n # Idle => Writing(c, call[p])'
  <2>1. Giving(c, m)
    BY <1>1, <1>3, Apart DEF AgreeInv, Writing, Rescoped, About
  <2>2. creds[c] # None => "list" \notin creds[c].scopes
    BY ScopesTyped, Apart
  <2>3. m.want # None => "list" \notin m.want
    BY Apart DEF TypeInv, TypeOK, Call
  <2>4. ASSUME n = Idle PROVE Agrees(c)'
    <3>1. m.writes = {"list"}
      BY <1>1, <2>4, Apart DEF Idle, Op
    <3>. QED
      BY <1>1, <2>1, <2>2, <3>1 DEF Giving, Agrees, Backed
  <2>5. ASSUME n # Idle PROVE Writing(c, call[p])'
    BY <1>1, <2>1, <2>2, <2>3, <2>5 DEF Writing, Giving, Backed
  <2>. QED
    BY <2>4, <2>5
<1>. QED
  BY <1>1, <1>2, <1>3, AgreeExecuted
\* A call that executes a command ends with it, or has one less left.
LEMMA Ended ==
    ASSUME TypeInv, NEW p \in Proc, NEW w, Executed(p, w)
    PROVE  LET m == call[p]  n == call'[p] IN
           /\ n = Idle => m.writes = {w}
           /\ n # Idle => /\ n.writes = m.writes \ {w} /\ n.op = m.op /\ n.cred = m.cred /\ n.want = m.want
                          /\ n.need = m.need /\ n.seen = m.seen
           /\ m.cred \in Cred /\ m.need = {} /\ w \in m.writes
  BY ExecutedTyped, Apart DEF Idle

\* A scope's associations are written.
LEMMA AgreeAssociated ==
    ASSUME TypeInv, SeenInv, AgreeInv, NEW p \in Proc, NEW s \in Scope, WriteAssociation(p, s)
    PROVE  AgreeInv'
<1>. DEFINE m == call[p]
            n == call'[p]
<1>1. Executed(p, s) /\ UNCHANGED <<scopes, creds, raced, put>>
      /\ assoc' = [assoc EXCEPT ![s] = IF m.op = "remove" THEN assoc[s] \ {m.cred} ELSE assoc[s] \cup {m.cred}]
  BY DEF WriteAssociation, hist
<1>2. /\ m.cred \in Cred /\ m.need = {} /\ s \in m.writes /\ m.op \in Op \ {"removeScope"} /\ Shape(m)
      /\ n = Idle => m.writes = {s}
      /\ n # Idle => /\ n.writes = m.writes \ {s} /\ n.op = m.op /\ n.cred = m.cred /\ n.want = m.want
                     /\ n.need = m.need /\ n.seen = m.seen
  BY <1>1, Ended, ExecutedTyped DEF AgreeInv
<1>3. m.op # "set" /\ s # "hash" /\ (m.op = "remove" => s \in m.want)
  BY <1>2, Apart DEF Shape
<1>4. assoc \in [Scope -> SUBSET Cred] /\ \A t \in Scope \ {s} : assoc'[t] = assoc[t]
  BY <1>1 DEF TypeInv, TypeOK
<1>5. assoc'[s] = IF m.op = "remove" THEN assoc[s] \ {m.cred} ELSE assoc[s] \cup {m.cred}
  BY <1>1, <1>4
<1>6. ASSUME NEW c \in Cred, c # m.cred PROVE Calm(c)
  BY <1>1, <1>4, <1>5, <1>6 DEF Calm, Backed
<1>7. ASSUME NEW c \in Cred \ (raced \cup put), c = m.cred
      PROVE  IF m.op \in {"activate", "deactivate", "update"} THEN Calm(c)
             ELSE IF n = Idle THEN Agrees(c)' ELSE Writing(c, call[p])'
  <2>1. creds[c] # None => creds[c].scopes \subseteq Scope
    BY ScopesTyped
  <2>2. m.want # None => m.want \subseteq Scope
    BY DEF TypeInv, TypeOK, Call
  <2>3. CASE m.op \in {"activate", "deactivate", "update"}
    BY <1>1, <1>4, <1>5, <2>3 DEF Calm, Backed
  <2>4. CASE m.op \in {"insert", "add"}
    <3>1. Giving(c, m)
      BY <1>7, <2>4, Apart DEF AgreeInv, Writing, Rescoped, About
    <3>2. m.op = "add" => m.seen[c] \subseteq Scope
      BY <1>7 DEF TypeInv, Sound
    <3>. QED
      BY <1>1, <1>2, <1>3, <1>4, <1>5, <1>7, <2>1, <2>2, <2>4, <3>1, <3>2 DEF Writing, Giving, Agrees, Backed
  <2>5. CASE m.op = "remove"
    <3>1. Taking(c, m)
      BY <1>7, <2>5, Apart DEF AgreeInv, Writing, Rescoped, About
    <3>2. m.seen[c] \subseteq Scope
      BY <1>7, <2>5 DEF TypeInv, Sound
    <3>. QED
      BY <1>1, <1>2, <1>3, <1>4, <1>5, <1>7, <2>1, <2>5, <3>1, <3>2 DEF Writing, Taking, Agrees, Backed
  <2>. QED
    BY <1>2, <1>3, <2>3, <2>4, <2>5 DEF Op
<1>. QED
  BY <1>1, <1>6, <1>7, AgreeExecuted

\* A hash is written.
LEMMA AgreeWritten ==
    ASSUME TypeInv, SeenInv, AgreeInv, NEW p \in Proc, WriteHash(p)
    PROVE  AgreeInv'
<1>. DEFINE m == call[p]
            n == call'[p]
            w == Written(call[p])
<1>1. /\ Executed(p, "hash") /\ UNCHANGED <<scopes, assoc, raced>> /\ creds' = [creds EXCEPT ![m.cred] = w]
      /\ put' = IF m.op = "set" THEN put \cup {m.cred} ELSE put
  BY DEF WriteHash
<1>2. /\ m.cred \in Cred /\ m.need = {} /\ "hash" \in m.writes /\ m.op \in Op \ {"removeScope"}
      /\ n = Idle => m.writes = {"hash"}
      /\ n # Idle => /\ n.writes = m.writes \ {"hash"} /\ n.op = m.op /\ n.cred = m.cred /\ n.want = m.want
                     /\ n.need = m.need /\ n.seen = m.seen
  BY <1>1, Ended, ExecutedTyped
<1>3. /\ w \in Credential
      /\ m.op \in {"activate", "deactivate", "update"} => w.scopes = Hash(m.cred).scopes
      /\ m.op = "insert" => w.scopes = IF m.want = None THEN Hash(m.cred).scopes ELSE m.want
      /\ m.op = "add" => w.scopes = m.seen[m.cred] \cup m.want
      /\ m.op = "remove" => w.scopes = m.seen[m.cred] \ m.want
  BY <1>2, WrittenTyped
<1>. HIDE DEF w
<1>4. creds'[m.cred] = w /\ \A d \in Cred \ {m.cred} : creds'[d] = creds[d]
  BY <1>1, <1>2 DEF TypeInv, TypeOK
<1>5. ASSUME NEW c \in Cred, c # m.cred PROVE Calm(c)
  BY <1>1, <1>4, <1>5 DEF Calm, Backed
<1>6. ASSUME NEW c \in Cred \ (raced \cup put'), c = m.cred
      PROVE  IF m.op \in {"activate", "deactivate", "update"} THEN Calm(c)
             ELSE IF n = Idle THEN Agrees(c)' ELSE Writing(c, call[p])'
  <2>0. creds'[c] = w /\ c \notin put /\ m.op # "set"
    BY <1>1, <1>4, <1>6
  <2>1. ASSUME NEW s \in Hash(c).scopes PROVE creds[c] # None /\ s \in creds[c].scopes
    BY <2>1 DEF Hash
  <2>2. m.want # None => m.want \subseteq Scope /\ "hash" \notin m.want
    BY Apart DEF TypeInv, TypeOK, Call
  <2>3. CASE m.op \in {"activate", "deactivate", "update"}
    BY <1>1, <1>3, <1>6, <2>0, <2>1, <2>3 DEF Calm, Backed
  <2>4. CASE m.op \in {"insert", "add"}
    <3>1. Giving(c, m)
      BY <1>6, <2>0, <2>4, Apart DEF AgreeInv, Writing, Rescoped, About
    <3>2. m.op = "add" => m.want # None
      BY Apart DEF TypeInv, Sound
    <3>3. \A s \in w.scopes : s \in scopes /\ (c \in assoc[s] \/ s \in m.writes \ {"hash"})
      <4>1. CASE m.op = "insert" /\ m.want = None
        BY <1>2, <1>3, <1>6, <2>1, <3>1, <4>1 DEF Giving
      <4>2. CASE m.op = "insert" /\ m.want # None
        BY <1>2, <1>3, <1>6, <2>2, <3>1, <4>2 DEF Giving
      <4>3. CASE m.op = "add"
        BY <1>2, <1>3, <1>6, <2>2, <3>1, <3>2, <4>3 DEF Giving, Backed
      <4>. QED
        BY <2>4, <4>1, <4>2, <4>3
    <3>4. CASE n = Idle
      BY <1>1, <1>2, <2>0, <2>4, <3>3, <3>4 DEF Agrees, Backed
    <3>5. CASE n # Idle
      BY <1>1, <1>2, <2>0, <2>4, <3>3, <3>5 DEF Writing, Giving
    <3>. QED
      BY <2>4, <3>4, <3>5
  <2>5. CASE m.op = "remove"
    <3>1. Taking(c, m)
      BY <1>6, <2>0, <2>5, Apart DEF AgreeInv, Writing, Rescoped, About
    <3>2. \A s \in w.scopes : s \notin m.want /\ Backed(c, s)
      BY <1>2, <1>3, <1>6, <2>5, <3>1 DEF Taking
    <3>3. CASE n = Idle
      BY <1>1, <2>0, <2>5, <3>2, <3>3 DEF Agrees, Backed
    <3>4. CASE n # Idle
      BY <1>1, <1>2, <2>0, <2>5, <3>2, <3>4 DEF Writing, Taking, Backed
    <3>. QED
      BY <2>5, <3>3, <3>4
  <2>. QED
    BY <1>2, <2>0, <2>3, <2>4, <2>5 DEF Op
<1>. QED
  BY <1>1, <1>5, <1>6, AgreeExecuted

\* Each step keeps that.
LEMMA AgreeNext == TypeInv /\ SeenInv /\ AgreeInv /\ [Next]_vars => AgreeInv'
<1>. SUFFICES ASSUME TypeInv, SeenInv, AgreeInv, [Next]_vars PROVE AgreeInv'
  OBVIOUS
<1>1. ASSUME NEW s \in Scope, InsertScope(s) PROVE AgreeInv'
  <2>1. \A c \in Cred : Calm(c)
    BY <1>1 DEF InsertScope, Calm, Backed
  <2>. QED
    BY <1>1, <2>1, AgreeCalm DEF InsertScope, hist
<1>2. ASSUME NEW k \in Consumer, RemoveConsumer(k) PROVE AgreeInv'
  BY <1>2, SameCalm, AgreeCalm DEF RemoveConsumer, hist
<1>3. ASSUME NEW k \in Consumer, RemoveAll(k) PROVE AgreeInv'
  <2>1. \A c \in Cred : Calm(c)
    BY <1>3 DEF RemoveAll, Calm, Backed
  <2>. QED
    BY <1>3, <2>1, AgreeCalm DEF RemoveAll
<1>4. ASSUME NEW c \in Cred, RemoveCredential(c) PROVE AgreeInv'
  <2>1. \A d \in Cred : Calm(d)
    BY <1>4 DEF RemoveCredential, Calm, Backed, TypeInv, TypeOK
  <2>. QED
    BY <1>4, <2>1, AgreeCalm DEF RemoveCredential
<1>5. ASSUME NEW p \in Proc, Reply(p) PROVE AgreeInv'
  BY <1>5, AgreeRead, AgreeRemoved, AgreeChecked, AgreeAssociated, AgreeLookUp, AgreeWritten, AgreeListed DEF Reply
<1>6. CASE UNCHANGED vars
  BY <1>6, SameCalm, AgreeCalm DEF vars, store, hist
<1>. QED
  BY <1>1, <1>2, <1>3, <1>4, <1>5, <1>6, AgreeBegin DEF Next

\* Unless two overlapping calls wrote its scopes, or they were set as a whole, a credential no
\* call is writing has only scopes that are defined, and that will be taken from it when they are
\* removed (credential.dao.js 39-94, credential.service.js 214-246).
THEOREM ScopesBacked == Spec => []ScopesAgree
<1>1. Init => SeenInv
  BY Rescopes DEF Init, SeenInv
<1>2. Init => AgreeInv
  <2>1. Shape(Idle)
    BY Apart DEF Shape, Idle, Op
  <2>. QED
    BY <2>1, Rescopes DEF Init, AgreeInv, Agrees
<1>3. AgreeInv => ScopesAgree
  BY DEF AgreeInv, ScopesAgree, Agrees, Backed
<1>. QED
  BY <1>1, <1>2, <1>3, TypeAlways, SeenNext, AgreeNext, PTL DEF Spec
=============================================================================
