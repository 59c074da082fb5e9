--------------------------- MODULE AuthCodesProofs ---------------------------
(* What AuthCodes promises of grants and exchanges, for any number of       *)
(* clients, codes and calls in progress.                                    *)
EXTENDS AuthCodes, TLAPS

\* What becomes of the record of a call at a reply.
LEMMA Answered ==
    ASSUME NEW k \in Call
    PROVE  [k EXCEPT !.pc = "found"] \in Call
  BY DEF Call

\* The call is answered with null: its code is spent or late.
LEMMA AnsweredNull ==
    ASSUME NEW k \in Call, NEW new, new = [k EXCEPT !.pc = "null"]
    PROVE  new \in Call /\ new.id = k.id /\ new.pc = "null"
  BY DEF Call

\* Every variable has its type; a call has the id of its code, and one that removes or
\* answers has the code.
THEOREM Typing == Spec => []TypeOK
<1>1. Init => TypeOK
  BY AuthCodesAssumption DEF Init, TypeOK, Idle, Call
<1>2. TypeOK /\ [Next]_vars => TypeOK'
  <2>. SUFFICES ASSUME TypeOK, [Next]_vars PROVE TypeOK'
    OBVIOUS
  <2>. USE AuthCodesAssumption DEF TypeOK
  <2>1. CASE Tick
    BY <2>1 DEF Tick
  <2>2. ASSUME NEW i \in CodeId, DropExpired(i) PROVE TypeOK'
    BY <2>2 DEF DropExpired
  <2>3. ASSUME NEW p \in Proc, NEW consumer \in Client, NEW uri \in Uri, NEW user \in User,
               Grant(p, consumer, uri, user)
        PROVE  TypeOK'
    <3>. DEFINE code == [consumer |-> consumer, uri |-> uri, user |-> user, expiresAt |-> now + TTL]
    <3>1. PICK i \in CodeId : call' = [call EXCEPT ![p] =
            [pc |-> "save", id |-> i, consumer |-> consumer, uri |-> uri, code |-> code]]
      BY <2>3 DEF Grant
    <3>2. code \in Code
      BY DEF Code
    <3>. QED
      BY <2>3, <3>1, <3>2 DEF Grant, Call
  <2>4. ASSUME NEW p \in Proc, NEW consumer \in Client, NEW uri \in Uri, NEW i \in CodeId,
               Exchange(p, i, consumer, uri)
        PROVE  TypeOK'
    <3>1. overdue' \in [Proc -> SUBSET CodeId] /\ spent' \in [Proc -> SUBSET CodeId]
      BY <2>4 DEF Exchange
    <3>2. /\ call' \in [Proc -> Call]
          /\ \A q \in Proc : q # p => call'[q] = call[q]
          /\ call'[p].pc = "read" /\ call'[p].id = i
      BY <2>4 DEF Exchange, Call
    <3>. QED
      BY <2>4, <3>1, <3>2 DEF Exchange
  <2>5. ASSUME NEW p \in Proc, SaveCode(p) PROVE TypeOK'
    BY <2>5 DEF SaveCode, Idle, Call
  <2>6. ASSUME NEW p \in Proc, ReadCode(p) PROVE TypeOK'
    <3>1. call[p].id \in CodeId
      BY <2>6 DEF ReadCode, Call
    <3>2. dropping' \in SUBSET CodeId
      BY <2>6, <3>1 DEF ReadCode, ToDrop
    <3>3. codes[call[p].id] \in Code \cup {None}
      BY <3>1
    <3>4. PICK k \in Call :
            /\ call' = [call EXCEPT ![p] = k]
            /\ k.id = call[p].id
            /\ k.pc = "null" \/ (k.pc = "remove" /\ k.code # None)
      <4>. DEFINE k == call[p]  c == codes[k.id]
      <4>1. k \in Call /\ c \in Code \cup {None}
        BY <3>3
      <4>2. \/ c # None /\ call' = [call EXCEPT ![p] = [k EXCEPT !.pc = "remove", !.code = c]]
            \/ call' = [call EXCEPT ![p] = [k EXCEPT !.pc = "null"]]
        BY <2>6 DEF ReadCode
      <4>. HIDE DEF k, c
      <4>3. CASE c # None /\ call' = [call EXCEPT ![p] = [k EXCEPT !.pc = "remove", !.code = c]]
        <5>. DEFINE new == [k EXCEPT !.pc = "remove", !.code = c]
        <5>1. new \in Call /\ new.id = k.id /\ new.pc = "remove" /\ new.code # None
          <6>. HIDE DEF new
          <6>1. new = [k EXCEPT !.pc = "remove", !.code = c]
            BY DEF new
          <6>2. new \in Call /\ new.id = k.id /\ new.pc = "remove" /\ new.code = c
            BY <4>1, <6>1 DEF Call
          <6>. QED
            BY <4>3, <6>2
        <5>. QED
          BY <4>3, <5>1 DEF k
      <4>4. CASE call' = [call EXCEPT ![p] = [k EXCEPT !.pc = "null"]]
        <5>. DEFINE new == [k EXCEPT !.pc = "null"]
        <5>1. new \in Call /\ new.id = k.id /\ new.pc = "null"
          <6>. HIDE DEF new
          <6>1. new = [k EXCEPT !.pc = "null"]
            BY DEF new
          <6>. QED
            BY <4>1, <6>1, AnsweredNull
        <5>. QED
          BY <4>4, <5>1 DEF k
      <4>. QED
        BY <4>2, <4>3, <4>4
    <3>. QED
      BY <2>6, <3>1, <3>2, <3>4 DEF ReadCode
  <2>7. ASSUME NEW p \in Proc, RemoveCode(p) PROVE TypeOK'
    <3>1. call[p].id \in CodeId
      BY <2>7 DEF RemoveCode, Call
    <3>2. [call[p] EXCEPT !.pc = "found"] \in Call
      BY Answered
    <3>3. call[p].code # None
      BY <2>7 DEF RemoveCode
    <3>. QED
      BY <2>7, <3>1, <3>2, <3>3 DEF RemoveCode, Call
  <2>8. ASSUME NEW p \in Proc, Return(p) PROVE TypeOK'
    BY <2>8 DEF Return, Idle, Call
  <2>9. CASE UNCHANGED vars
    BY <2>9 DEF vars
  <2>. QED
    BY <2>1, <2>2, <2>3, <2>4, <2>5, <2>6, <2>7, <2>8, <2>9 DEF Next, Request, Reply
<1>. QED
  BY <1>1, <1>2, PTL DEF Spec

-----------------------------------------------------------------------------
(* The inductive invariant.                                                 *)

IsExpired(i) == granted[i] # None /\ Expired(granted[i])

\* An id that is about to be saved has not been, and no other call saves it.
MintedOnce ==
    \A p \in Proc : call[p].pc = "save" =>
        /\ granted[call[p].id] = None
        /\ \A q \in Proc : call[q].pc = "save" /\ call[q].id = call[p].id => q = p

\* A hash holds the code as it was granted; that of a redeemed code is gone, and
\* one about to be dropped has expired.
HashesHold ==
    /\ \A i \in CodeId : codes[i] # None => codes[i] = granted[i]
    /\ \A i \in redeemed : granted[i] # None /\ codes[i] = None
    /\ \A i \in dropping : IsExpired(i)

\* What was redeemed, or had expired, when a call began is so still.
HistoriesHold ==
    \A p \in Proc : spent[p] \subseteq redeemed /\ \A i \in overdue[p] : IsExpired(i)

\* A call that has read a good code has the grant, to its client and for its URI, and
\* the code was good when the call began.
GoodRead ==
    \A p \in Proc : call[p].pc \in {"remove", "found"} =>
        /\ call[p].code = granted[call[p].id]
        /\ call[p].code.consumer = call[p].consumer
        /\ call[p].code.uri = call[p].uri
        /\ call[p].id \notin spent[p] \cup overdue[p]

CodeInv == MintedOnce /\ HashesHold /\ HistoriesHold /\ GoodRead /\ OnlySpentCodesVanish

\* A grant that is there stays as it is.
LEMMA GrantsStay ==
    ASSUME TypeOK, MintedOnce, [Next]_vars, NEW i \in CodeId, granted[i] # None
    PROVE  granted'[i] = granted[i]
<1>1. ASSUME NEW p \in Proc, SaveCode(p) PROVE granted'[i] = granted[i]
  BY <1>1 DEF SaveCode, MintedOnce, TypeOK
<1>2. CASE \A p \in Proc : ~SaveCode(p)
  BY <1>2 DEF Next, Request, Reply, Tick, DropExpired, Grant, Exchange, ReadCode, RemoveCode, Return, vars
<1>. QED
  BY <1>1, <1>2

\* What has expired stays so.
LEMMA ExpiredStays ==
    ASSUME TypeOK, MintedOnce, [Next]_vars, NEW i \in CodeId, IsExpired(i)
    PROVE  IsExpired(i)'
<1>1. granted'[i] = granted[i]
  BY GrantsStay DEF IsExpired
<1>2. granted[i] \in Code
  BY DEF IsExpired, TypeOK
<1>3. granted[i].expiresAt \in Nat
  BY <1>2 DEF Code
<1>4. now \in Nat
  BY AuthCodesAssumption DEF TypeOK
<1>5. now' = now \/ now' = now + 1
  BY DEF Next, Request, Reply, Tick, DropExpired, Grant, Exchange, SaveCode, ReadCode, RemoveCode, Return, vars
<1>. QED
  BY <1>1, <1>3, <1>4, <1>5 DEF IsExpired, Expired

-----------------------------------------------------------------------------
(* It is inductive.                                                         *)

\* The inductive invariant holds in every reachable state: two calls never mint one
\* id, and what a call has read stays the grant until it answers.
THEOREM CodesAgree == Spec => []CodeInv
<1>1. Init => CodeInv
  BY DEF Init, CodeInv, MintedOnce, HashesHold, HistoriesHold, GoodRead, OnlySpentCodesVanish, Idle
<1>2. TypeOK /\ CodeInv /\ [Next]_vars => CodeInv'
  <2>. SUFFICES ASSUME TypeOK, CodeInv, [Next]_vars PROVE CodeInv'
    OBVIOUS
  <2>. USE DEF CodeInv
  <2>a. \A i \in CodeId : IsExpired(i) => IsExpired(i)'
    BY ExpiredStays
  <2>1. CASE Tick
    BY <2>1, <2>a DEF Tick, MintedOnce, HashesHold, HistoriesHold, GoodRead, OnlySpentCodesVanish, IsExpired, TypeOK
  <2>2. ASSUME NEW i \in CodeId, DropExpired(i) PROVE CodeInv'
    BY <2>2 DEF DropExpired, MintedOnce, HashesHold, HistoriesHold, GoodRead, OnlySpentCodesVanish, IsExpired, Expired, TypeOK
  <2>3. ASSUME NEW p \in Proc, NEW consumer \in Client, NEW uri \in Uri, NEW user \in User,
               Grant(p, consumer, uri, user)
        PROVE  CodeInv'
    <3>1. PICK i \in CodeId \ Minted :
            /\ \A q \in Proc : q # p => call'[q] = call[q]
            /\ call'[p].pc = "save" /\ call'[p].id = i
      BY <2>3 DEF Grant, TypeOK
    <3>2. MintedOnce'
      BY <2>3, <3>1 DEF Grant, MintedOnce, Minted
    <3>3. GoodRead'
      BY <2>3, <3>1 DEF Grant, GoodRead
    <3>. QED
      BY <2>3, <3>2, <3>3 DEF Grant, HashesHold, HistoriesHold, OnlySpentCodesVanish, IsExpired, Expired
  <2>4. ASSUME NEW p \in Proc, NEW consumer \in Client, NEW uri \in Uri, NEW i \in CodeId,
               Exchange(p, i, consumer, uri)
        PROVE  CodeInv'
    <3>1. /\ \A q \in Proc : q # p => call'[q] = call[q]
          /\ call'[p].pc = "read"
      BY <2>4 DEF Exchange, TypeOK
    <3>2. HistoriesHold'
      BY <2>4 DEF Exchange, HistoriesHold, IsExpired, Expired, TypeOK
    <3>3. GoodRead'
      BY <2>4, <3>1 DEF Exchange, GoodRead, TypeOK
    <3>. QED
      BY <2>4, <3>1, <3>2, <3>3 DEF Exchange, MintedOnce, HashesHold, OnlySpentCodesVanish, IsExpired, Expired
  <2>5. ASSUME NEW p \in Proc, SaveCode(p) PROVE CodeInv'
    <3>1. /\ \A q \in Proc : q # p => call'[q] = call[q]
          /\ call'[p].pc = "idle"
          /\ granted[call[p].id] = None
          /\ \A i \in CodeId : i # call[p].id => granted'[i] = granted[i] /\ codes'[i] = codes[i]
      BY <2>5 DEF SaveCode, MintedOnce, TypeOK, Idle
    <3>2. call[p].id \in CodeId /\ call[p].code \in Code /\ call[p].code # None
      BY <2>5 DEF SaveCode, TypeOK, Call
    <3>3. granted'[call[p].id] = call[p].code /\ codes'[call[p].id] = call[p].code
      BY <2>5, <3>2 DEF SaveCode, TypeOK
    <3>4. MintedOnce'
      <4>1. \A q \in Proc : call'[q].pc = "save" => q # p /\ call'[q] = call[q] /\ call[q].id \in CodeId
        BY <3>1 DEF TypeOK, Call
      <4>2. \A q \in Proc : q # p /\ call[q].pc = "save" => call[q].id # call[p].id
        BY <2>5 DEF SaveCode, MintedOnce
      <4>. QED
        BY <3>1, <4>1, <4>2 DEF MintedOnce
    <3>5. HashesHold' /\ HistoriesHold'
      BY <2>5, <2>a, <3>1, <3>2, <3>3 DEF SaveCode, HashesHold, HistoriesHold, IsExpired, TypeOK
    <3>6. GoodRead'
      <4>. SUFFICES ASSUME NEW q \in Proc, call'[q].pc \in {"remove", "found"}
                    PROVE  /\ call'[q].code = granted'[call'[q].id]
                           /\ call'[q].code.consumer = call'[q].consumer
                           /\ call'[q].code.uri = call'[q].uri
                           /\ call'[q].id \notin spent'[q] \cup overdue'[q]
        BY DEF GoodRead
      <4>1. q # p /\ call'[q] = call[q]
        BY <3>1
      <4>2. call[q].code # None /\ call[q].id \in CodeId
        BY <4>1 DEF TypeOK, Call
      <4>3. call[q].id # call[p].id
        BY <3>1, <4>1, <4>2 DEF GoodRead
      <4>. QED
        BY <2>5, <3>1, <4>1, <4>2, <4>3 DEF SaveCode, GoodRead
    <3>7. OnlySpentCodesVanish'
      BY <2>5, <3>1, <3>2, <3>3 DEF SaveCode, OnlySpentCodesVanish, Expired
    <3>. QED
      BY <3>4, <3>5, <3>6, <3>7
  <2>6. ASSUME NEW p \in Proc, ReadCode(p) PROVE CodeInv'
    <3>. DEFINE k == call[p]  c == codes[k.id]
    <3>1. k \in Call /\ k.id \in CodeId
      BY <2>6 DEF ReadCode, TypeOK, Call
    <3>2. c # None => c = granted[k.id] /\ c \in Code /\ k.id \notin redeemed
      BY <3>1 DEF HashesHold, TypeOK
    <3>3. \A q \in Proc : q # p => call'[q] = call[q]
      BY <2>6 DEF ReadCode, TypeOK
    <3>4. call'[p].pc = "null" \/ call'[p].pc = "remove"
      BY <2>6, <3>1 DEF ReadCode, TypeOK, Call
    <3>5. call'[p].pc = "remove" => c # None /\ ~Expired(c) /\ Equal(c, k)
      BY <2>6, <3>1 DEF ReadCode, TypeOK, Call
    <3>6. call'[p].pc = "remove" =>
            call'[p].code = c /\ call'[p].id = k.id /\ call'[p].consumer = k.consumer /\ call'[p].uri = k.uri
      BY <2>6, <3>1, <3>5 DEF ReadCode, TypeOK, Call
    <3>7. HashesHold'
      BY <2>6, <3>1, <3>2 DEF ReadCode, ToDrop, HashesHold, IsExpired, Expired
    <3>8. GoodRead'
      <4>1. k.id \in spent[p] => k.id \in redeemed
        BY DEF HistoriesHold
      <4>2. k.id \in overdue[p] => Expired(granted[k.id])
        BY DEF HistoriesHold, IsExpired
      <4>3. call'[p].pc = "remove" => k.id \notin spent[p] \cup overdue[p]
        BY <3>2, <3>5, <4>1, <4>2
      <4>. QED
        BY <2>6, <3>2, <3>3, <3>4, <3>5, <3>6, <4>3 DEF ReadCode, GoodRead, Equal
    <3>9. MintedOnce'
      BY <2>6, <3>3, <3>4 DEF ReadCode, MintedOnce
    <3>. QED
      BY <2>6, <3>7, <3>8, <3>9 DEF ReadCode, HistoriesHold, OnlySpentCodesVanish, IsExpired, Expired
  <2>7. ASSUME NEW p \in Proc, RemoveCode(p) PROVE CodeInv'
    <3>1. call[p] \in Call /\ call[p].id \in CodeId /\ call[p].code # None
      BY <2>7 DEF RemoveCode, TypeOK, Call
    <3>2. granted[call[p].id] # None
      BY <2>7, <3>1 DEF RemoveCode, GoodRead
    <3>3. \A q \in Proc : /\ call'[q].id = call[q].id /\ call'[q].code = call[q].code
                          /\ call'[q].consumer = call[q].consumer /\ call'[q].uri = call[q].uri
                          /\ q # p => call'[q].pc = call[q].pc
                          /\ call'[p].pc = "found"
      BY <2>7, <3>1 DEF RemoveCode, TypeOK, Call
    <3>4. HashesHold' /\ OnlySpentCodesVanish'
      BY <2>7, <3>1, <3>2 DEF RemoveCode, HashesHold, OnlySpentCodesVanish, IsExpired, Expired, TypeOK
    <3>5. MintedOnce'
      BY <2>7, <3>3 DEF RemoveCode, MintedOnce
    <3>6. GoodRead'
      BY <2>7, <3>3 DEF RemoveCode, GoodRead
    <3>. QED
      BY <2>7, <3>4, <3>5, <3>6 DEF RemoveCode, HistoriesHold, IsExpired, Expired
  <2>8. ASSUME NEW p \in Proc, Return(p) PROVE CodeInv'
    <3>1. /\ \A q \in Proc : q # p => call'[q] = call[q] /\ spent'[q] = spent[q] /\ overdue'[q] = overdue[q]
          /\ call'[p].pc = "idle" /\ spent'[p] = {} /\ overdue'[p] = {}
      BY <2>8 DEF Return, Idle, TypeOK
    <3>. QED
      BY <2>8, <3>1 DEF Return, MintedOnce, HashesHold, HistoriesHold, GoodRead, OnlySpentCodesVanish, IsExpired, Expired
  <2>9. CASE UNCHANGED vars
    BY <2>9 DEF vars, MintedOnce, HashesHold, HistoriesHold, GoodRead, OnlySpentCodesVanish, IsExpired, Expired
  <2>. QED
    BY <2>1, <2>2, <2>3, <2>4, <2>5, <2>6, <2>7, <2>8, <2>9 DEF Next, Request, Reply
<1>. QED
  BY <1>1, <1>2, Typing, PTL DEF Spec

\* An exchange is answered with the code as it was granted, to the client that presents
\* it and for the URI it presents.
THEOREM AnswersAreGrants == Spec => []AnswersTheGrant
<1>1. CodeInv => AnswersTheGrant
  BY DEF CodeInv, GoodRead, AnswersTheGrant
<1>. QED
  BY <1>1, CodesAgree, PTL

\* No exchange that begins after the code was redeemed, or had expired, is answered
\* with it, however many calls are between reading and removing codes.
THEOREM LateExchangesRefused == Spec => []NoLateExchange
<1>1. CodeInv => NoLateExchange
  BY DEF CodeInv, GoodRead, NoLateExchange
<1>. QED
  BY <1>1, CodesAgree, PTL

\* A code disappears only by being redeemed or by expiring.
THEOREM CodesVanishSpent == Spec => []OnlySpentCodesVanish
<1>1. CodeInv => OnlySpentCodesVanish
  BY DEF CodeInv
<1>. QED
  BY <1>1, CodesAgree, PTL

-----------------------------------------------------------------------------
(***************************************************************************)
(* The store keeps the promise of OneTimeCodes.  CodeInv is what it takes, *)
(* and that an exchange holds what it presents.                            *)
(***************************************************************************)

\* A call under way has a client and a URI.
Presents == \A p \in Proc : call[p].pc # "idle" => call[p].consumer \in Client /\ call[p].uri \in Uri

\* No step takes them from it.
LEMMA StepPresents == TypeOK /\ Presents /\ [Next]_vars => Presents'
<1>. SUFFICES ASSUME TypeOK, Presents, [Next]_vars PROVE Presents'
  OBVIOUS
<1>1. ASSUME NEW p \in Proc, \A q \in Proc \ {p} : call'[q] = call[q],
             call'[p].pc # "idle" => call'[p].consumer \in Client /\ call'[p].uri \in Uri
      PROVE  Presents'
  BY <1>1 DEF Presents
<1>2. CASE call' = call
  BY <1>2 DEF Presents
<1>3. ASSUME NEW p \in Proc, NEW consumer \in Client, NEW uri \in Uri, NEW user \in User,
             Grant(p, consumer, uri, user)
      PROVE  Presents'
  BY <1>1, <1>3 DEF Grant, TypeOK
<1>4. ASSUME NEW p \in Proc, NEW consumer \in Client, NEW uri \in Uri, NEW i \in CodeId,
             Exchange(p, i, consumer, uri)
      PROVE  Presents'
  BY <1>1, <1>4 DEF Exchange, TypeOK
<1>5. ASSUME NEW p \in Proc, SaveCode(p) \/ Return(p) PROVE Presents'
  BY <1>1, <1>5 DEF SaveCode, Return, Idle, TypeOK
<1>6. ASSUME NEW p \in Proc, ReadCode(p) \/ RemoveCode(p) PROVE Presents'
  <2>1. call[p] \in Call /\ call[p].pc # "idle" /\ \A q \in Proc \ {p} : call'[q] = call[q]
    BY <1>6 DEF ReadCode, RemoveCode, TypeOK
  <2>2. call'[p].consumer = call[p].consumer /\ call'[p].uri = call[p].uri
    BY <1>6, <2>1 DEF ReadCode, RemoveCode, TypeOK, Call
  <2>. QED
    BY <1>1, <2>1, <2>2 DEF Presents
<1>7. CASE Tick \/ UNCHANGED vars \/ \E i \in CodeId : DropExpired(i)
  BY <1>2, <1>7 DEF Tick, DropExpired, vars
<1>. QED
  BY <1>3, <1>4, <1>5, <1>6, <1>7 DEF Next, Request, Reply

\* What the promise sees of a state.
Gr == [i \in CodeId |-> AccessOf(granted[i])]
Ov == redeemed \cup {i \in CodeId : granted[i] # None /\ Expired(granted[i])}
As == [p \in Proc |-> IF call[p].pc \in {"idle", "save"} THEN None
          ELSE [id |-> call[p].id, consumer |-> call[p].consumer, uri |-> call[p].uri]]
Ba == [p \in Proc |-> spent[p] \cup overdue[p]]
An == [p \in Proc |-> IF call[p].pc = "found" THEN AccessOf(call[p].code) ELSE None]

\* A step that shows in none of it.
LEMMA Hidden ==
    ASSUME UNCHANGED <<Gr, Ov, As, Ba, An>>
    PROVE  UNCHANGED Promise!vars
  BY DEF Promise!vars, Gr, Ov, As, Ba, An

\* What is got of a code is an access, and no access is None.
LEMMA AccessTyped ==
    ASSUME NEW c \in Code
    PROVE  /\ AccessOf(c) \in Access /\ AccessOf(c) # None
           /\ AccessOf(c).consumer = c.consumer /\ AccessOf(c).uri = c.uri
<1>1. AccessOf(c) = [consumer |-> c.consumer, uri |-> c.uri, user |-> c.user]
  BY AuthCodesAssumption DEF AccessOf
<1>. QED
  BY <1>1, AuthCodesAssumption DEF Code, Access

\* Time passes: codes become late.
LEMMA TickMaps ==
    ASSUME TypeOK, CodeInv, Tick
    PROVE  Promise!Next
<1>1. redeemed' = redeemed /\ granted' = granted /\ now' = now + 1 /\ now \in Nat
  BY AuthCodesAssumption DEF Tick, TypeOK
<1>2. \A i \in CodeId : granted[i] # None /\ Expired(granted[i]) => granted'[i] # None /\ Expired(granted[i])'
  <2>. SUFFICES ASSUME NEW i \in CodeId, granted[i] # None, Expired(granted[i])
                PROVE  granted'[i] # None /\ Expired(granted[i])'
    OBVIOUS
  <2>1. granted[i].expiresAt \in Nat
    BY DEF TypeOK, Code
  <2>. QED
    BY <1>1, <2>1 DEF Expired
<1>3. Ov \subseteq Ov'
  BY <1>1, <1>2 DEF Ov
<1>4. \A i \in Ov' \ Ov : i \in CodeId /\ Gr[i] # None
  <2>. SUFFICES ASSUME NEW i \in Ov' \ Ov PROVE i \in CodeId /\ Gr[i] # None
    OBVIOUS
  <2>1. i \in CodeId /\ granted[i] # None
    BY <1>1 DEF Ov
  <2>2. granted[i] \in Code
    BY <2>1 DEF TypeOK
  <2>. QED
    BY <2>1, <2>2, AccessTyped DEF Gr
<1>5. UNCHANGED <<Gr, As, Ba, An>>
  BY DEF Tick, Gr, As, Ba, An
<1>6. PICK late \in SUBSET CodeId : late = Ov' \ Ov
  BY <1>4
<1>7. (\A i \in late : Gr[i] # None) /\ Ov' = Ov \cup late
  BY <1>3, <1>4, <1>6
<1>8. Promise!Expire(late)
  BY <1>5, <1>7 DEF Promise!Expire, Gr, Ov, As, Ba, An
<1>. QED
  BY <1>8 DEF Promise!Next

\* A code is stored: it has been granted, and may be late already.
LEMMA SaveMaps ==
    ASSUME TypeOK, CodeInv, NEW p \in Proc, SaveCode(p)
    PROVE  Promise!Next
<1>1. PICK i \in CodeId, c \in Code : /\ i = call[p].id /\ c = call[p].code
                                   /\ granted[i] = None /\ granted' = [granted EXCEPT ![i] = c]
  BY DEF SaveCode, TypeOK, Call, CodeInv, MintedOnce
<1>. DEFINE access == AccessOf(c)
<1>2. /\ call' = [call EXCEPT ![p] = Idle] /\ call[p].pc = "save"
      /\ UNCHANGED <<now, redeemed, spent, overdue>>
  BY DEF SaveCode
<1>3. access \in Access
  BY <1>1, AccessTyped
<1>4. Gr[i] = None /\ Gr' = [Gr EXCEPT ![i] = access]
  BY <1>1 DEF Gr, AccessOf, TypeOK
<1>5. Ov' \in {Ov, Ov \cup {i}}
  <2>1. \A j \in CodeId : j # i => granted'[j] = granted[j]
    BY <1>1 DEF TypeOK
  <2>2. granted'[i] = c /\ c # None
    BY <1>1, AuthCodesAssumption DEF TypeOK
  <2>3. CASE c.expiresAt <= now
    <3>1. Ov' = Ov \cup {i}
      BY <1>1, <1>2, <2>1, <2>2, <2>3 DEF Ov, Expired
    <3>. QED
      BY <3>1
  <2>4. CASE ~(c.expiresAt <= now)
    <3>1. Ov' = Ov
      BY <1>1, <1>2, <2>1, <2>2, <2>4 DEF Ov, Expired
    <3>. QED
      BY <3>1
  <2>. QED
    BY <2>3, <2>4
<1>6. UNCHANGED <<As, Ba, An>>
  <2>1. \A q \in Proc : IF q = p THEN call'[q].pc = "idle" ELSE call'[q] = call[q]
    BY <1>2 DEF TypeOK, Idle
  <2>. QED
    BY <1>2, <2>1 DEF As, Ba, An
<1>7. Promise!Grant(i, access)
  <2>. HIDE DEF access
  <2>. QED
    BY <1>4, <1>5, <1>6 DEF Promise!Grant, Gr, Ov, As, Ba, An
<1>8. access \in Promise!Access
  BY <1>3 DEF Promise!Access, Access
<1>. QED
  BY <1>7, <1>8 DEF Promise!Next

\* A user allows an access, or a code is read or dropped: nobody else sees it.
LEMMA QuietMaps ==
    ASSUME TypeOK, NEW p \in Proc,
           \/ \E consumer \in Client, uri \in Uri, user \in User : Grant(p, consumer, uri, user)
           \/ ReadCode(p) \/ \E i \in CodeId : DropExpired(i)
    PROVE  UNCHANGED Promise!vars
<1>1. UNCHANGED <<now, granted, redeemed, spent, overdue>>
  BY DEF Grant, ReadCode, DropExpired
<1>2. ASSUME NEW q \in Proc
      PROVE  \/ call'[q] = call[q]
             \/ call[q].pc \in {"idle", "save"} /\ call'[q].pc \in {"idle", "save"}
             \/ /\ call[q].pc = "read" /\ call'[q].pc \in {"remove", "null"}
                /\ call'[q].id = call[q].id /\ call'[q].consumer = call[q].consumer /\ call'[q].uri = call[q].uri
  <2>1. CASE q # p \/ \E i \in CodeId : DropExpired(i)
    BY <2>1 DEF Grant, ReadCode, DropExpired, TypeOK
  <2>2. ASSUME q = p, NEW consumer \in Client, NEW uri \in Uri, NEW user \in User, Grant(p, consumer, uri, user)
        PROVE  call[q].pc \in {"idle", "save"} /\ call'[q].pc \in {"idle", "save"}
    BY <2>2 DEF Grant, Idle, TypeOK
  <2>3. CASE q = p /\ ReadCode(p)
    <3>1. call[p] \in Call
      BY DEF TypeOK
    <3>. QED
      BY <2>3, <3>1 DEF ReadCode, TypeOK, Call
  <2>. QED
    BY <2>1, <2>2, <2>3
<1>3. UNCHANGED <<Gr, Ov, As, Ba, An>>
  BY <1>1, <1>2 DEF Gr, Ov, As, Ba, An, Expired
<1>. QED
  BY <1>3, Hidden

\* An exchange begins.
LEMMA ExchangeMaps ==
    ASSUME TypeOK, NEW p \in Proc, NEW consumer \in Client, NEW uri \in Uri, NEW i \in CodeId,
           Exchange(p, i, consumer, uri)
    PROVE  Promise!Next
<1>. DEFINE k == [id |-> i, consumer |-> consumer, uri |-> uri]
<1>1. k \in Criteria
  BY DEF Criteria
<1>2. /\ call[p].pc = "idle" /\ \A q \in Proc \ {p} : call'[q] = call[q]
      /\ call'[p].pc = "read" /\ call'[p].id = i /\ call'[p].consumer = consumer /\ call'[p].uri = uri
  BY DEF Exchange, Idle, TypeOK
<1>3. UNCHANGED <<now, granted, redeemed>>
  BY DEF Exchange
<1>4. As[p] = None /\ As' = [As EXCEPT ![p] = k]
  BY <1>2 DEF As
<1>5. Ba' = [Ba EXCEPT ![p] = Ov]
  <2>1. /\ \A q \in Proc \ {p} : spent'[q] = spent[q] /\ overdue'[q] = overdue[q]
        /\ spent'[p] \cup overdue'[p] = Ov
    BY DEF Exchange, Ov, TypeOK
  <2>. QED
    BY <2>1 DEF Ba
<1>6. UNCHANGED <<Gr, Ov, An>>
  BY <1>2, <1>3 DEF Gr, Ov, An, Expired
<1>. HIDE DEF k
<1>7. Promise!Ask(p, k)
  BY <1>4, <1>5, <1>6 DEF Promise!Ask, Gr, Ov, As, Ba, An
<1>. QED
  BY <1>1, <1>7 DEF Promise!Next, Promise!Criteria, Criteria

\* An exchange is answered: CodeInv says what with.
LEMMA RemoveMaps ==
    ASSUME TypeOK, CodeInv, Presents, NEW p \in Proc, RemoveCode(p)
    PROVE  Promise!Next
<1>. DEFINE k == [id |-> call[p].id, consumer |-> call[p].consumer, uri |-> call[p].uri]  c == call[p].code
<1>1. /\ call[p] \in Call /\ call[p].pc = "remove" /\ call[p].id \in CodeId /\ c \in Code
      /\ c = granted[call[p].id] /\ c.consumer = call[p].consumer /\ c.uri = call[p].uri
      /\ call[p].id \notin spent[p] \cup overdue[p]
  BY DEF RemoveCode, TypeOK, Call, CodeInv, GoodRead
<1>2. k \in Criteria
  BY <1>1 DEF Presents, Criteria
<1>3. k # None /\ k.id = call[p].id /\ k.consumer = call[p].consumer /\ k.uri = call[p].uri
  BY <1>2, AuthCodesAssumption
<1>4. /\ \A q \in Proc \ {p} : call'[q] = call[q]
      /\ call'[p].pc = "found" /\ call'[p].id = call[p].id /\ call'[p].code = c
      /\ call'[p].consumer = call[p].consumer /\ call'[p].uri = call[p].uri
      /\ redeemed' = redeemed \cup {call[p].id}
      /\ UNCHANGED <<now, granted, spent, overdue>>
  BY <1>1 DEF RemoveCode, TypeOK, Call
<1>5. As[p] = k /\ Ba[p] = spent[p] \cup overdue[p] /\ Gr[k.id] = AccessOf(c)
  BY <1>1, <1>3 DEF As, Ba, Gr
<1>6. As' = As /\ Ba' = Ba /\ Gr' = Gr
  BY <1>1, <1>4 DEF As, Ba, Gr
<1>7. Ov' = Ov \cup {k.id}
  BY <1>3, <1>4 DEF Ov, Expired
<1>8. An' = [An EXCEPT ![p] = AccessOf(c)]
  BY <1>4 DEF An
<1>9. AccessOf(c) # None /\ AccessOf(c).consumer = k.consumer /\ AccessOf(c).uri = k.uri
  BY <1>1, <1>3, AccessTyped
<1>10. k.id \notin Ba[p]
  BY <1>1, <1>3, <1>5
<1>. HIDE DEF k, c
<1>11. Promise!Answer(p)
  BY <1>3, <1>5, <1>6, <1>7, <1>8, <1>9, <1>10 DEF Promise!Answer, Gr, Ov, As, Ba, An
<1>. QED
  BY <1>11 DEF Promise!Next

\* An exchange is over.
LEMMA ReturnMaps ==
    ASSUME TypeOK, Presents, NEW p \in Proc, Return(p)
    PROVE  Promise!Next
<1>. DEFINE k == [id |-> call[p].id, consumer |-> call[p].consumer, uri |-> call[p].uri]
<1>1. call[p] \in Call /\ call[p].pc \in {"found", "null"} /\ call[p].id \in CodeId
  BY DEF Return, TypeOK, Call
<1>2. k \in Criteria
  BY <1>1 DEF Presents, Criteria
<1>3. As[p] # None
  BY <1>1, <1>2, AuthCodesAssumption DEF As
<1>4. /\ \A q \in Proc \ {p} : call'[q] = call[q] /\ spent'[q] = spent[q] /\ overdue'[q] = overdue[q]
      /\ call'[p].pc = "idle" /\ spent'[p] = {} /\ overdue'[p] = {}
      /\ UNCHANGED <<now, granted, redeemed>>
  BY DEF Return, Idle, TypeOK
<1>5. /\ As' = [As EXCEPT ![p] = None] /\ An' = [An EXCEPT ![p] = None]
      /\ Ba' = [Ba EXCEPT ![p] = {}] /\ UNCHANGED <<Gr, Ov>>
  BY <1>4 DEF As, An, Ba, Gr, Ov, Expired
<1>6. Promise!End(p)
  BY <1>3, <1>5 DEF Promise!End, Gr, Ov, As, Ba, An
<1>. QED
  BY <1>6 DEF Promise!Next

\* Every step of the store is a step of the promise, or shows in nothing that it speaks of.
LEMMA StepMaps ==
    ASSUME TypeOK, CodeInv, Presents, [Next]_vars
    PROVE  [Promise!Next]_(Promise!vars)
<1>1. CASE UNCHANGED vars
  <2>1. UNCHANGED <<Gr, Ov, As, Ba, An>>
    BY <1>1 DEF vars, Gr, Ov, As, Ba, An, Expired
  <2>. QED
    BY <2>1, Hidden
<1>2. ASSUME NEW i \in CodeId, DropExpired(i) PROVE UNCHANGED Promise!vars
  <2>1. UNCHANGED <<Gr, Ov, As, Ba, An>>
    BY <1>2 DEF DropExpired, Gr, Ov, As, Ba, An, Expired
  <2>. QED
    BY <2>1, Hidden
<1>3. ASSUME NEW p \in Proc, Request(p) PROVE Promise!Next \/ UNCHANGED Promise!vars
  BY <1>3, QuietMaps, ExchangeMaps DEF Request
<1>4. ASSUME NEW p \in Proc, Reply(p) PROVE Promise!Next \/ UNCHANGED Promise!vars
  BY <1>4, SaveMaps, QuietMaps, RemoveMaps, ReturnMaps DEF Reply
<1>. QED
  BY <1>1, <1>2, <1>3, <1>4, TickMaps DEF Next

\* The store of authorization codes implements OneTimeCodes: a code is granted once, and
\* exchanged as it was granted, by nobody else and for no other URI; exchanges with one
\* code that are both answered overlap, and none came when it was late.
THEOREM CodesKeepPromise == Spec => KeepsPromise
<1>1. Spec => []Presents
  <2>1. Init => Presents
    BY DEF Init, Presents, Idle
  <2>. QED
    BY <2>1, StepPresents, Typing, PTL DEF Spec
<1>2. Init => Promise!Init
  <2>1. Init => /\ Gr = [i \in CodeId |-> None] /\ Ov = {} /\ As = [p \in Proc |-> None]
                /\ Ba = [p \in Proc |-> {}] /\ An = [p \in Proc |-> None]
    BY DEF Init, Gr, Ov, As, Ba, An, AccessOf, Idle
  <2>. QED
    BY <2>1 DEF Promise!Init, Gr, Ov, As, Ba, An
<1>3. TypeOK /\ CodeInv /\ Presents /\ [Next]_vars => [Promise!Next]_(Promise!vars)
  BY StepMaps
<1>. QED
  BY <1>1, <1>2, <1>3, Typing, CodesAgree, PTL DEF Spec, KeepsPromise, Promise!Spec
=============================================================================
