---------------------------- MODULE TokensProofs ----------------------------
(* Theorems about Tokens, for every value of its constants. *)
EXTENDS Tokens, TLAPS

\* What SetLane leaves: one lane replaced, the others as they were.
LEMMA LaneUpdate ==
    ASSUME lane \in [Proc -> [Type -> Lane]],
           NEW p \in Proc, NEW ty \in Type, NEW l \in Lane, SetLane(p, ty, l)
    PROVE  /\ lane' \in [Proc -> [Type -> Lane]]
           /\ lane'[p][ty] = l
           /\ \A q \in Proc, tz \in Type :
                q # p \/ tz # ty => lane'[q][tz] = lane[q][tz]
  BY DEF SetLane

\* What Archive leaves is typed if what it archives is.
LEMMA ArchiveTyped ==
    ASSUME TypeOK, NEW ty \in Type, NEW ids \in SUBSET Id, NEW c, Archive(ty, ids, c)
    PROVE  /\ body' = body
           /\ archived' \in [Type -> SUBSET Id]
           /\ active' \in [Type -> [Consumer -> SUBSET Id]]
           /\ expired' \in [Type -> [Consumer -> SUBSET Id]]
<1> USE DEF TypeOK, Archive
<1>1. CASE c \in Consumer
  BY <1>1
<1>2. CASE c \notin Consumer
  BY <1>2
<1> QED BY <1>1, <1>2

\* Every reachable state is typed.
THEOREM Typing == Spec => []TypeOK
<1>1. Init => TypeOK
  BY TokensAssumption DEF Init, TypeOK, Type, Body, Call, Idle, Lane, Off, Gets, NoGets
<1>2. TypeOK /\ [Next]_vars => TypeOK'
  <2> SUFFICES ASSUME TypeOK, [Next]_vars PROVE TypeOK'
    OBVIOUS
  <2> USE TokensAssumption DEF TypeOK
  <2> DEFINE LaneOK == /\ lane' \in [Proc -> [Type -> Lane]]
                       /\ \A q \in Proc, tz \in Type :
                         /\ lane'[q][tz].pc # "off" =>
                              call'[q].op = "findOrSave" /\ call'[q].consumer \in Consumer
                         /\ lane'[q][tz].pc = "save" => lane'[q][tz].hit # None
  <2>0. ASSUME NEW p \in Proc, NEW ty \in Type, NEW l \in Lane, SetLane(p, ty, l),
               lane[p][ty].pc # "off", l.pc # "save", call' = call
        PROVE  LaneOK
    <3>1. /\ lane' \in [Proc -> [Type -> Lane]]
          /\ \A q \in Proc, tz \in Type : q # p \/ tz # ty => lane'[q][tz] = lane[q][tz]
      BY <2>0, LaneUpdate
    <3>2. lane'[p][ty].pc \notin {"off", "save"} \/ lane'[p][ty].pc = "off"
      BY <2>0, LaneUpdate
    <3>3. ASSUME NEW q \in Proc, NEW tz \in Type
          PROVE  /\ lane'[q][tz].pc # "off" =>
                              call'[q].op = "findOrSave" /\ call'[q].consumer \in Consumer
                 /\ lane'[q][tz].pc = "save" => lane'[q][tz].hit # None
      <4>1. CASE q = p /\ tz = ty
        BY <2>0, <3>2, <4>1
      <4>2. CASE ~(q = p /\ tz = ty)
        BY <2>0, <3>1, <4>2
      <4> QED BY <4>1, <4>2
    <3> QED BY <3>1, <3>3
  <2>1. CASE Tick
    BY <2>1 DEF Tick, store
  <2>2. ASSUME NEW p \in Proc, NEW c \in Consumer, NEW attrs \in SUBSET Attr,
               NEW refresh \in BOOLEAN, FindOrSave(p, c, attrs, refresh)
        PROVE  TypeOK'
    <3>1. call' \in [Proc -> Call] /\ call'[p].consumer = c /\ call'[p].op = "findOrSave"
      BY <2>2 DEF FindOrSave, Begin, Call, Idle, Type
    <3>2. dead' \in [Proc -> SUBSET (Type \X Id)]
      BY <2>2 DEF FindOrSave, Begin, DeadNow
    <3>3. lane' \in [Proc -> [Type -> Lane]]
      BY <2>2 DEF FindOrSave, Lane, Off, Start
    <3>4. LaneOK
      BY <2>2, <3>1, <3>3 DEF FindOrSave, Begin, Start, Off
    <3> QED BY <2>2, <3>1, <3>2, <3>3, <3>4 DEF FindOrSave, store
  <2>3. ASSUME NEW p \in Proc, NEW ty \in Type, ReadIndex(p, ty) PROVE TypeOK'
    <3> DEFINE ids == active[ty][call[p].consumer]
               live == {id \in ids : ~Expired(ty, id)}
               l == [Off EXCEPT
                       !.pc = IF live = {} THEN AfterScan(ids \ live) ELSE "scan",
                       !.scan = live, !.stale = ids \ live, !.seen = live]
    <3>1. ids \in SUBSET Id
      BY <2>3 DEF ReadIndex
    <3>2. l \in Lane
      BY <3>1 DEF Lane, Off, AfterScan
    <3>3. SetLane(p, ty, l) /\ lane[p][ty].pc # "off"
      BY <2>3 DEF ReadIndex
    <3>4. LaneOK
      <4>1. l.pc # "save"
        BY <3>1 DEF Off, AfterScan
      <4> QED BY <2>0, <2>3, <3>2, <3>3, <4>1 DEF ReadIndex
    <3> QED BY <2>3, <3>4 DEF ReadIndex, store
  <2>4. ASSUME NEW p \in Proc, NEW ty \in Type, NEW id \in Id, ReadCandidate(p, ty, id)
        PROVE  TypeOK'
    <3> DEFINE l == lane[p][ty]
               rest == l.scan \ {id}
               m == IF Match(ty, id, call[p].consumer, call[p].attrs)
             THEN [l EXCEPT !.pc = AfterScan(l.stale), !.scan = {}, !.hit = id]
             ELSE [l EXCEPT !.pc = IF rest = {} THEN AfterScan(l.stale) ELSE "scan",
                            !.scan = rest]
    <3>1. l \in Lane
      OBVIOUS
    <3>2. m \in Lane
      <4> HIDE DEF l
      <4> QED BY <3>1 DEF Lane, AfterScan
    <3>3. SetLane(p, ty, m) /\ l.pc # "off"
      BY <2>4 DEF ReadCandidate
    <3>4. LaneOK
      <4>1. m.pc # "save"
        BY <3>1 DEF Lane, AfterScan
      <4> QED BY <2>0, <2>4, <3>2, <3>3, <4>1 DEF ReadCandidate
    <3> QED BY <2>4, <3>4 DEF ReadCandidate, store
  <2>5. ASSUME NEW p \in Proc, NEW ty \in Type, NEW id \in Id, CandidateError(p, ty, id)
        PROVE  TypeOK'
    <3> DEFINE l == lane[p][ty]
               rest == l.scan \ {id}
               m == [l EXCEPT !.scan = rest, !.seen = @ \ {id},
                              !.pc = IF rest = {} THEN AfterScan(l.stale) ELSE "scan"]
    <3>1. l \in Lane
      OBVIOUS
    <3>2. m \in Lane
      <4> HIDE DEF l
      <4> QED BY <3>1 DEF Lane, AfterScan
    <3>3. SetLane(p, ty, m) /\ l.pc # "off"
      BY <2>5 DEF CandidateError
    <3>4. LaneOK
      <4>1. m.pc # "save"
        BY <3>1 DEF Lane, AfterScan
      <4> QED BY <2>0, <2>5, <3>2, <3>3, <4>1 DEF CandidateError
    <3> QED BY <2>5, <3>4 DEF CandidateError, store
  <2>6. ASSUME NEW p \in Proc, NEW ty \in Type, ArchiveStale(p, ty) PROVE TypeOK'
    <3> DEFINE l == lane[p][ty]
               m == [l EXCEPT !.pc = "found", !.stale = {}]
    <3>1. l \in Lane /\ l.stale \in SUBSET Id
      BY DEF Lane
    <3>2. m \in Lane
      <4> HIDE DEF l
      <4> QED BY <3>1 DEF Lane
    <3>3. SetLane(p, ty, m) /\ l.pc # "off" /\ call[p].consumer \in Consumer
      BY <2>6 DEF ArchiveStale
    <3>4. LaneOK
      <4>1. m.pc # "save"
        BY <3>1 DEF Lane
      <4> QED BY <2>0, <2>6, <3>2, <3>3, <4>1 DEF ArchiveStale
    <3>5. Archive(ty, l.stale, call[p].consumer)
      BY <2>6 DEF ArchiveStale
    <3>6. /\ body' = body
          /\ archived' \in [Type -> SUBSET Id]
          /\ active' \in [Type -> [Consumer -> SUBSET Id]]
          /\ expired' \in [Type -> [Consumer -> SUBSET Id]]
      <4> HIDE DEF TypeOK, l
      <4> QED BY TypeOK, <3>1, <3>3, <3>5, ArchiveTyped
    <3> QED BY <2>6, <3>4, <3>6 DEF ArchiveStale
  <2>7. ASSUME NEW p \in Proc, Decide(p) PROVE TypeOK'
    <3>1. PICK fresh \in [Missing(p) -> Id \ Used] :
            lane' = [lane EXCEPT ![p] = [ty \in Type |->
               LET l == lane[p][ty]
               IN  IF ty \in Missing(p)
                   THEN [l EXCEPT !.pc = "save", !.hit = fresh[ty], !.due = now + TTL[ty]]
                   ELSE IF l.pc = "found" THEN [l EXCEPT !.pc = "done", !.seen = {}] ELSE l]]
      BY <2>7 DEF Decide
    <3>3. ASSUME NEW ty \in Type PROVE lane'[p][ty] \in Lane
      <4>1. lane[p][ty] \in Lane /\ now + TTL[ty] \in Nat
        BY DEF Type
      <4>2. ty \in Missing(p) => fresh[ty] \in Id
        BY <3>1
      <4>3. lane'[p][ty] = IF ty \in Missing(p)
                   THEN [lane[p][ty] EXCEPT !.pc = "save", !.hit = fresh[ty], !.due = now + TTL[ty]]
                   ELSE IF lane[p][ty].pc = "found"
                        THEN [lane[p][ty] EXCEPT !.pc = "done", !.seen = {}] ELSE lane[p][ty]
        BY <3>1
      <4>4. CASE ty \in Missing(p)
        <5>1. [lane[p][ty] EXCEPT !.pc = "save", !.hit = fresh[ty], !.due = now + TTL[ty]] \in Lane
          BY <4>1, <4>2, <4>4 DEF Lane
        <5> QED BY <4>3, <4>4, <5>1
      <4>5. CASE ty \notin Missing(p)
        <5>1. [lane[p][ty] EXCEPT !.pc = "done", !.seen = {}] \in Lane
          BY <4>1 DEF Lane
        <5> QED BY <4>1, <4>3, <4>5, <5>1
      <4> QED BY <4>4, <4>5
    <3>4. \A q \in Proc : q # p => lane'[q] = lane[q]
      BY <3>1
    <3>5. lane' \in [Proc -> [Type -> Lane]]
      <4>1. lane' = [q \in Proc |-> IF q = p THEN lane'[p] ELSE lane[q]]
        BY <3>1
      <4>2. lane'[p] \in [Type -> Lane]
        <5>1. lane'[p] = [ty \in Type |-> lane'[p][ty]]
          BY <3>1
        <5> QED BY <5>1, <3>3
      <4> QED BY <4>1, <4>2
    <3>6. \A ty \in Type : lane'[p][ty].pc # "off" => lane[p][ty].pc # "off"
      BY <3>1 DEF Missing
    <3>7. call' = call
      BY <2>7 DEF Decide
    <3>8. \A ty \in Type : lane'[p][ty].pc = "save" => lane'[p][ty].hit # None
      <4> SUFFICES ASSUME NEW ty \in Type, lane'[p][ty].pc = "save"
                   PROVE  lane'[p][ty].hit # None
        OBVIOUS
      <4>1. lane[p][ty] \in Lane
        OBVIOUS
      <4>2. CASE ty \in Missing(p)
        <5>1. lane'[p][ty].hit = fresh[ty] /\ fresh[ty] \in Id
          BY <3>1, <4>1, <4>2 DEF Lane
        <5> QED BY <5>1
      <4>3. CASE ty \notin Missing(p) /\ lane[p][ty].pc # "found"
        BY <3>1, <4>3
      <4>4. CASE ty \notin Missing(p) /\ lane[p][ty].pc = "found"
        BY <3>1, <4>1, <4>4 DEF Lane
      <4> QED BY <4>2, <4>3, <4>4
    <3>9. LaneOK
      <4> SUFFICES ASSUME NEW q \in Proc, NEW tz \in Type
          PROVE  /\ lane'[q][tz].pc # "off" =>
                       call[q].op = "findOrSave" /\ call[q].consumer \in Consumer
                 /\ lane'[q][tz].pc = "save" => lane'[q][tz].hit # None
        BY <3>5, <3>7
      <4>1. CASE q = p
        BY <3>6, <3>8, <4>1
      <4>2. CASE q # p
        BY <3>4, <4>2
      <4> QED BY <4>1, <4>2
    <3> QED BY <2>7, <3>9 DEF Decide, store
  <2>8. ASSUME NEW p \in Proc, NEW ty \in Type, SaveToken(p, ty) PROVE TypeOK'
    <3> DEFINE l == lane[p][ty]
               c == call[p].consumer
               m == [l EXCEPT !.pc = "done", !.due = 0, !.seen = {}]
               b == [consumer |-> c, attrs |-> call[p].attrs, expiresAt |-> l.due]
    <3>1. l \in Lane /\ l.pc = "save" /\ SetLane(p, ty, m)
      BY <2>8 DEF SaveToken
    <3>2. m \in Lane
      <4> HIDE DEF l
      <4> QED BY <3>1 DEF Lane
    <3>3. LaneOK
      <4>1. m.pc # "save"
        BY <3>1 DEF Lane
      <4> QED BY <2>0, <2>8, <3>1, <3>2, <4>1 DEF SaveToken
    <3>4. c \in Consumer /\ b \in Body
      BY <3>1 DEF Body, Call, Lane
    <3>5. /\ body' = [body EXCEPT ![ty][l.hit] = b]
          /\ active' = [active EXCEPT ![ty][c] = @ \cup {l.hit}]
      BY <2>8 DEF SaveToken
    <3>6. body' \in [Type -> [Id -> Body \cup {None}]]
      <4> HIDE DEF b, l
      <4> QED BY <3>4, <3>5
    <3>7. active' \in [Type -> [Consumer -> SUBSET Id]]
      <4>1. l.hit \in Id
        BY <3>1 DEF Lane
      <4> HIDE DEF l
      <4> QED BY <3>4, <3>5, <4>1
    <3> QED BY <2>8, <3>3, <3>6, <3>7 DEF SaveToken
  <2>9. ASSUME NEW p \in Proc, NEW c \in Consumer, NEW attrs \in SUBSET Attr,
               SaveRefreshOnly(p, c, attrs)
        PROVE  TypeOK'
    <3>1. call' \in [Proc -> Call] /\ call'[p].consumer = c /\ call'[p].op = "findOrSave"
      BY <2>9 DEF SaveRefreshOnly, Begin, Call, Idle, Type
    <3>2. dead' \in [Proc -> SUBSET (Type \X Id)]
      BY <2>9 DEF SaveRefreshOnly, Begin, DeadNow
    <3>3. lane' \in [Proc -> [Type -> Lane]]
      BY <2>9 DEF SaveRefreshOnly, Lane, Off
    <3>4. LaneOK
      BY <2>9, <3>1, <3>3 DEF SaveRefreshOnly, Begin, Off
    <3> QED BY <2>9, <3>1, <3>2, <3>4 DEF SaveRefreshOnly, store
  <2>10. ASSUME NEW p \in Proc, NEW ty \in Type, CommandError(p, ty) PROVE TypeOK'
    <3> DEFINE l == lane[p][ty]
               m == [l EXCEPT !.pc = "failed"]
    <3>1. l \in Lane /\ l.pc # "off" /\ SetLane(p, ty, m)
      BY <2>10 DEF CommandError
    <3>2. m \in Lane /\ m.pc # "save"
      <4> HIDE DEF l
      <4> QED BY <3>1 DEF Lane
    <3>3. LaneOK
      BY <2>0, <2>10, <3>1, <3>2 DEF CommandError
    <3> QED BY <2>10, <3>3 DEF CommandError, store
  <2>11. ASSUME NEW p \in Proc, NEW ty \in Type, NEW id \in Id, NEW past \in BOOLEAN,
                Get(p, ty, id, past)
         PROVE  TypeOK'
    <3>1. call' \in [Proc -> Call]
      BY <2>11 DEF Get, Begin, Call, Idle
    <3>2. dead' \in [Proc -> SUBSET (Type \X Id)]
      BY <2>11 DEF Get, Begin, DeadNow
    <3>3. gets' \in [Proc -> Gets]
      BY <2>11 DEF Get, Gets
    <3>4. LaneOK
      BY <2>11 DEF Get, Begin, Idle
    <3> QED BY <2>11, <3>1, <3>2, <3>3, <3>4 DEF Get, store
  <2>12. ASSUME NEW p \in Proc, NEW id \in Id, Revoke(p, id) PROVE TypeOK'
    <3>1. call' \in [Proc -> Call]
      BY <2>12 DEF Revoke, Begin, Call, Idle
    <3>2. dead' \in [Proc -> SUBSET (Type \X Id)]
      BY <2>12 DEF Revoke, Begin, DeadNow
    <3>3. gets' \in [Proc -> Gets]
      BY <2>12 DEF Revoke, Gets
    <3>4. LaneOK
      BY <2>12 DEF Revoke, Begin, Idle
    <3> QED BY <2>12, <3>1, <3>2, <3>3, <3>4 DEF Revoke, store
  <2>13. ASSUME NEW p \in Proc, NEW ty \in Type, NEW c \in Consumer, NEW past \in BOOLEAN,
                List(p, ty, c, past)
         PROVE  TypeOK'
    <3>1. call' \in [Proc -> Call]
      BY <2>13 DEF List, Begin, Call, Idle
    <3>2. dead' \in [Proc -> SUBSET (Type \X Id)]
      BY <2>13 DEF List, Begin, DeadNow
    <3>3. gets' \in [Proc -> Gets]
      <4> DEFINE ids == active[ty][c] \cup (IF past THEN expired[ty][c] ELSE {})
      <4>1. ids \in SUBSET Id
        OBVIOUS
      <4>2. gets' = [gets EXCEPT ![p] = [gets[p] EXCEPT !.reading = ids]]
        BY <2>13 DEF List
      <4> HIDE DEF ids
      <4>3. gets \in [Proc -> Gets]
        OBVIOUS
      <4>4. gets[p] \in Gets
        BY <4>3
      <4>5. [gets[p] EXCEPT !.reading = ids] \in Gets
        BY <4>1, <4>4 DEF Gets
      <4> QED BY <4>2, <4>3, <4>5
    <3>4. LaneOK
      BY <2>13 DEF List, Begin, Idle
    <3>5. owed' \in [Proc -> SUBSET Id]
      BY <2>13 DEF List
    <3> QED BY <2>13, <3>1, <3>2, <3>3, <3>4, <3>5 DEF List, store
  <2>14. ASSUME NEW p \in Proc, NEW id \in Id, ReadToken(p, id) PROVE TypeOK'
    <3> DEFINE ty == call[p].type
               g == gets[p]
               outcome == Outcome(ty, id, call[p].past)
               h == [reading  |-> g.reading \ {id},
                     revoking |-> IF outcome = "revoke" THEN g.revoking \cup {id} ELSE g.revoking,
                     got      |-> IF outcome = "token" THEN g.got \cup {id} ELSE g.got]
    <3>1. g \in Gets
      OBVIOUS
    <3>2. h \in Gets
      <4> HIDE DEF g, outcome
      <4> QED BY <3>1 DEF Gets
    <3>3. gets' = [gets EXCEPT ![p] = h]
      BY <2>14 DEF ReadToken
    <3>4. gets' \in [Proc -> Gets]
      BY <3>2, <3>3
    <3> QED BY <2>14, <3>4 DEF ReadToken, store
  <2>15. ASSUME NEW p \in Proc, NEW id \in Id, RevokeExpired(p, id) PROVE TypeOK'
    <3>1. Archive("access_token", {id}, body[call[p].type][id].consumer)
      BY <2>15 DEF RevokeExpired
    <3>2. /\ body' = body
          /\ archived' \in [Type -> SUBSET Id]
          /\ active' \in [Type -> [Consumer -> SUBSET Id]]
          /\ expired' \in [Type -> [Consumer -> SUBSET Id]]
      <4> HIDE DEF TypeOK
      <4> QED BY TypeOK, <3>1, ArchiveTyped DEF Type
    <3>3. gets' \in [Proc -> Gets]
      <4> DEFINE g == gets[p]
                 h == [g EXCEPT !.revoking = @ \ {id},
                                !.got = IF call[p].past THEN @ \cup {id} ELSE @]
      <4>1. g \in Gets /\ gets' = [gets EXCEPT ![p] = h]
        BY <2>15 DEF RevokeExpired
      <4>2. h \in Gets
        <5> HIDE DEF g
        <5> QED BY <4>1 DEF Gets
      <4> HIDE DEF h
      <4> QED BY <4>1, <4>2
    <3> QED BY <2>15, <3>2, <3>3 DEF RevokeExpired
  <2>16. ASSUME NEW p \in Proc, NEW id \in Id, GetError(p, id) PROVE TypeOK'
    <3>1. gets' \in [Proc -> Gets]
      <4> DEFINE g == gets[p]
                 h == [g EXCEPT !.reading = @ \ {id}, !.revoking = @ \ {id}]
      <4>1. g \in Gets /\ gets' = [gets EXCEPT ![p] = h]
        BY <2>16 DEF GetError
      <4>2. h \in Gets
        <5> HIDE DEF g
        <5> QED BY <4>1 DEF Gets
      <4> HIDE DEF h
      <4> QED BY <4>1, <4>2
    <3>2. /\ call' \in [Proc -> Call]
          /\ \A q \in Proc : call'[q].consumer = call[q].consumer /\ call'[q].op = call[q].op
      <4> DEFINE k == call[p]
                 h == [k EXCEPT !.failed = TRUE]
      <4>1. k \in Call /\ call' = [call EXCEPT ![p] = h]
        BY <2>16 DEF GetError
      <4>2. h \in Call /\ h.consumer = k.consumer /\ h.op = k.op
        <5> HIDE DEF k
        <5> QED BY <4>1 DEF Call
      <4>3. call' = [q \in Proc |-> IF q = p THEN h ELSE call[q]]
        BY <4>1
      <4> HIDE DEF h
      <4> QED BY <4>2, <4>3
    <3> QED BY <2>16, <3>1, <3>2 DEF GetError, store
  <2>17. ASSUME NEW p \in Proc, NEW id \in Id, RevokeToken(p, id) PROVE TypeOK'
    <3>1. Archive("access_token", {id}, body["access_token"][id].consumer)
      BY <2>17 DEF RevokeToken
    <3>2. /\ body' = body
          /\ archived' \in [Type -> SUBSET Id]
          /\ active' \in [Type -> [Consumer -> SUBSET Id]]
          /\ expired' \in [Type -> [Consumer -> SUBSET Id]]
      <4> HIDE DEF TypeOK
      <4> QED BY TypeOK, <3>1, ArchiveTyped DEF Type
    <3>3. gets' \in [Proc -> Gets] /\ dead' \in [Proc -> SUBSET (Type \X Id)]
      BY <2>17 DEF RevokeToken, Gets, NoGets
    <3>4. call' \in [Proc -> Call]
      BY <2>17 DEF RevokeToken, Call, Idle, Type
    <3>5. LaneOK
      BY <2>17 DEF RevokeToken, Idle
    <3> QED BY <2>17, <3>2, <3>3, <3>4, <3>5 DEF RevokeToken
  <2>18. ASSUME NEW p \in Proc, Return(p) PROVE TypeOK'
    <3>1. /\ gets' \in [Proc -> Gets]
          /\ dead' \in [Proc -> SUBSET (Type \X Id)]
          /\ owed' \in [Proc -> SUBSET Id]
      BY <2>18 DEF Return, Gets, NoGets
    <3>2. call' \in [Proc -> Call]
      BY <2>18 DEF Return, Call, Idle, Type
    <3>3. lane' \in [Proc -> [Type -> Lane]]
      BY <2>18 DEF Return, Lane, Off
    <3>4. LaneOK
      BY <2>18, <3>3 DEF Return, Off
    <3> QED BY <2>18, <3>1, <3>2, <3>4 DEF Return, store
  <2>19. CASE UNCHANGED vars
    BY <2>19 DEF vars, store
  <2> HIDE DEF TypeOK, LaneOK
  <2>20. ASSUME NEW p \in Proc, Request(p) PROVE TypeOK'
    BY <2>20, <2>2, <2>9, <2>11, <2>12, <2>13 DEF Request
  <2>21. ASSUME NEW p \in Proc, Reply(p) PROVE TypeOK'
    BY <2>21, <2>3, <2>4, <2>6, <2>7, <2>8, <2>14, <2>15, <2>17, <2>18 DEF Reply
  <2>22. ASSUME NEW p \in Proc, Fault(p) PROVE TypeOK'
    BY <2>22, <2>5, <2>10, <2>16 DEF Fault
  <2> QED BY <2>1, <2>19, <2>20, <2>21, <2>22 DEF Next
<1> QED BY <1>1, <1>2, PTL DEF Spec

-----------------------------------------------------------------------------
(* The indexes and the hashes agree: StoreInv, given what calls hold.       *)

\* Steps that leave the store alone.
LEMMA StoreUnchanged == StoreInv /\ UNCHANGED store => StoreInv'
  BY DEF StoreInv, IndexConsistent, IdsUnique, ExpiredArchived, ArchivedKnown, Saved, store

\* Archiving is harmless for tokens saved for that consumer, and for ids that
\* are not of this type at all (the strays).
LEMMA ArchiveStore ==
    ASSUME TypeOK, StoreInv,
           NEW ty \in Type, NEW ids \in SUBSET Id, NEW c \in Consumer, Archive(ty, ids, c),
           \A id \in ids : \/ Saved(ty, id) /\ body[ty][id].consumer = c
                           \/ ~Saved(ty, id) /\ \E tz \in Type : Saved(tz, id)
    PROVE  StoreInv'
<1> USE DEF TypeOK, StoreInv, Archive
<1>1. \A tz \in Type, id \in Id : Saved(tz, id)' = Saved(tz, id)
  BY DEF Saved
<1>2. IdsUnique'
  BY <1>1 DEF IdsUnique, Type
<1>3. \A tz \in Type : archived'[tz] = IF tz = ty THEN archived[tz] \cup ids ELSE archived[tz]
  OBVIOUS
<1>4. \A tz \in Type, d \in Consumer :
        /\ expired'[tz][d] = IF tz = ty /\ d = c THEN expired[tz][d] \cup ids ELSE expired[tz][d]
        /\ active'[tz][d] = IF tz = ty /\ d = c THEN active[tz][d] \ ids ELSE active[tz][d]
  OBVIOUS
<1>5. ExpiredArchived'
  BY <1>3, <1>4 DEF ExpiredArchived
<1>6. ArchivedKnown'
  BY <1>1, <1>3 DEF ArchivedKnown
<1>7. IndexConsistent'
  <2> SUFFICES ASSUME NEW tz \in Type, NEW id \in Id, NEW d \in Consumer
      PROVE /\ id \in active'[tz][d] <=>
                 Saved(tz, id)' /\ body'[tz][id].consumer = d /\ id \notin archived'[tz]
            /\ Saved(tz, id)' /\ body'[tz][id].consumer = d =>
                 (id \in expired'[tz][d] <=> id \in archived'[tz])
    BY DEF IndexConsistent
  <2>1. body' = body /\ Saved(tz, id)' = Saved(tz, id)
    BY <1>1
  <2>2. /\ id \in active[tz][d] <=>
             Saved(tz, id) /\ body[tz][id].consumer = d /\ id \notin archived[tz]
        /\ Saved(tz, id) /\ body[tz][id].consumer = d =>
             (id \in expired[tz][d] <=> id \in archived[tz])
    BY DEF IndexConsistent
  <2>3. CASE tz # ty
    BY <2>1, <2>2, <2>3, <1>3, <1>4
  <2>4. CASE tz = ty /\ id \notin ids
    BY <2>1, <2>2, <2>4, <1>3, <1>4
  <2>5. CASE tz = ty /\ id \in ids
    BY <2>1, <2>2, <2>5, <1>3, <1>4
  <2> QED BY <2>3, <2>4, <2>5
<1> QED BY <1>2, <1>5, <1>6, <1>7

\* The step of one find leaves the calls' part of the invariant alone, as long
\* as it saves nothing and gathers stale ids only from its consumer's tokens.
LEMMA LaneCalls ==
    ASSUME TypeOK, IndexInv, NEW p \in Proc, NEW ty \in Type, NEW l \in Lane,
           SetLane(p, ty, l), lane[p][ty].pc # "off", l.pc # "save",
           \A id \in l.stale : Saved(ty, id) /\ body[ty][id].consumer = call[p].consumer,
           UNCHANGED <<body, call, gets>>
    PROVE  MintedFresh' /\ StaleOwned' /\ GotSaved' /\ CallsClean'
<1>1. /\ lane'[p][ty] = l
      /\ \A q \in Proc, tz \in Type : q # p \/ tz # ty => lane'[q][tz] = lane[q][tz]
  BY LaneUpdate DEF TypeOK
<1>2. \A tz \in Type : \A id : Saved(tz, id)' = Saved(tz, id)
  BY DEF Saved
<1>3. \A q \in Proc, tz \in Type : lane'[q][tz].pc = "save" => lane'[q][tz] = lane[q][tz]
  BY <1>1
<1>4. MintedFresh'
  BY <1>2, <1>3 DEF IndexInv, MintedFresh
<1>5. StaleOwned'
  <2> SUFFICES ASSUME NEW q \in Proc, NEW tz \in Type, NEW id \in lane'[q][tz].stale
      PROVE Saved(tz, id)' /\ body'[tz][id].consumer = call'[q].consumer
    BY DEF StaleOwned
  <2>1. CASE q = p /\ tz = ty
    BY <1>1, <1>2, <2>1
  <2>2. CASE q # p \/ tz # ty
    BY <1>1, <1>2, <2>2 DEF IndexInv, StaleOwned
  <2> QED BY <2>1, <2>2
<1>6. GotSaved'
  <2> SUFFICES ASSUME NEW q \in Proc, NEW id \in gets[q].revoking \cup gets[q].got
      PROVE Saved(call[q].type, id)'
    BY DEF GotSaved
  <2>1. Saved(call[q].type, id)
    BY DEF IndexInv, GotSaved
  <2> QED BY <2>1 DEF Saved
<1>7. CallsClean'
  <2>1. call[p].op = "findOrSave"
    BY DEF TypeOK
  <2> QED BY <2>1, <1>1 DEF IndexInv, CallsClean
<1> QED BY <1>4, <1>5, <1>6, <1>7

\* The start of a call, which finds its process's lanes and gets empty.
LEMMA BeginClean ==
    ASSUME TypeOK, IndexInv, NEW p \in Proc, NEW k, Begin(p, k)
    PROVE  /\ \A ty \in Type : lane[p][ty] = Off
           /\ gets[p] = NoGets
           /\ call'[p] = k
           /\ \A q \in Proc : q # p => call'[q] = call[q]
  BY DEF Begin, Idle, IndexInv, CallsClean, TypeOK

\* A step that touches the gets only, and adds to them only what is saved.
LEMMA GetsCalls ==
    ASSUME TypeOK, IndexInv, NEW p \in Proc, NEW h \in Gets,
           gets' = [gets EXCEPT ![p] = h], call[p].op \notin {"idle", "findOrSave"},
           \A id \in h.revoking \cup h.got : Saved(call[p].type, id),
           UNCHANGED <<body, lane>>, call' \in [Proc -> Call],
           \A q \in Proc : /\ call'[q].type = call[q].type /\ call'[q].op = call[q].op
                           /\ call'[q].consumer = call[q].consumer
    PROVE  MintedFresh' /\ StaleOwned' /\ GotSaved' /\ CallsClean'
<1>1. MintedFresh'
  BY DEF IndexInv, MintedFresh, Saved
<1>2. StaleOwned'
  BY DEF IndexInv, StaleOwned, Saved
<1>3. gets'[p] = h /\ \A q \in Proc : q # p => gets'[q] = gets[q]
  BY DEF TypeOK
<1>4. GotSaved'
  <2> SUFFICES ASSUME NEW q \in Proc, NEW id \in gets'[q].revoking \cup gets'[q].got
      PROVE Saved(call[q].type, id)'
    BY DEF GotSaved
  <2>1. Saved(call[q].type, id)
    BY <1>3 DEF IndexInv, GotSaved
  <2> QED BY <2>1 DEF Saved
<1>5. CallsClean'
  BY <1>3 DEF IndexInv, CallsClean
<1> QED BY <1>1, <1>2, <1>4, <1>5

\* The start of a call that reads tokens with dao.get.
LEMMA GetBegins ==
    ASSUME TypeOK, IndexInv, NEW p \in Proc, NEW ids \in SUBSET Id, NEW k \in Call,
           Begin(p, k), k.op \in {"get", "list", "revoke"},
           k.op = "revoke" => k.type = "access_token",
           gets' = [gets EXCEPT ![p].reading = ids], UNCHANGED <<body, lane>>
    PROVE  MintedFresh' /\ StaleOwned' /\ GotSaved' /\ CallsClean'
<1>1. /\ \A ty \in Type : lane[p][ty] = Off
      /\ gets[p] = NoGets
      /\ call'[p] = k
      /\ \A q \in Proc : q # p => call'[q] = call[q]
  BY BeginClean
<1>2. /\ gets'[p] = [NoGets EXCEPT !.reading = ids]
      /\ \A q \in Proc : q # p => gets'[q] = gets[q]
  BY <1>1 DEF TypeOK
<1>3. gets'[p].revoking \cup gets'[p].got = {}
  BY <1>2 DEF NoGets
<1>4. MintedFresh'
  BY DEF IndexInv, MintedFresh, Saved
<1>5. StaleOwned'
  <2> SUFFICES ASSUME NEW q \in Proc, NEW tz \in Type, NEW id \in lane[q][tz].stale
      PROVE Saved(tz, id)' /\ body'[tz][id].consumer = call'[q].consumer
    BY DEF StaleOwned
  <2>1. q # p
    BY <1>1 DEF Off
  <2> QED BY <1>1, <2>1 DEF IndexInv, StaleOwned, Saved
<1>6. GotSaved'
  <2> SUFFICES ASSUME NEW q \in Proc, NEW id \in gets'[q].revoking \cup gets'[q].got
      PROVE Saved(call[q].type, id)'
    BY DEF GotSaved
  <2>1. q # p
    BY <1>3
  <2>2. Saved(call[q].type, id)
    BY <1>2, <2>1 DEF IndexInv, GotSaved
  <2> QED BY <1>1, <2>1, <2>2 DEF Saved
<1>7. CallsClean'
  BY <1>1, <1>2 DEF IndexInv, CallsClean
<1> QED BY <1>4, <1>5, <1>6, <1>7

\* The end of a call.
LEMMA CallEnds ==
    ASSUME TypeOK, IndexInv, NEW p \in Proc, call' = [call EXCEPT ![p] = Idle],
           gets' = [gets EXCEPT ![p] = NoGets], body' = body,
           \A ty \in Type : lane'[p][ty] = Off,
           \A q \in Proc : q # p => lane'[q] = lane[q]
    PROVE  MintedFresh' /\ StaleOwned' /\ GotSaved' /\ CallsClean'
<1>1. /\ call'[p] = Idle /\ gets'[p] = NoGets
      /\ \A q \in Proc : q # p => call'[q] = call[q] /\ gets'[q] = gets[q]
  BY DEF TypeOK
<1>2. \A q \in Proc, tz \in Type : lane'[q][tz].pc = "save" => lane'[q][tz] = lane[q][tz]
  BY DEF Off
<1>3. MintedFresh'
  BY <1>2 DEF IndexInv, MintedFresh, Saved
<1>4. StaleOwned'
  <2> SUFFICES ASSUME NEW q \in Proc, NEW tz \in Type, NEW id \in lane'[q][tz].stale
      PROVE Saved(tz, id)' /\ body'[tz][id].consumer = call'[q].consumer
    BY DEF StaleOwned
  <2>1. q # p
    BY DEF Off
  <2> QED BY <1>1, <2>1 DEF IndexInv, StaleOwned, Saved
<1>5. GotSaved'
  <2> SUFFICES ASSUME NEW q \in Proc, NEW id \in gets'[q].revoking \cup gets'[q].got
      PROVE Saved(call[q].type, id)'
    BY DEF GotSaved
  <2>1. q # p
    BY <1>1 DEF NoGets
  <2>2. Saved(call[q].type, id)
    BY <1>1, <2>1 DEF IndexInv, GotSaved
  <2> QED BY <1>1, <2>1, <2>2 DEF Saved
<1>6. CallsClean'
  BY <1>1 DEF IndexInv, CallsClean, Idle
<1> QED BY <1>3, <1>4, <1>5, <1>6

\* The start of a findOrSave, whose lanes neither save nor hold stale ids yet.
LEMMA FindBegins ==
    ASSUME TypeOK, IndexInv, NEW p \in Proc, NEW k \in Call, Begin(p, k), k.op = "findOrSave",
           lane' \in [Proc -> [Type -> Lane]],
           \A q \in Proc : q # p => lane'[q] = lane[q],
           \A ty \in Type : lane'[p][ty].pc # "save" /\ lane'[p][ty].stale = {},
           UNCHANGED <<body, gets>>
    PROVE  MintedFresh' /\ StaleOwned' /\ GotSaved' /\ CallsClean'
<1>1. /\ gets[p] = NoGets
      /\ call'[p] = k
      /\ \A q \in Proc : q # p => call'[q] = call[q]
  BY BeginClean
<1>2. \A q \in Proc, tz \in Type : lane'[q][tz].pc = "save" => lane'[q][tz] = lane[q][tz]
  OBVIOUS
<1>3. MintedFresh'
  BY <1>2 DEF IndexInv, MintedFresh, Saved
<1>4. StaleOwned'
  <2> SUFFICES ASSUME NEW q \in Proc, NEW tz \in Type, NEW id \in lane'[q][tz].stale
      PROVE Saved(tz, id)' /\ body'[tz][id].consumer = call'[q].consumer
    BY DEF StaleOwned
  <2>1. q # p
    OBVIOUS
  <2> QED BY <1>1, <2>1 DEF IndexInv, StaleOwned, Saved
<1>5. GotSaved'
  <2> SUFFICES ASSUME NEW q \in Proc, NEW id \in gets[q].revoking \cup gets[q].got
      PROVE Saved(call[q].type, id)'
    BY DEF GotSaved
  <2>1. q # p
    BY <1>1 DEF NoGets
  <2>2. Saved(call[q].type, id)
    BY DEF IndexInv, GotSaved
  <2> QED BY <1>1, <2>1, <2>2 DEF Saved
<1>6. CallsClean'
  BY <1>1 DEF IndexInv, CallsClean
<1> QED BY <1>3, <1>4, <1>5, <1>6

-----------------------------------------------------------------------------
\* IndexInv holds of every reachable state.
THEOREM IndexInvariant == Spec => []IndexInv
<1>1. Init => IndexInv
  BY TokensAssumption DEF Init, IndexInv, StoreInv, IndexConsistent, IdsUnique, ExpiredArchived,
     ArchivedKnown, MintedFresh, StaleOwned, GotSaved, CallsClean, Saved, Off, NoGets, Idle, Type
<1>2. TypeOK /\ TypeOK' /\ IndexInv /\ [Next]_vars => IndexInv'
  <2> SUFFICES ASSUME TypeOK, TypeOK', IndexInv, [Next]_vars PROVE IndexInv'
    OBVIOUS
  <2> DEFINE CallInv == MintedFresh /\ StaleOwned /\ GotSaved /\ CallsClean
  <2>0. IndexInv' <=> StoreInv' /\ CallInv'
    BY DEF IndexInv
  <2>1. UNCHANGED <<body, call, lane, gets>> => CallInv'
    BY DEF IndexInv, MintedFresh, StaleOwned, GotSaved, CallsClean, Saved
  <2>2. UNCHANGED store => StoreInv'
    BY StoreUnchanged DEF IndexInv
  <2> HIDE DEF CallInv
  <2>3. CASE Tick
    BY <2>3, <2>0, <2>1, <2>2 DEF Tick, store
  <2>4. ASSUME NEW p \in Proc, NEW ty \in Type, NEW l \in Lane,
               SetLane(p, ty, l), lane[p][ty].pc # "off", l.pc # "save",
               \A id \in l.stale : Saved(ty, id) /\ body[ty][id].consumer = call[p].consumer,
               UNCHANGED <<body, call, gets>>
        PROVE  CallInv'
    BY <2>4, LaneCalls DEF CallInv
  <2>5. ASSUME NEW p \in Proc, NEW ty \in Type
        PROVE  /\ lane[p][ty] \in Lane
               /\ \A id \in lane[p][ty].stale :
                    Saved(ty, id) /\ body[ty][id].consumer = call[p].consumer
    BY DEF TypeOK, IndexInv, StaleOwned
  <2>6. ASSUME NEW p \in Proc, NEW ty \in Type, ReadIndex(p, ty) PROVE IndexInv'
    <3> DEFINE ids == active[ty][call[p].consumer]
               live == {id \in ids : ~Expired(ty, id)}
               l == [Off EXCEPT
                       !.pc = IF live = {} THEN AfterScan(ids \ live) ELSE "scan",
                       !.scan = live, !.stale = ids \ live, !.seen = live]
    <3>1. call[p].consumer \in Consumer /\ ids \in SUBSET Id
      BY <2>6 DEF ReadIndex, TypeOK
    <3>2. l \in Lane /\ l.pc # "save" /\ l.stale \subseteq ids
      BY <3>1 DEF Lane, Off, AfterScan
    <3>3. \A id \in ids : Saved(ty, id) /\ body[ty][id].consumer = call[p].consumer
      BY <3>1 DEF IndexInv, StoreInv, IndexConsistent
    <3>4. SetLane(p, ty, l) /\ lane[p][ty].pc # "off"
      BY <2>6 DEF ReadIndex
    <3>5. CallInv'
      <4> HIDE DEF l, ids
      <4> QED BY <2>4, <2>6, <3>2, <3>3, <3>4 DEF ReadIndex, store
    <3> QED BY <2>0, <2>2, <2>6, <3>5 DEF ReadIndex
  <2>7. ASSUME NEW p \in Proc, NEW ty \in Type, NEW id \in Id, ReadCandidate(p, ty, id)
        PROVE  IndexInv'
    <3> DEFINE l == lane[p][ty]
               rest == l.scan \ {id}
               m == IF Match(ty, id, call[p].consumer, call[p].attrs)
             THEN [l EXCEPT !.pc = AfterScan(l.stale), !.scan = {}, !.hit = id]
             ELSE [l EXCEPT !.pc = IF rest = {} THEN AfterScan(l.stale) ELSE "scan",
                            !.scan = rest]
    <3>1. SetLane(p, ty, m) /\ l.pc # "off"
      BY <2>7 DEF ReadCandidate
    <3>2. m \in Lane /\ m.pc # "save" /\ m.stale = l.stale
      <4>1. l \in Lane
        BY <2>5
      <4> HIDE DEF l
      <4> QED BY <4>1 DEF Lane, AfterScan
    <3>3. CallInv'
      <4> HIDE DEF m
      <4> QED BY <2>4, <2>5, <2>7, <3>1, <3>2 DEF ReadCandidate, store
    <3> QED BY <2>0, <2>2, <2>7, <3>3 DEF ReadCandidate
  <2>8. ASSUME NEW p \in Proc, NEW ty \in Type, NEW id \in Id, CandidateError(p, ty, id)
        PROVE  IndexInv'
    <3> DEFINE l == lane[p][ty]
               rest == l.scan \ {id}
               m == [l EXCEPT !.scan = rest, !.seen = @ \ {id},
                              !.pc = IF rest = {} THEN AfterScan(l.stale) ELSE "scan"]
    <3>1. SetLane(p, ty, m) /\ l.pc # "off"
      BY <2>8 DEF CandidateError
    <3>2. m \in Lane /\ m.pc # "save" /\ m.stale = l.stale
      <4>1. l \in Lane
        BY <2>5
      <4> HIDE DEF l
      <4> QED BY <4>1 DEF Lane, AfterScan
    <3>3. CallInv'
      <4> HIDE DEF m
      <4> QED BY <2>4, <2>5, <2>8, <3>1, <3>2 DEF CandidateError, store
    <3> QED BY <2>0, <2>2, <2>8, <3>3 DEF CandidateError
  <2>9. ASSUME NEW p \in Proc, NEW ty \in Type, ArchiveStale(p, ty) PROVE IndexInv'
    <3> DEFINE l == lane[p][ty]
               m == [l EXCEPT !.pc = "found", !.stale = {}]
    <3>1. /\ SetLane(p, ty, m) /\ l.pc # "off"
          /\ Archive(ty, l.stale, call[p].consumer)
      BY <2>9 DEF ArchiveStale
    <3>2. m \in Lane /\ m.pc # "save" /\ m.stale = {} /\ l.stale \in SUBSET Id
      <4>1. l \in Lane
        BY <2>5
      <4> HIDE DEF l
      <4> QED BY <4>1 DEF Lane
    <3>3. CallInv'
      <4> HIDE DEF m
      <4> QED BY <2>4, <2>9, <3>1, <3>2 DEF ArchiveStale, Archive
    <3>4. StoreInv'
      <4>1. call[p].consumer \in Consumer
        BY <3>1 DEF TypeOK
      <4>2. StoreInv
        BY DEF IndexInv
      <4> HIDE DEF l
      <4> QED BY <4>1, <4>2, <2>5, <3>1, <3>2, ArchiveStore DEF l
    <3> QED BY <2>0, <3>3, <3>4
  <2>10. ASSUME NEW p \in Proc, NEW ty \in Type, CommandError(p, ty) PROVE IndexInv'
    <3> DEFINE l == lane[p][ty]
               m == [l EXCEPT !.pc = "failed"]
    <3>1. SetLane(p, ty, m) /\ l.pc # "off"
      BY <2>10 DEF CommandError
    <3>2. m \in Lane /\ m.pc # "save" /\ m.stale = l.stale
      <4>1. l \in Lane
        BY <2>5
      <4> HIDE DEF l
      <4> QED BY <4>1 DEF Lane
    <3>3. CallInv'
      <4> HIDE DEF m
      <4> QED BY <2>4, <2>5, <2>10, <3>1, <3>2 DEF CommandError, store
    <3> QED BY <2>0, <2>2, <2>10, <3>3 DEF CommandError
  <2>11. ASSUME NEW p \in Proc, NEW c \in Consumer, NEW attrs \in SUBSET Attr,
                NEW refresh \in BOOLEAN, FindOrSave(p, c, attrs, refresh)
         PROVE  IndexInv'
    <3> DEFINE k == [Idle EXCEPT !.op = "findOrSave", !.consumer = c, !.attrs = attrs]
    <3>1. k \in Call /\ k.op = "findOrSave"
      BY DEF Call, Idle, Type
    <3>2. Begin(p, k) /\ UNCHANGED <<body, gets>> /\ UNCHANGED store
      BY <2>11 DEF FindOrSave, store
    <3>3. /\ lane' \in [Proc -> [Type -> Lane]]
          /\ \A q \in Proc : q # p => lane'[q] = lane[q]
          /\ \A ty \in Type : lane'[p][ty].pc # "save" /\ lane'[p][ty].stale = {}
      BY <2>11 DEF FindOrSave, Start, Off, TypeOK
    <3>4. CallInv'
      <4> HIDE DEF k
      <4> QED BY <3>1, <3>2, <3>3, FindBegins DEF CallInv
    <3> QED BY <2>0, <2>2, <3>2, <3>4
  <2>12. ASSUME NEW p \in Proc, NEW c \in Consumer, NEW attrs \in SUBSET Attr,
                SaveRefreshOnly(p, c, attrs)
         PROVE  IndexInv'
    <3> DEFINE k == [Idle EXCEPT !.op = "findOrSave", !.consumer = c, !.attrs = attrs]
    <3>1. k \in Call /\ k.op = "findOrSave"
      BY DEF Call, Idle, Type
    <3>2. Begin(p, k) /\ UNCHANGED <<body, gets>> /\ UNCHANGED store
      BY <2>12 DEF SaveRefreshOnly, store
    <3>3. /\ lane' \in [Proc -> [Type -> Lane]]
          /\ \A q \in Proc : q # p => lane'[q] = lane[q]
          /\ \A ty \in Type : lane'[p][ty].pc # "save" /\ lane'[p][ty].stale = {}
      BY <2>12 DEF SaveRefreshOnly, Off, TypeOK
    <3>4. CallInv'
      <4> HIDE DEF k
      <4> QED BY <3>1, <3>2, <3>3, FindBegins DEF CallInv
    <3> QED BY <2>0, <2>2, <3>2, <3>4
  <2>13. ASSUME NEW p \in Proc, Decide(p) PROVE IndexInv'
    <3>1. PICK fresh \in [Missing(p) -> Id \ Used] :
            /\ \A ty, tz \in Missing(p) : ty # tz => fresh[ty] # fresh[tz]
            /\ lane' = [lane EXCEPT ![p] = [ty \in Type |->
               LET l == lane[p][ty]
               IN  IF ty \in Missing(p)
                   THEN [l EXCEPT !.pc = "save", !.hit = fresh[ty], !.due = now + TTL[ty]]
                   ELSE IF l.pc = "found" THEN [l EXCEPT !.pc = "done", !.seen = {}] ELSE l]]
      BY <2>13 DEF Decide
    <3>2. \A q \in Proc : q # p => lane'[q] = lane[q]
      BY <3>1 DEF TypeOK
    <3>3. UNCHANGED <<store, call, gets>> /\ \A ty \in Type : lane[p][ty].pc \in {"found", "off"}
      BY <2>13 DEF Decide
    <3>4. ASSUME NEW ty \in Type
          PROVE  /\ lane'[p][ty].stale = lane[p][ty].stale
                 /\ lane'[p][ty].pc = "save" => /\ ty \in Missing(p)
                                                /\ fresh[ty] \in Id \ Used
                                                /\ lane'[p][ty].hit = fresh[ty]
      <4>1. lane[p][ty] \in Lane
        BY DEF TypeOK
      <4>2. lane'[p][ty] = IF ty \in Missing(p)
                   THEN [lane[p][ty] EXCEPT !.pc = "save", !.hit = fresh[ty], !.due = now + TTL[ty]]
                   ELSE IF lane[p][ty].pc = "found"
                        THEN [lane[p][ty] EXCEPT !.pc = "done", !.seen = {}] ELSE lane[p][ty]
        BY <3>1 DEF TypeOK
      <4>3. CASE ty \in Missing(p)
        <5> DEFINE l == lane[p][ty]
        <5>1. /\ l \in Lane
              /\ lane'[p][ty] = [l EXCEPT !.pc = "save", !.hit = fresh[ty], !.due = now + TTL[ty]]
          BY <4>1, <4>2, <4>3
        <5> HIDE DEF l
        <5>2. lane'[p][ty].stale = l.stale /\ lane'[p][ty].hit = fresh[ty]
          BY <5>1 DEF Lane
        <5> QED BY <3>1, <4>3, <5>2 DEF l
      <4>4. CASE ty \notin Missing(p) /\ lane[p][ty].pc = "found"
        <5>1. lane'[p][ty] = [lane[p][ty] EXCEPT !.pc = "done", !.seen = {}]
          BY <4>2, <4>4
        <5> DEFINE l == lane[p][ty]
        <5>2. l \in Lane /\ lane'[p][ty] = [l EXCEPT !.pc = "done", !.seen = {}]
          BY <4>1, <5>1
        <5> HIDE DEF l
        <5>3. lane'[p][ty].stale = l.stale /\ lane'[p][ty].pc = "done"
          BY <5>2 DEF Lane
        <5> QED BY <5>3 DEF l
      <4>5. CASE ty \notin Missing(p) /\ lane[p][ty].pc = "off"
        BY <4>2, <4>5
      <4> QED BY <3>3, <4>3, <4>4, <4>5
    <3>5. ASSUME NEW q \in Proc, NEW ty \in Type, q # p, lane[q][ty].pc = "save",
                 NEW i \in Id \ Used
          PROVE  lane[q][ty].hit # i
      BY <3>5 DEF Used
    <3>6. \A tz \in Type, i \in Id : Saved(tz, i)' = Saved(tz, i)
      BY <3>3 DEF Saved, store
    <3>7. MintedFresh'
      <4> SUFFICES ASSUME NEW q \in Proc, NEW ty \in Type, lane'[q][ty].pc = "save"
          PROVE  /\ \A tz \in Type : ~Saved(tz, lane[q][ty].hit)'
                 /\ \A r \in Proc, tz \in Type :
                      lane'[r][tz].pc = "save" /\ lane'[r][tz].hit = lane'[q][ty].hit
                        => r = q /\ tz = ty
        BY DEF MintedFresh
      <4>1. CASE q = p
        <5>1. lane'[p][ty].hit = fresh[ty] /\ fresh[ty] \in Id \ Used /\ ty \in Missing(p)
          BY <3>4, <4>1
        <5>2. \A tz \in Type : ~Saved(tz, fresh[ty])
          BY <5>1 DEF Used
        <5>3. \A tz \in Type : ~Saved(tz, lane[q][ty].hit)'
          BY <5>1, <5>2, <4>1, <3>3 DEF Saved, store
        <5>4. \A tz \in Type : lane'[p][tz].pc = "save" /\ lane'[p][tz].hit = fresh[ty] => tz = ty
          BY <3>1, <3>4, <5>1
        <5>5. \A r \in Proc, tz \in Type :
                r # p /\ lane'[r][tz].pc = "save" => lane'[r][tz].hit # fresh[ty]
          BY <3>2, <3>5, <5>1
        <5> QED BY <4>1, <5>1, <5>3, <5>4, <5>5
      <4>2. CASE q # p
        <5>1. /\ lane'[q] = lane[q] /\ \A tz \in Type : ~Saved(tz, lane[q][ty].hit)
              /\ \A r \in Proc, tz \in Type :
                  lane[r][tz].pc = "save" /\ lane[r][tz].hit = lane[q][ty].hit => r = q /\ tz = ty
          BY <3>2, <4>2 DEF IndexInv, MintedFresh
        <5>2. \A tz \in Type : ~Saved(tz, lane[q][ty].hit)'
          BY <5>1, <3>3 DEF Saved, store
        <5>3. \A tz \in Type : lane'[p][tz].pc = "save" => lane'[p][tz].hit # lane[q][ty].hit
          BY <3>4, <3>5, <4>2, <5>1
        <5> QED BY <3>2, <5>1, <5>2, <5>3
      <4> QED BY <4>1, <4>2
    <3>8. StaleOwned'
      BY <3>2, <3>3, <3>4 DEF IndexInv, StaleOwned, Saved, store
    <3>9. GotSaved' /\ CallsClean'
      <4>1. \E ty \in Type : lane[p][ty].pc = "found"
        BY <2>13 DEF Decide
      <4>2. call[p].op = "findOrSave"
        BY <4>1 DEF TypeOK
      <4>3. GotSaved'
        BY <3>3 DEF IndexInv, GotSaved, Saved, store
      <4> QED BY <3>2, <3>3, <4>2, <4>3 DEF IndexInv, CallsClean
    <3> QED BY <2>0, <2>2, <3>3, <3>7, <3>8, <3>9 DEF CallInv
  <2>14. ASSUME NEW p \in Proc, NEW ty \in Type, SaveToken(p, ty) PROVE IndexInv'
    <3> DEFINE l == lane[p][ty]
               i == l.hit
               c == call[p].consumer
               m == [l EXCEPT !.pc = "done", !.due = 0, !.seen = {}]
    <3>1. /\ l \in Lane /\ l.pc = "save" /\ i \in Id /\ c \in Consumer
          /\ call[p].op = "findOrSave"
      BY <2>14 DEF SaveToken, TypeOK, Lane
    <3>2. /\ \A tz \in Type, j \in Id :
               body'[tz][j] = IF tz = ty /\ j = i
                              THEN [consumer |-> c, attrs |-> call[p].attrs, expiresAt |-> l.due]
                              ELSE body[tz][j]
          /\ \A tz \in Type, d \in Consumer :
               active'[tz][d] = IF tz = ty /\ d = c THEN active[tz][d] \cup {i} ELSE active[tz][d]
          /\ UNCHANGED <<archived, expired, call, gets>> /\ SetLane(p, ty, m)
      <4> DEFINE b == [consumer |-> c, attrs |-> call[p].attrs, expiresAt |-> l.due]
      <4>1. /\ body' = [body EXCEPT ![ty][i] = b]
            /\ active' = [active EXCEPT ![ty][c] = @ \cup {i}]
            /\ UNCHANGED <<archived, expired, call, gets>> /\ SetLane(p, ty, m)
        BY <2>14 DEF SaveToken
      <4> HIDE DEF b, i, c
      <4>2. \A tz \in Type, j \in Id :
              body'[tz][j] = IF tz = ty /\ j = i THEN b ELSE body[tz][j]
        BY <3>1, <4>1 DEF TypeOK
      <4>3. \A tz \in Type, d \in Consumer :
              active'[tz][d] = IF tz = ty /\ d = c THEN active[tz][d] \cup {i} ELSE active[tz][d]
        BY <3>1, <4>1 DEF TypeOK
      <4> QED BY <4>1, <4>2, <4>3 DEF b
    <3>3. \A tz \in Type : ~Saved(tz, i)
      BY <3>1 DEF IndexInv, MintedFresh
    <3>4. body'[ty][i] # None
      <4>1. body'[ty][i] \in Body
        BY <3>1, <3>2 DEF Body, TypeOK, Call, Lane
      <4> QED BY <4>1, TokensAssumption
    <3>5. \A tz \in Type, j \in Id : Saved(tz, j)' <=> Saved(tz, j) \/ (tz = ty /\ j = i)
      BY <3>2, <3>4 DEF Saved
    <3>6. i \notin archived[ty] /\ \A tz \in Type : i \notin archived[tz]
      BY <3>3, <3>1 DEF IndexInv, StoreInv, ArchivedKnown
    <3>7. IdsUnique'
      BY <3>3, <3>5 DEF IndexInv, StoreInv, IdsUnique, Type
    <3>8. ExpiredArchived' /\ ArchivedKnown'
      BY <3>2, <3>5, TypeOK DEF IndexInv, StoreInv, ExpiredArchived, ArchivedKnown, TypeOK
    <3>9. IndexConsistent'
      <4> SUFFICES ASSUME NEW tz \in Type, NEW j \in Id, NEW d \in Consumer
          PROVE /\ j \in active'[tz][d] <=>
                     Saved(tz, j)' /\ body'[tz][j].consumer = d /\ j \notin archived'[tz]
                /\ Saved(tz, j)' /\ body'[tz][j].consumer = d =>
                     (j \in expired'[tz][d] <=> j \in archived'[tz])
        BY DEF IndexConsistent
      <4>1. /\ j \in active[tz][d] <=>
                 Saved(tz, j) /\ body[tz][j].consumer = d /\ j \notin archived[tz]
            /\ Saved(tz, j) /\ body[tz][j].consumer = d =>
                 (j \in expired[tz][d] <=> j \in archived[tz])
            /\ expired[tz][d] \subseteq archived[tz]
        BY DEF IndexInv, StoreInv, IndexConsistent, ExpiredArchived
      <4> HIDE DEF i, c
      <4>2. CASE tz = ty /\ j = i
        <5>1. /\ j \in active'[tz][d] <=> d = c
              /\ j \notin active[tz][d] /\ j \notin expired[tz][d]
          BY <3>2, <3>3, <3>6, <4>1, <4>2
        <5>2. body'[tz][j].consumer = c
          BY <3>2, <4>2
        <5>3. Saved(tz, j)' /\ j \notin archived'[tz] /\ expired' = expired
          BY <3>2, <3>5, <3>6, <4>2
        <5> QED BY <5>1, <5>2, <5>3
      <4>3. CASE ~(tz = ty /\ j = i)
        BY <3>2, <3>5, <4>1, <4>3
      <4> QED BY <4>2, <4>3
    <3>10. /\ lane'[p][ty] = m
           /\ \A q \in Proc, tz \in Type : q # p \/ tz # ty => lane'[q][tz] = lane[q][tz]
      BY <3>1, <3>2, TypeOK DEF SetLane, TypeOK
    <3>11. m.pc = "done" /\ m.stale = l.stale
      <4> HIDE DEF l
      <4> QED BY <3>1 DEF Lane
    <3>12. MintedFresh'
      <4> SUFFICES ASSUME NEW q \in Proc, NEW tz \in Type, lane'[q][tz].pc = "save"
          PROVE  /\ \A ta \in Type : ~Saved(ta, lane[q][tz].hit)'
                 /\ \A r \in Proc, ta \in Type :
                      lane'[r][ta].pc = "save" /\ lane'[r][ta].hit = lane'[q][tz].hit
                        => r = q /\ ta = tz
        BY DEF MintedFresh
      <4>1. ~(q = p /\ tz = ty) /\ lane'[q][tz] = lane[q][tz]
        BY <3>10, <3>11
      <4>2. lane[q][tz].hit # i /\ lane[q][tz].hit \in Id
        BY <4>1, <3>1 DEF IndexInv, MintedFresh, TypeOK, Lane
      <4>3. \A ta \in Type : ~Saved(ta, lane[q][tz].hit)
        BY <4>1 DEF IndexInv, MintedFresh
      <4>4. \A ta \in Type : ~Saved(ta, lane[q][tz].hit)'
        BY <3>5, <4>1, <4>2, <4>3
      <4>5. \A r \in Proc, ta \in Type :
              lane'[r][ta].pc = "save" => lane'[r][ta] = lane[r][ta]
        BY <3>10, <3>11
      <4> QED BY <4>1, <4>4, <4>5 DEF IndexInv, MintedFresh
    <3>13. StaleOwned'
      <4> SUFFICES ASSUME NEW q \in Proc, NEW tz \in Type, NEW id \in lane'[q][tz].stale
          PROVE Saved(tz, id)' /\ body'[tz][id].consumer = call'[q].consumer
        BY DEF StaleOwned
      <4>1. id \in lane[q][tz].stale /\ id \in Id
        <5>1. lane'[q][tz].stale = lane[q][tz].stale
          BY <3>10, <3>11
        <5>2. lane[q][tz] \in Lane
          BY DEF TypeOK
        <5> QED BY <5>1, <5>2 DEF Lane
      <4>2. Saved(tz, id) /\ body[tz][id].consumer = call[q].consumer
        BY <4>1 DEF IndexInv, StaleOwned
      <4> QED BY <3>2, <3>3, <3>5, <4>1, <4>2
    <3>14. GotSaved'
      <4> SUFFICES ASSUME NEW q \in Proc, NEW id \in gets[q].revoking \cup gets[q].got
          PROVE Saved(call[q].type, id)'
        BY <3>2 DEF GotSaved
      <4>1. Saved(call[q].type, id) /\ id \in Id /\ call[q].type \in Type
        BY DEF IndexInv, GotSaved, TypeOK, Gets, Call
      <4>2. Saved(call[q].type, id)' <=> body'[call[q].type][id] # None
        BY <3>2 DEF Saved
      <4> QED BY <3>2, <3>3, <3>4, <4>1, <4>2 DEF Saved
    <3>15. CallsClean'
      BY <3>1, <3>2, <3>10 DEF IndexInv, CallsClean
    <3> QED BY <2>0, <3>7, <3>8, <3>9, <3>12, <3>13, <3>14, <3>15 DEF StoreInv, CallInv
  <2>15. ASSUME NEW p \in Proc, NEW ty \in Type, NEW id \in Id, NEW past \in BOOLEAN,
                Get(p, ty, id, past)
         PROVE  IndexInv'
    <3> DEFINE k == [Idle EXCEPT !.op = "get", !.type = ty, !.past = past]
    <3>1. k \in Call /\ k.op = "get"
      BY DEF Call, Idle
    <3>2. /\ Begin(p, k) /\ UNCHANGED <<body, lane>> /\ UNCHANGED store
          /\ gets' = [gets EXCEPT ![p].reading = {id}]
      BY <2>15 DEF Get, store
    <3>3. CallInv'
      <4> HIDE DEF k
      <4> QED BY <3>1, <3>2, GetBegins DEF CallInv
    <3> QED BY <2>0, <2>2, <3>2, <3>3
  <2>16. ASSUME NEW p \in Proc, NEW id \in Id, Revoke(p, id) PROVE IndexInv'
    <3> DEFINE k == [Idle EXCEPT !.op = "revoke"]
    <3>1. k \in Call /\ k.op = "revoke" /\ k.type = "access_token"
      BY DEF Call, Idle, Type
    <3>2. /\ Begin(p, k) /\ UNCHANGED <<body, lane>> /\ UNCHANGED store
          /\ gets' = [gets EXCEPT ![p].reading = {id}]
      BY <2>16 DEF Revoke, store
    <3>3. CallInv'
      <4> HIDE DEF k
      <4> QED BY <3>1, <3>2, GetBegins DEF CallInv
    <3> QED BY <2>0, <2>2, <3>2, <3>3
  <2>17. ASSUME NEW p \in Proc, NEW ty \in Type, NEW c \in Consumer, NEW past \in BOOLEAN,
                List(p, ty, c, past)
         PROVE  IndexInv'
    <3> DEFINE k == [Idle EXCEPT !.op = "list", !.type = ty, !.past = past]
               ids == active[ty][c] \cup (IF past THEN expired[ty][c] ELSE {})
    <3>1. k \in Call /\ k.op = "list"
      BY DEF Call, Idle
    <3>2. /\ Begin(p, k) /\ UNCHANGED <<body, lane>> /\ UNCHANGED store
          /\ gets' = [gets EXCEPT ![p].reading = ids]
      BY <2>17 DEF List, store
    <3>3. ids \in SUBSET Id
      BY DEF TypeOK
    <3>4. CallInv'
      <4> HIDE DEF k, ids
      <4> QED BY <3>1, <3>2, <3>3, GetBegins DEF CallInv
    <3> QED BY <2>0, <2>2, <3>2, <3>4
  <2>18. ASSUME NEW p \in Proc, NEW id \in Id, ReadToken(p, id) PROVE IndexInv'
    <3> DEFINE ty == call[p].type
               g == gets[p]
               outcome == Outcome(ty, id, call[p].past)
               h == [reading  |-> g.reading \ {id},
                     revoking |-> IF outcome = "revoke" THEN g.revoking \cup {id} ELSE g.revoking,
                     got      |-> IF outcome = "token" THEN g.got \cup {id} ELSE g.got]
    <3>1. /\ g \in Gets /\ id \in g.reading /\ gets' = [gets EXCEPT ![p] = h]
          /\ UNCHANGED <<body, lane, call>> /\ UNCHANGED store
      BY <2>18 DEF ReadToken, TypeOK, store
    <3>2. call[p].op \notin {"idle", "findOrSave"}
      BY <3>1 DEF IndexInv, CallsClean, NoGets
    <3>3. \A i \in g.revoking \cup g.got : Saved(ty, i)
      BY DEF IndexInv, GotSaved
    <3>4. h \in Gets /\ \A i \in h.revoking \cup h.got : Saved(ty, i)
      <4>1. outcome \in {"revoke", "token"} => Saved(ty, id)
        BY DEF Outcome
      <4> HIDE DEF g, ty, outcome
      <4> QED BY <3>1, <3>3, <4>1 DEF Gets
    <3>5. CallInv'
      <4> HIDE DEF h
      <4> QED BY <3>1, <3>2, <3>4, GetsCalls DEF CallInv, TypeOK
    <3> QED BY <2>0, <2>2, <3>1, <3>5
  <2>19. ASSUME NEW p \in Proc, NEW id \in Id, RevokeExpired(p, id) PROVE IndexInv'
    <3> DEFINE ty == call[p].type
               g == gets[p]
               c == body[ty][id].consumer
               h == [g EXCEPT !.revoking = @ \ {id},
                              !.got = IF call[p].past THEN @ \cup {id} ELSE @]
    <3>1. /\ g \in Gets /\ id \in g.revoking /\ gets' = [gets EXCEPT ![p] = h]
          /\ UNCHANGED <<lane, call>> /\ Archive("access_token", {id}, c) /\ body' = body
      BY <2>19 DEF RevokeExpired, TypeOK, Archive
    <3>2. call[p].op \notin {"idle", "findOrSave"}
      BY <3>1 DEF IndexInv, CallsClean, NoGets
    <3>3. Saved(ty, id) /\ \A i \in g.revoking \cup g.got : Saved(ty, i)
      BY <3>1 DEF IndexInv, GotSaved
    <3>4. h \in Gets /\ \A i \in h.revoking \cup h.got : Saved(ty, i)
      <4> HIDE DEF g, ty
      <4> QED BY <3>1, <3>3 DEF Gets
    <3>5. CallInv'
      <4> HIDE DEF h
      <4> QED BY <3>1, <3>2, <3>4, GetsCalls DEF CallInv, TypeOK
    <3>6. ty \in Type /\ c \in Consumer
      BY <3>3 DEF TypeOK, Call, Saved, Body
    <3>7. \/ Saved("access_token", id) /\ body["access_token"][id].consumer = c
          \/ ~Saved("access_token", id) /\ \E tz \in Type : Saved(tz, id)
      BY <3>3, <3>6 DEF IndexInv, StoreInv, IdsUnique, Type
    <3>8. StoreInv'
      <4>1. StoreInv /\ "access_token" \in Type
        BY DEF IndexInv, Type
      <4> HIDE DEF c, ty
      <4> QED BY <3>1, <3>6, <3>7, <4>1, ArchiveStore
    <3> QED BY <2>0, <3>5, <3>8
  <2>20. ASSUME NEW p \in Proc, NEW id \in Id, GetError(p, id) PROVE IndexInv'
    <3> DEFINE g == gets[p]
               h == [g EXCEPT !.reading = @ \ {id}, !.revoking = @ \ {id}]
    <3>1. /\ g \in Gets /\ id \in g.reading \cup g.revoking /\ gets' = [gets EXCEPT ![p] = h]
          /\ UNCHANGED <<body, lane>> /\ UNCHANGED store
          /\ call' = [call EXCEPT ![p].failed = TRUE]
      BY <2>20 DEF GetError, TypeOK, store
    <3>2. call[p].op \notin {"idle", "findOrSave"}
      BY <3>1 DEF IndexInv, CallsClean, NoGets
    <3>3. \A i \in g.revoking \cup g.got : Saved(call[p].type, i)
      BY DEF IndexInv, GotSaved
    <3>4. h \in Gets /\ \A i \in h.revoking \cup h.got : Saved(call[p].type, i)
      <4> HIDE DEF g
      <4> QED BY <3>1, <3>3 DEF Gets
    <3>5. \A q \in Proc : /\ call'[q].type = call[q].type /\ call'[q].op = call[q].op
                         /\ call'[q].consumer = call[q].consumer
      BY <3>1 DEF TypeOK, Call
    <3>6. CallInv'
      <4>1. call' \in [Proc -> Call]
        BY TypeOK' DEF TypeOK
      <4> HIDE DEF h
      <4> QED BY <3>1, <3>2, <3>4, <3>5, <4>1, GetsCalls DEF CallInv
    <3> QED BY <2>0, <2>2, <3>1, <3>6
  <2>21. ASSUME NEW p \in Proc, NEW id \in Id, RevokeToken(p, id) PROVE IndexInv'
    <3> DEFINE c == body["access_token"][id].consumer
    <3>1. /\ call[p].op = "revoke" /\ id \in gets[p].got /\ UNCHANGED lane
          /\ call' = [call EXCEPT ![p] = Idle] /\ gets' = [gets EXCEPT ![p] = NoGets]
          /\ Archive("access_token", {id}, c) /\ body' = body
      BY <2>21 DEF RevokeToken, Archive
    <3>2. \A ty \in Type : lane[p][ty] = Off
      BY <3>1 DEF IndexInv, CallsClean
    <3>3. CallInv'
      BY <3>1, <3>2, CallEnds DEF CallInv
    <3>4. Saved("access_token", id) /\ "access_token" \in Type
      BY <3>1 DEF IndexInv, GotSaved, CallsClean, Type
    <3>5. c \in Consumer
      BY <3>4 DEF TypeOK, Saved, Body
    <3>6. StoreInv'
      <4>1. StoreInv
        BY DEF IndexInv
      <4> QED BY <3>1, <3>4, <3>5, <4>1, ArchiveStore
    <3> QED BY <2>0, <3>3, <3>6
  <2>22. ASSUME NEW p \in Proc, Return(p) PROVE IndexInv'
    <3>1. /\ call' = [call EXCEPT ![p] = Idle] /\ gets' = [gets EXCEPT ![p] = NoGets]
          /\ body' = body /\ UNCHANGED store
          /\ \A ty \in Type : lane'[p][ty] = Off
          /\ \A q \in Proc : q # p => lane'[q] = lane[q]
      BY <2>22 DEF Return, TypeOK, store
    <3> QED BY <2>0, <2>2, <3>1, CallEnds DEF CallInv
  <2>23. CASE UNCHANGED vars
    BY <2>23, <2>0, <2>1, <2>2 DEF vars, store
  <2>24. ASSUME NEW p \in Proc, Request(p) PROVE IndexInv'
    BY <2>24, <2>11, <2>12, <2>15, <2>16, <2>17 DEF Request
  <2>25. ASSUME NEW p \in Proc, Reply(p) PROVE IndexInv'
    BY <2>25, <2>6, <2>7, <2>9, <2>13, <2>14, <2>18, <2>19, <2>21, <2>22 DEF Reply
  <2>26. ASSUME NEW p \in Proc, Fault(p) PROVE IndexInv'
    BY <2>26, <2>8, <2>10, <2>20 DEF Fault
  <2> QED BY <2>3, <2>23, <2>24, <2>25, <2>26 DEF Next
<1> QED BY <1>1, <1>2, Typing, PTL DEF Spec

\* The indexes agree with the hashes in every reachable state, whatever the
\* number of consumers, tokens and concurrent calls, and whichever commands fail.
THEOREM IndexesAgree == Spec => []IndexConsistent
<1>1. IndexInv => IndexConsistent
  BY DEF IndexInv, StoreInv
<1> QED BY <1>1, IndexInvariant, PTL

\* No call returns a hash that revoking an expired refresh token left behind.
THEOREM StraysStayHidden == Spec => []StraysNeverReturned
<1>1. IndexInv => StraysNeverReturned
  BY DEF IndexInv, GotSaved, StraysNeverReturned
<1> QED BY <1>1, IndexInvariant, PTL

-----------------------------------------------------------------------------
(***************************************************************************)
(* The token store keeps the promise of TokenLifecycle: its initial states *)
(* are initial ones there, and every step is a step there or leaves what   *)
(* callers can see.                                                        *)
(***************************************************************************)

-----------------------------------------------------------------------------
(* The refinement mapping, by name.                                         *)

Key == Type \X Id
St == [k \in Key |-> StatusOf(k[1], k[2])]
Cg == {p \in Proc : call[p].op # "idle"}
Ba == [p \in Proc |-> IF call[p].past THEN {} ELSE {k \in dead[p] : Saved(k[1], k[2])}]
An == [p \in Proc |->
         {k \in Type \X Id : lane[p][k[1]].hit = k[2] /\ Saved(k[1], k[2])}
         \cup {k \in Type \X Id : k[1] = call[p].type /\ k[2] \in gets[p].got}]

\* A step that callers cannot see.
LEMMA MapStutter ==
    ASSUME UNCHANGED <<St, Cg, Ba, An>>
    PROVE  UNCHANGED Lifecycle!vars
  BY DEF Lifecycle!vars, St, Cg, Ba, An, Key

\* A call comes upon a token.
LEMMA MapObtain ==
    ASSUME NEW p \in Proc, NEW k \in Key, p \in Cg, St[k] # "unborn", k \notin Ba[p],
           An' = [An EXCEPT ![p] = @ \cup {k}], UNCHANGED <<St, Cg, Ba>>
    PROVE  Lifecycle!Next
<1>1. Lifecycle!Obtain(p, k)
  BY DEF Lifecycle!Obtain, St, Cg, Ba, An, Key
<1>. QED
  BY <1>1 DEF Lifecycle!Next, Key

\* A call makes a token.
LEMMA MapIssue ==
    ASSUME NEW p \in Proc, NEW k \in Key, p \in Cg, St[k] = "unborn", NEW s \in {"live", "dead"},
           St' = [St EXCEPT ![k] = s],
           An' = [An EXCEPT ![p] = @ \cup {k}], UNCHANGED <<Cg, Ba>>
    PROVE  Lifecycle!Next
<1>1. Lifecycle!Issue(p, k)
  BY DEF Lifecycle!Issue, St, Cg, Ba, An, Key
<1>. QED
  BY <1>1 DEF Lifecycle!Next, Key

\* Tokens expire, or are put away because they have.
LEMMA MapExpire ==
    ASSUME \A k \in Key : St'[k] = St[k] \/ (St[k] = "live" /\ St'[k] = "dead"),
           UNCHANGED <<Cg, Ba, An>>
    PROVE  Lifecycle!Next
<1>. DEFINE dying == {k \in Key : St[k] = "live" /\ St'[k] = "dead"}
<1>1. \A k \in dying : St[k] = "live"
  OBVIOUS
<1>2. St' = [k \in Key |-> IF k \in dying THEN "dead" ELSE St[k]]
  BY DEF St
<1>3. Lifecycle!Expire(dying)
  <2>. HIDE DEF dying
  <2>. QED
    BY <1>1, <1>2 DEF Lifecycle!Expire, St, Cg, Ba, An, Key
<1>4. dying \in SUBSET Key
  OBVIOUS
<1>. QED
  BY <1>3, <1>4 DEF Lifecycle!Next, Key

\* A call begins.
LEMMA MapBegin ==
    ASSUME NEW p \in Proc, p \notin Cg, Cg' = Cg \cup {p}, NEW past \in BOOLEAN,
           Ba' = [Ba EXCEPT ![p] = IF past THEN {} ELSE {k \in Key : St[k] = "dead"}],
           UNCHANGED <<St, An>>
    PROVE  Lifecycle!Next
<1>1. Lifecycle!Begin(p)
  BY DEF Lifecycle!Begin, Lifecycle!Dead, St, Cg, Ba, An, Key
<1>. QED
  BY <1>1 DEF Lifecycle!Next, Key

\* A call ends; the end of a revocation kills the token it has read.
LEMMA MapEnd ==
    ASSUME NEW p \in Proc, p \in Cg, Cg' = Cg \ {p},
           St' = St \/ \E k \in An[p] : St' = [St EXCEPT ![k] = "dead"],
           Ba' = [Ba EXCEPT ![p] = {}], An' = [An EXCEPT ![p] = {}]
    PROVE  Lifecycle!Next
<1>1. Lifecycle!End(p)
  BY DEF Lifecycle!End, St, Cg, Ba, An, Key
<1>. QED
  BY <1>1 DEF Lifecycle!Next, Key

-----------------------------------------------------------------------------
(* What calls hold, beyond IndexInv, for their answers to be good.          *)

\* A token that was dead when a call began is dead still, or never comes to be.
DeadStays ==
    \A p \in Proc : \A k \in dead[p] :
        StatusOf(k[1], k[2]) # "live" /\ \E ty \in Type : Saved(ty, k[2])

\* The candidates of a find were saved, and none was dead when its call began.
CandidatesGood ==
    \A p \in Proc, ty \in Type : \A id \in lane[p][ty].scan :
        Saved(ty, id) /\ <<ty, id>> \notin dead[p]

\* Nothing has been found before the candidates are read.
NothingFoundYet ==
    \A p \in Proc, ty \in Type : lane[p][ty].pc \in {"off", "index", "scan"} => lane[p][ty].hit = None

\* No other lane has the id of a token about to be saved.
MintedAlone ==
    \A p \in Proc, ty \in Type : lane[p][ty].pc = "save" =>
        \A q \in Proc, tz \in Type : lane[q][tz].hit = lane[p][ty].hit => q = p /\ tz = ty

\* What a get is about to revoke has expired.
RevokingExpired == \A p \in Proc : \A id \in gets[p].revoking : Expired(call[p].type, id)

AnswerInv == DeadStays /\ CandidatesGood /\ NothingFoundYet /\ MintedAlone /\ RevokingExpired

\* What a step does to the store.
LEMMA StoreSteps ==
    ASSUME [Next]_vars
    PROVE  \/ Tick
           \/ \E p \in Proc, ty \in Type : SaveToken(p, ty)
           \/ now' = now /\ \E ty \in Type : \E ids, c : Archive(ty, ids, c)
           \/ now' = now /\ UNCHANGED store
<1>. DEFINE Goal == \/ Tick
                    \/ \E p \in Proc, ty \in Type : SaveToken(p, ty)
                    \/ now' = now /\ \E ty \in Type : \E ids, c : Archive(ty, ids, c)
                    \/ now' = now /\ UNCHANGED store
<1>1. ASSUME NEW p \in Proc, Request(p) PROVE Goal
  BY <1>1 DEF Request, FindOrSave, SaveRefreshOnly, Get, Revoke, List
<1>2. ASSUME NEW p \in Proc, Fault(p) PROVE Goal
  BY <1>2 DEF Fault, CommandError, CandidateError, GetError
<1>3. ASSUME NEW p \in Proc, NEW ty \in Type, ArchiveStale(p, ty) PROVE Goal
  BY <1>3 DEF ArchiveStale
<1>4. ASSUME NEW p \in Proc, NEW id \in Id, RevokeExpired(p, id) \/ RevokeToken(p, id) PROVE Goal
  BY <1>4 DEF RevokeExpired, RevokeToken, Type
<1>5. ASSUME NEW p \in Proc, NEW ty \in Type, ReadIndex(p, ty) PROVE Goal
  BY <1>5 DEF ReadIndex
<1>6. ASSUME NEW p \in Proc, NEW ty \in Type, NEW id \in Id, ReadCandidate(p, ty, id) PROVE Goal
  BY <1>6 DEF ReadCandidate
<1>7. ASSUME NEW p \in Proc, NEW id \in Id, ReadToken(p, id) PROVE Goal
  BY <1>7 DEF ReadToken
<1>8. ASSUME NEW p \in Proc, Decide(p) \/ Return(p) PROVE Goal
  BY <1>8 DEF Decide, Return
<1>9. ASSUME UNCHANGED vars PROVE Goal
  BY <1>9 DEF vars
<1>. HIDE DEF Goal
<1>10. ASSUME NEW p \in Proc, Reply(p) PROVE Goal
  <2>1. ASSUME NEW ty \in Type, SaveToken(p, ty) PROVE Goal
    BY <2>1 DEF Goal
  <2>2. ASSUME NEW ty \in Type,
               \/ ReadIndex(p, ty)
               \/ \E id \in Id : ReadCandidate(p, ty, id)
               \/ ArchiveStale(p, ty)
               \/ SaveToken(p, ty)
        PROVE  Goal
    BY <1>3, <1>5, <1>6, <2>1, <2>2
  <2>3. ASSUME NEW id \in Id, ReadToken(p, id) \/ RevokeExpired(p, id) \/ RevokeToken(p, id)
        PROVE  Goal
    BY <1>4, <1>7, <2>3
  <2>. QED
    BY <1>8, <1>10, <2>2, <2>3 DEF Reply
<1>11. ASSUME Tick PROVE Goal
  BY <1>11 DEF Goal
<1>12. Goal
  BY <1>1, <1>2, <1>9, <1>10, <1>11 DEF Next
<1>. QED
  BY <1>12 DEF Goal

\* A step changes no hash but that of the token it saves, whose id is new.
LEMMA HashesStay ==
    ASSUME TypeOK, TypeOK', IndexInv, [Next]_vars, NEW ty \in Type, NEW id \in Id,
           \E tz \in Type : Saved(tz, id)
    PROVE  /\ body'[ty][id] = body[ty][id]
           /\ id \in archived[ty] => id \in archived'[ty]
           /\ now \in Nat /\ now' \in Nat /\ now <= now'
<1>0. now \in Nat /\ now' \in Nat
  BY TokensAssumption DEF TypeOK
<1>1. CASE Tick
  BY <1>0, <1>1 DEF Tick, store
<1>2. ASSUME NEW p \in Proc, NEW tz \in Type, SaveToken(p, tz)
      PROVE  body'[ty][id] = body[ty][id] /\ archived' = archived /\ now' = now
  <2>1. lane[p][tz].hit # id
    BY <1>2 DEF SaveToken, IndexInv, MintedFresh
  <2>. QED
    BY <1>2, <2>1 DEF SaveToken, TypeOK
<1>3. ASSUME NEW tz \in Type, NEW ids, NEW c, Archive(tz, ids, c)
      PROVE  body' = body /\ (id \in archived[ty] => id \in archived'[ty])
  BY <1>3 DEF Archive, TypeOK
<1>. QED
  BY <1>0, <1>1, <1>2, <1>3, StoreSteps DEF store

\* What was saved stays, except that it dies.
LEMMA TokensStay ==
    ASSUME TypeOK, TypeOK', IndexInv, [Next]_vars, NEW ty \in Type, NEW id \in Id, Saved(ty, id)
    PROVE  /\ Saved(ty, id)'
           /\ StatusOf(ty, id) # "live" => StatusOf(ty, id)' # "live"
           /\ Expired(ty, id) => Expired(ty, id)'
<1>1. /\ body'[ty][id] = body[ty][id]
      /\ id \in archived[ty] => id \in archived'[ty]
      /\ now \in Nat /\ now' \in Nat /\ now <= now'
  BY HashesStay
<1>2. body[ty][id] \in Body
  BY DEF Saved, TypeOK
<1>3. body[ty][id].expiresAt \in Nat
  BY <1>2 DEF Body
<1>. QED
  BY <1>1, <1>3 DEF StatusOf, Saved, Expired

\* A key that is dead for a call stays so: what was never saved, under an id that was,
\* never is.
LEMMA DeadForCall ==
    ASSUME TypeOK, TypeOK', IndexInv, [Next]_vars, NEW k \in Key,
           StatusOf(k[1], k[2]) # "live", \E ty \in Type : Saved(ty, k[2])
    PROVE  /\ StatusOf(k[1], k[2])' # "live" /\ \E ty \in Type : Saved(ty, k[2])'
           /\ Saved(k[1], k[2])' = Saved(k[1], k[2])
<1>1. k[1] \in Type /\ k[2] \in Id
  BY DEF Key
<1>2. \E ty \in Type : Saved(ty, k[2])'
  BY <1>1, TokensStay
<1>3. body'[k[1]][k[2]] = body[k[1]][k[2]]
  BY <1>1, HashesStay
<1>4. CASE Saved(k[1], k[2])
  BY <1>1, <1>2, <1>3, <1>4, TokensStay DEF Saved
<1>5. CASE ~Saved(k[1], k[2])
  BY <1>2, <1>3, <1>5 DEF StatusOf, Saved
<1>. QED
  BY <1>4, <1>5

-----------------------------------------------------------------------------
(* AnswerInv is inductive.                                                  *)

\* What a step does to what is dead for a call.
LEMMA DeadSteps ==
    ASSUME TypeOK, [Next]_vars, NEW q \in Proc
    PROVE  dead'[q] \in {dead[q], {}, DeadNow}
<1>. DEFINE Goal == dead'[q] \in {dead[q], {}, DeadNow}
<1>1. ASSUME NEW p \in Proc, NEW k, Begin(p, k) PROVE Goal
  BY <1>1 DEF Begin, TypeOK
<1>2. ASSUME NEW p \in Proc, Request(p) PROVE Goal
  <2>. HIDE DEF Goal
  <2>. QED
    BY <1>1, <1>2 DEF Request, FindOrSave, SaveRefreshOnly, Get, Revoke, List
<1>3. ASSUME NEW p \in Proc, Reply(p) PROVE Goal
  <2>1. ASSUME NEW ty \in Type,
               \/ ReadIndex(p, ty)
               \/ \E id \in Id : ReadCandidate(p, ty, id)
               \/ ArchiveStale(p, ty)
               \/ SaveToken(p, ty)
        PROVE  dead' = dead
    BY <2>1 DEF ReadIndex, ReadCandidate, ArchiveStale, SaveToken
  <2>2. ASSUME NEW id \in Id, ReadToken(p, id) \/ RevokeExpired(p, id) PROVE dead' = dead
    BY <2>2 DEF ReadToken, RevokeExpired
  <2>3. ASSUME NEW id \in Id, RevokeToken(p, id) PROVE Goal
    BY <2>3 DEF RevokeToken, TypeOK
  <2>4. ASSUME Return(p) PROVE Goal
    BY <2>4 DEF Return, TypeOK
  <2>5. ASSUME Decide(p) PROVE dead' = dead
    BY <2>5 DEF Decide
  <2>6. dead' = dead => Goal
    OBVIOUS
  <2>. HIDE DEF Goal
  <2>. QED
    BY <1>3, <2>1, <2>2, <2>3, <2>4, <2>5, <2>6 DEF Reply
<1>4. ASSUME NEW p \in Proc, Fault(p) PROVE Goal
  BY <1>4 DEF Fault, CommandError, CandidateError, GetError
<1>5. ASSUME Tick PROVE Goal
  BY <1>5 DEF Tick
<1>6. ASSUME UNCHANGED vars PROVE Goal
  BY <1>6 DEF vars
<1>. HIDE DEF Goal
<1>7. Goal
  BY <1>2, <1>3, <1>4, <1>5, <1>6 DEF Next
<1>. QED
  BY <1>7 DEF Goal

\* What was dead stays dead.
LEMMA DeadInductive ==
    ASSUME TypeOK, TypeOK', IndexInv, DeadStays, [Next]_vars
    PROVE  DeadStays'
<1>. SUFFICES ASSUME NEW q \in Proc, NEW k \in dead'[q]
              PROVE  StatusOf(k[1], k[2])' # "live" /\ \E ty \in Type : Saved(ty, k[2])'
  BY DEF DeadStays
<1>1. k \in Key
  BY DEF TypeOK, Key
<1>2. StatusOf(k[1], k[2]) # "live" /\ \E ty \in Type : Saved(ty, k[2])
  <2>1. CASE k \in dead[q]
    BY <2>1 DEF DeadStays
  <2>2. CASE k \in DeadNow
    <3>1. k[1] \in Type /\ k[2] \in Id
      BY <1>1 DEF Key
    <3>2. \E ty \in Type : Saved(ty, k[2])
      BY <2>2, <3>1 DEF DeadNow, Expired, IndexInv, StoreInv, ArchivedKnown
    <3>. QED
      BY <2>2, <3>2 DEF DeadNow, StatusOf
  <2>. QED
    BY <2>1, <2>2, DeadSteps
<1>. QED
  BY <1>1, <1>2, DeadForCall

\* What a step does to a lane: nothing, or it is reset, starts to read, reads, ends
\* what it was doing with what it has found, or is given a new id to save.
LaneStep(q, ty) ==
    LET l == lane[q][ty]
        m == lane'[q][ty]
    IN  \/ m = l /\ (dead'[q] \subseteq dead[q] \/ l = Off)
        \/ m.pc # "save" /\ m.hit = None /\ m.scan = {}
        \/ /\ l.pc = "index" /\ m.pc # "save" /\ m.hit = None /\ dead'[q] = dead[q]
           /\ m.scan = {id \in active[ty][call[q].consumer] : ~Expired(ty, id)}
        \/ /\ l.pc = "scan" /\ m.pc # "save" /\ m.scan \subseteq l.scan /\ dead'[q] = dead[q]
           /\ \/ m.hit = l.hit
              \/ m.pc \in {"archive", "found"} /\ m.hit \in l.scan
        \/ /\ m.pc \in {"found", "done", "failed"}
           /\ m.hit = l.hit /\ m.scan = l.scan /\ dead'[q] = dead[q]
        \/ /\ m.pc = "save" /\ m.hit \in Id \ Used
           /\ m.scan = l.scan /\ dead'[q] = dead[q]

\* SetLane sets that lane and no other.
LEMMA LaneSet ==
    ASSUME TypeOK, NEW p \in Proc, NEW ty \in Type, NEW l, SetLane(p, ty, l)
    PROVE  /\ lane'[p][ty] = l
           /\ \A q \in Proc, tz \in Type : q # p \/ tz # ty => lane'[q][tz] = lane[q][tz]
  BY DEF TypeOK, SetLane

\* A step that sets one lane and leaves what is dead alone.
LEMMA OneLane ==
    ASSUME TypeOK, NEW p \in Proc, NEW ty \in Type, NEW l, SetLane(p, ty, l), dead' = dead,
           LaneStep(p, ty), NEW q \in Proc, NEW tz \in Type
    PROVE  LaneStep(q, tz)
<1>1. CASE q = p /\ tz = ty
  BY <1>1
<1>2. CASE ~(q = p /\ tz = ty)
  BY <1>2, LaneSet DEF LaneStep
<1>. QED
  BY <1>1, <1>2

\* A call that begins finds its lanes off.
LEMMA LanesOff ==
    ASSUME TypeOK, IndexInv, NEW p \in Proc, NEW k, Begin(p, k)
    PROVE  /\ \A ty \in Type : lane[p][ty] = Off
           /\ \A q \in Proc : q # p => dead'[q] = dead[q]
  BY BeginClean DEF Begin, TypeOK

\* Every step does one of these to every lane.
LEMMA LaneSteps ==
    ASSUME TypeOK, TypeOK', IndexInv, [Next]_vars, NEW q \in Proc, NEW tz \in Type
    PROVE  LaneStep(q, tz)
<1>1. ASSUME UNCHANGED <<lane, dead>> PROVE LaneStep(q, tz)
  BY <1>1 DEF LaneStep
<1>2. ASSUME NEW p \in Proc, NEW k, Begin(p, k),
             \/ lane' = lane
             \/ \E L : /\ lane' = [lane EXCEPT ![p] = L]
                       /\ \A ty \in Type : L[ty].pc # "save" /\ L[ty].hit = None /\ L[ty].scan = {}
      PROVE  LaneStep(q, tz)
  <2>1. CASE q # p
    BY <1>2, <2>1, LanesOff DEF LaneStep, TypeOK
  <2>2. CASE q = p /\ lane' = lane
    BY <1>2, <2>2, LanesOff DEF LaneStep
  <2>3. CASE q = p /\ lane' # lane
    <3>1. lane'[p][tz].pc # "save" /\ lane'[p][tz].hit = None /\ lane'[p][tz].scan = {}
      BY <1>2, <2>3 DEF TypeOK
    <3>. QED
      BY <2>3, <3>1 DEF LaneStep
  <2>. QED
    BY <2>1, <2>2, <2>3
<1>3. ASSUME NEW p \in Proc, Request(p) PROVE LaneStep(q, tz)
  <2>1. ASSUME NEW c \in Consumer, NEW attrs \in SUBSET Attr, NEW refresh \in BOOLEAN,
               FindOrSave(p, c, attrs, refresh)
        PROVE  LaneStep(q, tz)
    <3>. DEFINE L == [ty \in Type |-> IF ty = "access_token" \/ refresh THEN Start ELSE Off]
    <3>1. \A ty \in Type : L[ty].pc # "save" /\ L[ty].hit = None /\ L[ty].scan = {}
      BY DEF Start, Off
    <3>2. lane' = [lane EXCEPT ![p] = L]
      BY <2>1 DEF FindOrSave
    <3>3. \E k : Begin(p, k)
      BY <2>1 DEF FindOrSave
    <3>. HIDE DEF L
    <3>. QED
      BY <1>2, <3>1, <3>2, <3>3
  <2>2. ASSUME NEW c \in Consumer, NEW attrs \in SUBSET Attr, SaveRefreshOnly(p, c, attrs)
        PROVE  LaneStep(q, tz)
    <3>. DEFINE L == [ty \in Type |-> IF ty = "refresh_token" THEN [Off EXCEPT !.pc = "found"] ELSE Off]
    <3>1. \A ty \in Type : L[ty].pc # "save" /\ L[ty].hit = None /\ L[ty].scan = {}
      BY DEF Off
    <3>2. lane' = [lane EXCEPT ![p] = L]
      BY <2>2 DEF SaveRefreshOnly
    <3>3. \E k : Begin(p, k)
      BY <2>2 DEF SaveRefreshOnly
    <3>. HIDE DEF L
    <3>. QED
      BY <1>2, <3>1, <3>2, <3>3
  <2>3. ASSUME NEW ty \in Type, NEW id \in Id, NEW past \in BOOLEAN, Get(p, ty, id, past)
        PROVE  LaneStep(q, tz)
    BY <1>2, <2>3 DEF Get
  <2>4. ASSUME NEW id \in Id, Revoke(p, id) PROVE LaneStep(q, tz)
    BY <1>2, <2>4 DEF Revoke
  <2>5. ASSUME NEW ty \in Type, NEW c \in Consumer, NEW past \in BOOLEAN, List(p, ty, c, past)
        PROVE  LaneStep(q, tz)
    BY <1>2, <2>5 DEF List
  <2>. QED
    BY <1>3, <2>1, <2>2, <2>3, <2>4, <2>5 DEF Request
<1>4. ASSUME NEW p \in Proc, NEW ty \in Type, ReadIndex(p, ty) PROVE LaneStep(q, tz)
  <2>. DEFINE ids == active[ty][call[p].consumer]
              live == {id \in ids : ~Expired(ty, id)}
              l == [Off EXCEPT
                      !.pc = IF live = {} THEN AfterScan(ids \ live) ELSE "scan",
                      !.scan = live, !.stale = ids \ live, !.seen = live]
  <2>1. SetLane(p, ty, l) /\ lane[p][ty].pc = "index" /\ dead' = dead
    BY <1>4 DEF ReadIndex
  <2>2. l.pc # "save" /\ l.hit = None /\ l.scan = live
    BY DEF Off, AfterScan
  <2>. HIDE DEF l
  <2>3. lane'[p][ty] = l
    BY <2>1, LaneSet
  <2>4. LaneStep(p, ty)
    BY <2>1, <2>2, <2>3 DEF LaneStep
  <2>. QED
    BY <2>1, <2>4, OneLane
<1>5. ASSUME NEW p \in Proc, NEW ty \in Type, NEW id \in Id, ReadCandidate(p, ty, id)
      PROVE  LaneStep(q, tz)
  <2>. DEFINE l == lane[p][ty]
              rest == l.scan \ {id}
              m == IF Match(ty, id, call[p].consumer, call[p].attrs)
                   THEN [l EXCEPT !.pc = AfterScan(l.stale), !.scan = {}, !.hit = id]
                   ELSE [l EXCEPT !.pc = IF rest = {} THEN AfterScan(l.stale) ELSE "scan",
                                  !.scan = rest]
  <2>1. SetLane(p, ty, m) /\ l.pc = "scan" /\ id \in l.scan /\ dead' = dead /\ l \in Lane
    BY <1>5 DEF ReadCandidate, TypeOK
  <2>2. /\ m.pc # "save" /\ m.scan \subseteq l.scan
        /\ m.hit = l.hit \/ (m.pc \in {"archive", "found"} /\ m.hit = id)
    <3>. HIDE DEF l
    <3>. QED
      BY <2>1 DEF Lane, AfterScan
  <2>3. lane'[p][ty] = m
    <3>. HIDE DEF m
    <3>. QED
      BY <2>1, LaneSet
  <2>. HIDE DEF m
  <2>4. LaneStep(p, ty)
    BY <2>1, <2>2, <2>3 DEF LaneStep
  <2>. QED
    BY <2>1, <2>4, OneLane
<1>6. ASSUME NEW p \in Proc, NEW ty \in Type, NEW id \in Id, CandidateError(p, ty, id)
      PROVE  LaneStep(q, tz)
  <2>. DEFINE l == lane[p][ty]
              rest == l.scan \ {id}
              m == [l EXCEPT !.scan = rest, !.seen = @ \ {id},
                             !.pc = IF rest = {} THEN AfterScan(l.stale) ELSE "scan"]
  <2>1. SetLane(p, ty, m) /\ l.pc = "scan" /\ dead' = dead /\ l \in Lane
    BY <1>6 DEF CandidateError, TypeOK
  <2>2. m.pc # "save" /\ m.scan \subseteq l.scan /\ m.hit = l.hit
    <3>. HIDE DEF l
    <3>. QED
      BY <2>1 DEF Lane, AfterScan
  <2>3. lane'[p][ty] = m
    <3>. HIDE DEF m
    <3>. QED
      BY <2>1, LaneSet
  <2>. HIDE DEF m
  <2>4. LaneStep(p, ty)
    BY <2>1, <2>2, <2>3 DEF LaneStep
  <2>. QED
    BY <2>1, <2>4, OneLane
<1>7. ASSUME NEW p \in Proc, NEW ty \in Type,
             ArchiveStale(p, ty) \/ SaveToken(p, ty) \/ CommandError(p, ty)
      PROVE  LaneStep(q, tz)
  <2>. DEFINE l == lane[p][ty]
  <2>1. dead' = dead /\ l \in Lane
    BY <1>7 DEF ArchiveStale, SaveToken, CommandError, TypeOK
  <2>2. PICK m : /\ SetLane(p, ty, m)
                 /\ \/ m = [l EXCEPT !.pc = "found", !.stale = {}]
                    \/ m = [l EXCEPT !.pc = "done", !.due = 0, !.seen = {}]
                    \/ m = [l EXCEPT !.pc = "failed"]
    BY <1>7 DEF ArchiveStale, SaveToken, CommandError
  <2>3. m.pc \in {"found", "done", "failed"} /\ m.hit = l.hit /\ m.scan = l.scan
    <3>. HIDE DEF l
    <3>. QED
      BY <2>1, <2>2 DEF Lane
  <2>4. LaneStep(p, ty)
    BY <2>1, <2>2, <2>3, LaneSet DEF LaneStep
  <2>. QED
    BY <2>1, <2>2, <2>4, OneLane
<1>8. ASSUME NEW p \in Proc, Decide(p) PROVE LaneStep(q, tz)
  <2>1. dead' = dead /\ lane[q][tz] \in Lane
    <3>1. dead' = dead
      BY <1>8 DEF Decide
    <3>. QED
      BY <3>1 DEF TypeOK
  <2>2. PICK fresh \in [Missing(p) -> Id \ Used] :
            lane' = [lane EXCEPT ![p] = [ty \in Type |->
               LET l == lane[p][ty]
               IN  IF ty \in Missing(p)
                   THEN [l EXCEPT !.pc = "save", !.hit = fresh[ty], !.due = now + TTL[ty]]
                   ELSE IF l.pc = "found" THEN [l EXCEPT !.pc = "done", !.seen = {}] ELSE l]]
    BY <1>8 DEF Decide
  <2>3. CASE q # p
    BY <2>1, <2>2, <2>3 DEF LaneStep, TypeOK
  <2>4. CASE q = p /\ tz \in Missing(p)
    <3>. DEFINE l == lane[p][tz]
                m == [l EXCEPT !.pc = "save", !.hit = fresh[tz], !.due = now + TTL[tz]]
    <3>1. lane'[p][tz] = m
      BY <2>2, <2>4 DEF TypeOK
    <3>2. m.pc = "save" /\ m.hit = fresh[tz] /\ m.scan = l.scan
      <4>1. l \in Lane
        BY <2>1, <2>4
      <4>. HIDE DEF l
      <4>. QED
        BY <4>1 DEF Lane
    <3>3. fresh[tz] \in Id \ Used
      BY <2>2, <2>4
    <3>. HIDE DEF m
    <3>. QED
      BY <2>1, <2>4, <3>1, <3>2, <3>3 DEF LaneStep
  <2>5. CASE q = p /\ tz \notin Missing(p) /\ lane[p][tz].pc = "found"
    <3>. DEFINE l == lane[p][tz]
                m == [l EXCEPT !.pc = "done", !.seen = {}]
    <3>1. lane'[p][tz] = m
      BY <2>2, <2>5 DEF TypeOK
    <3>2. m.pc = "done" /\ m.hit = l.hit /\ m.scan = l.scan
      <4>1. l \in Lane
        BY <2>1, <2>5
      <4>. HIDE DEF l
      <4>. QED
        BY <4>1 DEF Lane
    <3>. HIDE DEF m
    <3>. QED
      BY <2>1, <2>5, <3>1, <3>2 DEF LaneStep
  <2>6. CASE q = p /\ tz \notin Missing(p) /\ lane[p][tz].pc # "found"
    <3>1. lane'[p][tz] = lane[p][tz]
      BY <2>2, <2>6 DEF TypeOK
    <3>. QED
      BY <2>1, <2>6, <3>1 DEF LaneStep
  <2>. QED
    BY <2>3, <2>4, <2>5, <2>6
<1>9. ASSUME NEW p \in Proc, NEW id \in Id, RevokeToken(p, id) PROVE LaneStep(q, tz)
  <2>1. lane' = lane /\ dead'[q] \subseteq dead[q]
    BY <1>9 DEF RevokeToken, TypeOK
  <2>. QED
    BY <2>1 DEF LaneStep
<1>10. ASSUME NEW p \in Proc, Return(p) PROVE LaneStep(q, tz)
  <2>1. CASE q # p
    BY <1>10, <2>1 DEF Return, LaneStep, TypeOK
  <2>2. CASE q = p
    <3>1. lane'[q][tz] = Off
      BY <1>10, <2>2 DEF Return, TypeOK
    <3>. QED
      BY <3>1 DEF LaneStep, Off
  <2>. QED
    BY <2>1, <2>2
<1>11. ASSUME NEW p \in Proc, NEW id \in Id,
              ReadToken(p, id) \/ RevokeExpired(p, id) \/ GetError(p, id)
       PROVE  LaneStep(q, tz)
  BY <1>1, <1>11 DEF ReadToken, RevokeExpired, GetError
<1>12. ASSUME Tick \/ UNCHANGED vars PROVE LaneStep(q, tz)
  BY <1>1, <1>12 DEF Tick, vars
<1>13. ASSUME NEW p \in Proc, Reply(p) PROVE LaneStep(q, tz)
  <2>1. ASSUME NEW ty \in Type,
               \/ ReadIndex(p, ty)
               \/ \E id \in Id : ReadCandidate(p, ty, id)
               \/ ArchiveStale(p, ty)
               \/ SaveToken(p, ty)
        PROVE  LaneStep(q, tz)
    BY <1>4, <1>5, <1>7, <2>1
  <2>2. ASSUME NEW id \in Id, ReadToken(p, id) \/ RevokeExpired(p, id) \/ RevokeToken(p, id)
        PROVE  LaneStep(q, tz)
    BY <1>9, <1>11, <2>2
  <2>. QED
    BY <1>8, <1>10, <1>13, <2>1, <2>2 DEF Reply
<1>14. ASSUME NEW p \in Proc, Fault(p) PROVE LaneStep(q, tz)
  BY <1>6, <1>7, <1>11, <1>14 DEF Fault
<1>. QED
  BY <1>3, <1>12, <1>13, <1>14 DEF Next

\* Candidates stay good: they are read from the index, where no dead token is.
LEMMA CandidatesInductive ==
    ASSUME TypeOK, TypeOK', IndexInv, DeadStays, CandidatesGood, [Next]_vars
    PROVE  CandidatesGood'
<1>. SUFFICES ASSUME NEW q \in Proc, NEW ty \in Type, NEW id \in lane'[q][ty].scan
              PROVE  Saved(ty, id)' /\ <<ty, id>> \notin dead'[q]
  BY DEF CandidatesGood
<1>1. id \in Id
  BY DEF TypeOK, Lane
<1>2. \/ id \in lane[q][ty].scan /\ dead'[q] \subseteq dead[q]
      \/ /\ id \in active[ty][call[q].consumer] /\ ~Expired(ty, id)
         /\ lane[q][ty].pc = "index" /\ dead'[q] = dead[q]
  BY LaneSteps DEF LaneStep, Off
<1>3. Saved(ty, id) /\ <<ty, id>> \notin dead[q] /\ dead'[q] \subseteq dead[q]
  <2>1. CASE id \in lane[q][ty].scan /\ dead'[q] \subseteq dead[q]
    BY <2>1 DEF CandidatesGood
  <2>2. CASE /\ id \in active[ty][call[q].consumer] /\ ~Expired(ty, id)
             /\ lane[q][ty].pc = "index" /\ dead'[q] = dead[q]
    <3>1. call[q].consumer \in Consumer
      BY <2>2 DEF TypeOK
    <3>2. Saved(ty, id) /\ id \notin archived[ty]
      BY <1>1, <2>2, <3>1 DEF IndexInv, StoreInv, IndexConsistent
    <3>3. StatusOf(ty, id) = "live"
      BY <2>2, <3>2 DEF StatusOf
    <3>. QED
      BY <2>2, <3>2, <3>3 DEF DeadStays
  <2>. QED
    BY <1>2, <2>1, <2>2
<1>. QED
  BY <1>1, <1>3, TokensStay

\* Nothing is found before its time.
LEMMA FoundInductive ==
    ASSUME TypeOK, TypeOK', IndexInv, NothingFoundYet, [Next]_vars
    PROVE  NothingFoundYet'
<1>. SUFFICES ASSUME NEW q \in Proc, NEW ty \in Type, lane'[q][ty].pc \in {"off", "index", "scan"}
              PROVE  lane'[q][ty].hit = None
  BY DEF NothingFoundYet
<1>1. LaneStep(q, ty)
  BY LaneSteps
<1>. QED
  BY <1>1 DEF LaneStep, NothingFoundYet

\* Ids are drawn once.
LEMMA MintedInductive ==
    ASSUME TypeOK, TypeOK', IndexInv, IndexInv', CandidatesGood, MintedAlone, [Next]_vars
    PROVE  MintedAlone'
<1>. SUFFICES ASSUME NEW q \in Proc, NEW ty \in Type, lane'[q][ty].pc = "save",
                     NEW r \in Proc, NEW tz \in Type, lane'[r][tz].hit = lane'[q][ty].hit
              PROVE  r = q /\ tz = ty
  BY DEF MintedAlone
<1>. DEFINE i == lane'[q][ty].hit
<1>1. CASE lane'[r][tz].pc = "save"
  BY <1>1 DEF IndexInv, MintedFresh
<1>2. CASE lane'[r][tz].pc # "save"
  <2>1. i \in Id
    BY DEF TypeOK, Lane
  <2>2. \/ i \notin Used
        \/ lane[q][ty].pc = "save" /\ lane[q][ty].hit = i
    BY LaneSteps DEF LaneStep
  <2>3. \A tu \in Type : ~Saved(tu, i)
    BY <2>1, <2>2 DEF Used, IndexInv, MintedFresh
  <2>4. i = lane[r][tz].hit \/ i = None \/ i \in lane[r][tz].scan
    BY <1>2, LaneSteps DEF LaneStep
  <2>5. i # None
    BY <2>1, TokensAssumption
  <2>6. i \notin lane[r][tz].scan
    BY <2>3 DEF CandidatesGood
  <2>7. lane[r][tz].hit = i
    BY <2>4, <2>5, <2>6
  <2>8. lane[q][ty].pc = "save" /\ lane[q][ty].hit = i
    BY <2>1, <2>2, <2>7 DEF Used
  <2>. QED
    BY <2>7, <2>8 DEF MintedAlone
<1>. QED
  BY <1>1, <1>2

\* What a step has a get revoke is what it was to revoke already, or has expired.
LEMMA RevokingSteps ==
    ASSUME TypeOK, IndexInv, [Next]_vars, NEW q \in Proc, NEW id \in gets'[q].revoking
    PROVE  /\ call'[q].type = call[q].type
           /\ id \in gets[q].revoking \/ Expired(call[q].type, id)
<1>. DEFINE Goal == /\ call'[q].type = call[q].type
                    /\ id \in gets[q].revoking \/ Expired(call[q].type, id)
<1>1. ASSUME NEW p \in Proc, NEW k, Begin(p, k),
             \/ gets' = gets
             \/ \E ids : gets' = [gets EXCEPT ![p].reading = ids]
      PROVE  Goal
  <2>1. /\ gets[p] = NoGets /\ \A r \in Proc : r # p => call'[r] = call[r]
    BY <1>1, BeginClean
  <2>2. /\ gets'[p].revoking = {}
        /\ \A r \in Proc : r # p => gets'[r] = gets[r]
    <3>1. CASE gets' = gets
      BY <2>1, <3>1 DEF NoGets
    <3>2. ASSUME NEW ids, gets' = [gets EXCEPT ![p].reading = ids]
          PROVE  /\ gets'[p].revoking = {}
                 /\ \A r \in Proc : r # p => gets'[r] = gets[r]
      BY <2>1, <3>2 DEF NoGets, TypeOK
    <3>. QED
      BY <1>1, <3>1, <3>2
  <2>. QED
    BY <2>1, <2>2
<1>2. ASSUME NEW p \in Proc, Request(p) PROVE Goal
  <2>. HIDE DEF Goal
  <2>1. ASSUME NEW c \in Consumer, NEW attrs \in SUBSET Attr, NEW refresh \in BOOLEAN,
               FindOrSave(p, c, attrs, refresh)
        PROVE  Goal
    BY <1>1, <2>1 DEF FindOrSave
  <2>2. ASSUME NEW c \in Consumer, NEW attrs \in SUBSET Attr, SaveRefreshOnly(p, c, attrs)
        PROVE  Goal
    BY <1>1, <2>2 DEF SaveRefreshOnly
  <2>3. ASSUME NEW ty \in Type, NEW i \in Id, NEW past \in BOOLEAN, Get(p, ty, i, past)
        PROVE  Goal
    BY <1>1, <2>3 DEF Get
  <2>4. ASSUME NEW i \in Id, Revoke(p, i) PROVE Goal
    BY <1>1, <2>4 DEF Revoke
  <2>5. ASSUME NEW ty \in Type, NEW c \in Consumer, NEW past \in BOOLEAN, List(p, ty, c, past)
        PROVE  Goal
    BY <1>1, <2>5 DEF List
  <2>. QED
    BY <1>2, <2>1, <2>2, <2>3, <2>4, <2>5 DEF Request
<1>3. ASSUME UNCHANGED <<call, gets>> PROVE Goal
  BY <1>3
<1>4. ASSUME NEW p \in Proc, NEW i \in Id, ReadToken(p, i) PROVE Goal
  <2>1. call' = call /\ \A r \in Proc : r # p => gets'[r] = gets[r]
    BY <1>4 DEF ReadToken, TypeOK
  <2>2. gets'[p].revoking = IF Outcome(call[p].type, i, call[p].past) = "revoke"
                            THEN gets[p].revoking \cup {i} ELSE gets[p].revoking
    BY <1>4 DEF ReadToken, TypeOK
  <2>3. Outcome(call[p].type, i, call[p].past) = "revoke" => Expired(call[p].type, i)
    BY DEF Outcome
  <2>. QED
    BY <2>1, <2>2, <2>3
<1>5. ASSUME NEW p \in Proc, NEW i \in Id, RevokeExpired(p, i) \/ GetError(p, i) PROVE Goal
  <2>1. \A r \in Proc : call'[r].type = call[r].type
    <3>1. CASE RevokeExpired(p, i)
      BY <3>1 DEF RevokeExpired
    <3>2. CASE GetError(p, i)
      <4>. DEFINE k == call[p]
                  h == [k EXCEPT !.failed = TRUE]
      <4>1. call' = [call EXCEPT ![p] = h] /\ k \in Call
        BY <3>2 DEF GetError, TypeOK
      <4>2. h.type = k.type
        <5>. HIDE DEF k
        <5>. QED
          BY <4>1 DEF Call
      <4>. HIDE DEF h
      <4>. QED
        BY <4>1, <4>2 DEF TypeOK
    <3>. QED
      BY <1>5, <3>1, <3>2
  <2>2. \A r \in Proc : r # p => gets'[r] = gets[r]
    BY <1>5 DEF RevokeExpired, GetError, TypeOK
  <2>3. gets'[p].revoking = gets[p].revoking \ {i}
    <3>. DEFINE g == gets[p]
    <3>1. g \in Gets
      BY DEF TypeOK
    <3>2. PICK h : /\ gets' = [gets EXCEPT ![p] = h]
                   /\ \/ h = [g EXCEPT !.revoking = @ \ {i},
                                       !.got = IF call[p].past THEN @ \cup {i} ELSE @]
                      \/ h = [g EXCEPT !.reading = @ \ {i}, !.revoking = @ \ {i}]
      BY <1>5 DEF RevokeExpired, GetError
    <3>3. gets'[p] = h
      BY <3>2 DEF TypeOK
    <3>. HIDE DEF g
    <3>4. h.revoking = g.revoking \ {i}
      BY <3>1, <3>2 DEF Gets
    <3>. QED
      BY <3>3, <3>4 DEF g
  <2>. QED
    BY <2>1, <2>2, <2>3
<1>6. ASSUME NEW p \in Proc, (\E i \in Id : RevokeToken(p, i)) \/ Return(p) PROVE Goal
  <2>1. /\ gets'[p] = NoGets
        /\ \A r \in Proc : r # p => call'[r] = call[r] /\ gets'[r] = gets[r]
    BY <1>6 DEF RevokeToken, Return, TypeOK
  <2>. QED
    BY <2>1 DEF NoGets
<1>7. ASSUME NEW p \in Proc, NEW ty \in Type,
             \/ ReadIndex(p, ty)
             \/ \E i \in Id : ReadCandidate(p, ty, i) \/ CandidateError(p, ty, i)
             \/ ArchiveStale(p, ty)
             \/ SaveToken(p, ty)
             \/ CommandError(p, ty)
      PROVE  UNCHANGED <<call, gets>>
  BY <1>7 DEF ReadIndex, ReadCandidate, CandidateError, ArchiveStale, SaveToken, CommandError
<1>8. ASSUME NEW p \in Proc, Decide(p) PROVE UNCHANGED <<call, gets>>
  BY <1>8 DEF Decide
<1>9. ASSUME Tick \/ UNCHANGED vars PROVE UNCHANGED <<call, gets>>
  BY <1>9 DEF Tick, vars
<1>. HIDE DEF Goal
<1>10. ASSUME NEW p \in Proc, Reply(p) PROVE Goal
  <2>1. ASSUME NEW ty \in Type,
               \/ ReadIndex(p, ty)
               \/ \E i \in Id : ReadCandidate(p, ty, i)
               \/ ArchiveStale(p, ty)
               \/ SaveToken(p, ty)
        PROVE  Goal
    BY <1>3, <1>7, <2>1
  <2>2. ASSUME NEW i \in Id, ReadToken(p, i) \/ RevokeExpired(p, i) \/ RevokeToken(p, i)
        PROVE  Goal
    BY <1>4, <1>5, <1>6, <2>2
  <2>. QED
    BY <1>3, <1>6, <1>8, <1>10, <2>1, <2>2 DEF Reply
<1>11. ASSUME NEW p \in Proc, Fault(p) PROVE Goal
  BY <1>3, <1>5, <1>7, <1>11 DEF Fault
<1>12. Goal
  BY <1>2, <1>3, <1>9, <1>10, <1>11 DEF Next
<1>. QED
  BY <1>12 DEF Goal

\* What is being revoked stays expired.
LEMMA RevokingInductive ==
    ASSUME TypeOK, TypeOK', IndexInv, RevokingExpired, [Next]_vars
    PROVE  RevokingExpired'
<1>. SUFFICES ASSUME NEW q \in Proc, NEW id \in gets'[q].revoking
              PROVE  Expired(call[q].type, id)'
  BY DEF RevokingExpired
<1>1. id \in Id /\ call[q].type \in Type
  BY DEF TypeOK, Gets, Call
<1>2. call'[q].type = call[q].type /\ Expired(call[q].type, id)
  <2>1. /\ call'[q].type = call[q].type
        /\ id \in gets[q].revoking \/ Expired(call[q].type, id)
    BY RevokingSteps
  <2>. QED
    BY <2>1 DEF RevokingExpired
<1>3. PICK ty \in Type : ty = call[q].type /\ ty = call'[q].type
  BY <1>1, <1>2
<1>4. Expired(ty, id)'
  BY <1>1, <1>2, <1>3, TokensStay DEF Expired
<1>. QED
  BY <1>3, <1>4 DEF Expired, Saved

-----------------------------------------------------------------------------
(* What callers can see, before and after a step.                           *)

Good == TypeOK /\ IndexInv /\ AnswerInv

\* All of them together.
LEMMA AnswerInvInductive ==
    ASSUME Good, [Next]_vars, TypeOK', IndexInv'
    PROVE  AnswerInv'
  BY DeadInductive, CandidatesInductive, FoundInductive, MintedInductive, RevokingInductive
     DEF Good, AnswerInv

\* The status of tokens is what their hashes say.
LEMMA StatusSame ==
    ASSUME UNCHANGED <<body, archived, now>>
    PROVE  UNCHANGED St
  BY DEF St, Key, StatusOf, Saved, Expired

\* As long as nothing is saved, tokens at most die.
LEMMA StatusStays ==
    ASSUME Good, TypeOK', [Next]_vars, body' = body, NEW k \in Key
    PROVE  St'[k] = St[k] \/ (St[k] = "live" /\ St'[k] = "dead")
<1>1. k[1] \in Type /\ k[2] \in Id
  BY DEF Key
<1>2. St[k] = StatusOf(k[1], k[2]) /\ St'[k] = StatusOf(k[1], k[2])'
  BY DEF St
<1>3. Saved(k[1], k[2])' = Saved(k[1], k[2])
  BY DEF Saved
<1>4. CASE Saved(k[1], k[2])
  BY <1>1, <1>2, <1>3, <1>4, TokensStay DEF Good, StatusOf
<1>5. CASE ~Saved(k[1], k[2])
  BY <1>2, <1>3, <1>5 DEF StatusOf
<1>. QED
  BY <1>4, <1>5

\* Calls begin and end by their operation.
LEMMA CallingSame ==
    ASSUME \A q \in Proc : call'[q].op = call[q].op
    PROVE  UNCHANGED Cg
  BY DEF Cg

\* What a call may not answer stays the same while the call does.
LEMMA BarredSame ==
    ASSUME Good, TypeOK', [Next]_vars, NEW q \in Proc,
           call'[q].past = call[q].past, dead'[q] = dead[q]
    PROVE  Ba'[q] = Ba[q]
<1>1. ASSUME NEW k \in dead[q] PROVE Saved(k[1], k[2])' = Saved(k[1], k[2])
  <2>1. k \in Key
    BY DEF Good, TypeOK, Key
  <2>2. StatusOf(k[1], k[2]) # "live" /\ \E ty \in Type : Saved(ty, k[2])
    BY DEF Good, AnswerInv, DeadStays
  <2>. QED
    BY <2>1, <2>2, DeadForCall DEF Good
<1>. QED
  BY <1>1 DEF Ba

\* The same for all calls at once.
LEMMA BarredAllSame ==
    ASSUME Good, TypeOK', [Next]_vars, dead' = dead,
           \A q \in Proc : call'[q].past = call[q].past
    PROVE  UNCHANGED Ba
<1>1. \A q \in Proc : Ba'[q] = Ba[q]
  BY BarredSame
<1>. QED
  BY <1>1 DEF Ba

\* What a lane holds for its caller is the same, though it may hold a new id.
HitSame(q, ty) ==
    \/ lane'[q][ty].hit = lane[q][ty].hit
    \/ lane[q][ty].hit = None /\ ~Saved(ty, lane'[q][ty].hit)

\* A call that finds nothing and is given nothing has the same answer.
LEMMA AnswerSame ==
    ASSUME NEW q \in Proc, body' = body, call'[q].type = call[q].type,
           gets'[q].got = gets[q].got, \A ty \in Type : HitSame(q, ty)
    PROVE  An'[q] = An[q]
<1>1. ASSUME NEW k \in Type \X Id
      PROVE  (lane'[q][k[1]].hit = k[2] /\ Saved(k[1], k[2])')
               <=> (lane[q][k[1]].hit = k[2] /\ Saved(k[1], k[2]))
  <2>1. Saved(k[1], k[2])' = Saved(k[1], k[2])
    BY DEF Saved
  <2>2. HitSame(q, k[1]) /\ None # k[2]
    BY TokensAssumption
  <2>. QED
    BY <2>1, <2>2 DEF HitSame
<1>. QED
  BY <1>1 DEF An

\* A step that callers cannot see.
LEMMA Quiet ==
    ASSUME Good, TypeOK', [Next]_vars, UNCHANGED <<body, archived, now, dead>>,
           \A q \in Proc : /\ call'[q].op = call[q].op /\ call'[q].type = call[q].type
                           /\ call'[q].past = call[q].past
                           /\ gets'[q].got = gets[q].got
                           /\ \A ty \in Type : HitSame(q, ty)
    PROVE  UNCHANGED Lifecycle!vars
<1>1. \A q \in Proc : An'[q] = An[q]
  BY AnswerSame
<1>2. UNCHANGED An
  BY <1>1 DEF An
<1>3. UNCHANGED Ba
  BY BarredAllSame
<1>. QED
  BY <1>2, <1>3, StatusSame, CallingSame, MapStutter

\* Tokens die, and callers see no more.
LEMMA Dying ==
    ASSUME Good, TypeOK', [Next]_vars, UNCHANGED <<body, dead, call>>,
           \A q \in Proc : /\ gets'[q].got = gets[q].got
                           /\ \A ty \in Type : HitSame(q, ty)
    PROVE  Lifecycle!Next
<1>1. \A q \in Proc : An'[q] = An[q]
  BY AnswerSame
<1>2. UNCHANGED An
  BY <1>1 DEF An
<1>3. UNCHANGED Ba
  BY BarredAllSame
<1>4. UNCHANGED Cg
  BY CallingSame
<1>. QED
  BY <1>2, <1>3, <1>4, StatusStays, MapExpire

\* A call comes across the token k.
LEMMA Obtaining ==
    ASSUME Good, TypeOK', [Next]_vars, UNCHANGED <<body, dead, call, St>>,
           NEW p \in Proc, NEW k \in Key, call[p].op # "idle",
           Saved(k[1], k[2]), k \notin Ba[p], An'[p] = An[p] \cup {k},
           \A q \in Proc : q # p => /\ gets'[q].got = gets[q].got
                                    /\ \A ty \in Type : HitSame(q, ty)
    PROVE  Lifecycle!Next
<1>1. \A q \in Proc : q # p => An'[q] = An[q]
  BY AnswerSame
<1>2. An' = [An EXCEPT ![p] = @ \cup {k}]
  BY <1>1 DEF An
<1>3. UNCHANGED Ba
  BY BarredAllSame
<1>4. UNCHANGED Cg
  BY CallingSame
<1>5. St[k] # "unborn"
  BY DEF St, StatusOf
<1>6. p \in Cg
  BY DEF Cg
<1>. QED
  BY <1>2, <1>3, <1>4, <1>5, <1>6, MapObtain

\* A call begins.
LEMMA Beginning ==
    ASSUME Good, TypeOK', [Next]_vars, UNCHANGED <<now, store>>,
           NEW p \in Proc, NEW k \in Call, Begin(p, k), k.op # "idle",
           \A q \in Proc : q # p => lane'[q] = lane[q] /\ gets'[q].got = gets[q].got,
           \A ty \in Type : lane'[p][ty].hit = None, gets'[p].got = {}
    PROVE  Lifecycle!Next
<1>1. /\ \A ty \in Type : lane[p][ty] = Off
      /\ gets[p] = NoGets /\ call[p] = Idle
      /\ call'[p] = k /\ \A q \in Proc : q # p => call'[q] = call[q]
      /\ dead'[p] = DeadNow /\ \A q \in Proc : q # p => dead'[q] = dead[q]
      /\ k.past \in BOOLEAN
  <2>1. TypeOK /\ IndexInv
    BY DEF Good
  <2>2. /\ \A ty \in Type : lane[p][ty] = Off
        /\ gets[p] = NoGets
        /\ call'[p] = k /\ \A q \in Proc : q # p => call'[q] = call[q]
    BY <2>1, BeginClean
  <2>3. call[p] = Idle /\ dead' = [dead EXCEPT ![p] = DeadNow]
    BY DEF Begin
  <2>4. dead'[p] = DeadNow /\ \A q \in Proc : q # p => dead'[q] = dead[q]
    BY <2>1, <2>3 DEF TypeOK
  <2>5. k.past \in BOOLEAN
    BY DEF Call
  <2>. QED
    BY <2>2, <2>3, <2>4, <2>5
<1>2. body' = body /\ UNCHANGED St
  BY StatusSame DEF store
<1>3. p \notin Cg /\ Cg' = Cg \cup {p}
  BY <1>1 DEF Cg, Idle
<1>4. \A q \in Proc : q # p => Ba'[q] = Ba[q]
  BY <1>1, BarredSame
<1>5. Ba'[p] = IF k.past THEN {} ELSE {j \in Key : St[j] = "dead"}
  <2>1. \A j \in Key : St[j] = "dead" <=> j \in DeadNow /\ Saved(j[1], j[2])'
    BY <1>2 DEF St, StatusOf, DeadNow, Key, Saved
  <2>2. DeadNow \subseteq Key
    BY DEF DeadNow, Key
  <2>3. Ba'[p] = IF k.past THEN {} ELSE {j \in DeadNow : Saved(j[1], j[2])'}
    BY <1>1 DEF Ba
  <2>. QED
    BY <2>1, <2>2, <2>3
<1>6. Ba' = [Ba EXCEPT ![p] = IF k.past THEN {} ELSE {j \in Key : St[j] = "dead"}]
  BY <1>4, <1>5 DEF Ba
<1>7. \A q \in Proc : q # p => An'[q] = An[q]
  BY <1>1, <1>2, AnswerSame DEF HitSame
<1>8. An'[p] = An[p]
  BY <1>1, TokensAssumption DEF An, Off, NoGets
<1>9. UNCHANGED An
  BY <1>7, <1>8 DEF An
<1>. QED
  BY <1>1, <1>2, <1>3, <1>6, <1>9, MapBegin

\* A call ends.
LEMMA Ending ==
    ASSUME Good, TypeOK', [Next]_vars, body' = body, NEW p \in Proc, call[p].op # "idle",
           call' = [call EXCEPT ![p] = Idle], gets' = [gets EXCEPT ![p] = NoGets],
           dead' = [dead EXCEPT ![p] = {}],
           \A q \in Proc : q # p => lane'[q] = lane[q], \A ty \in Type : lane'[p][ty] = Off,
           St' = St \/ \E k \in An[p] : St' = [St EXCEPT ![k] = "dead"]
    PROVE  Lifecycle!Next
<1>1. /\ call'[p] = Idle /\ \A q \in Proc : q # p => call'[q] = call[q]
      /\ gets'[p] = NoGets /\ \A q \in Proc : q # p => gets'[q] = gets[q]
      /\ dead'[p] = {} /\ \A q \in Proc : q # p => dead'[q] = dead[q]
  BY DEF Good, TypeOK
<1>2. p \in Cg /\ Cg' = Cg \ {p}
  BY <1>1 DEF Cg, Idle
<1>3. \A q \in Proc : q # p => Ba'[q] = Ba[q]
  BY <1>1, BarredSame
<1>4. Ba'[p] = {}
  BY <1>1 DEF Ba
<1>5. Ba' = [Ba EXCEPT ![p] = {}]
  BY <1>3, <1>4 DEF Ba
<1>6. \A q \in Proc : q # p => An'[q] = An[q]
  BY <1>1, AnswerSame DEF HitSame
<1>7. An'[p] = {}
  BY <1>1, TokensAssumption DEF An, Off, NoGets
<1>8. An' = [An EXCEPT ![p] = {}]
  BY <1>6, <1>7 DEF An
<1>. QED
  BY <1>2, <1>5, <1>8, MapEnd

-----------------------------------------------------------------------------
(* Every step is a step of TokenLifecycle, or one that callers cannot see.  *)

\* The start of each kind of call.
LEMMA RequestMaps ==
    ASSUME Good, TypeOK', [Next]_vars, NEW p \in Proc, Request(p)
    PROVE  Lifecycle!Next
<1>1. ASSUME NEW k, Begin(p, k) PROVE k \in Call /\ k.op # "idle" => gets[p] = NoGets
  BY <1>1, BeginClean DEF Good
<1>2. ASSUME NEW c \in Consumer, NEW attrs \in SUBSET Attr, NEW refresh \in BOOLEAN,
             FindOrSave(p, c, attrs, refresh)
      PROVE  Lifecycle!Next
  <2>. DEFINE k == [Idle EXCEPT !.op = "findOrSave", !.consumer = c, !.attrs = attrs]
              L == [ty \in Type |-> IF ty = "access_token" \/ refresh THEN Start ELSE Off]
  <2>1. k \in Call /\ k.op # "idle"
    BY DEF Call, Idle, Type
  <2>2. /\ Begin(p, k) /\ lane' = [lane EXCEPT ![p] = L]
        /\ UNCHANGED <<now, store>> /\ gets' = gets
    BY <1>2 DEF FindOrSave
  <2>3. \A ty \in Type : L[ty].hit = None
    BY DEF Start, Off
  <2>. HIDE DEF k, L
  <2>4. \A ty \in Type : lane'[p][ty].hit = None
    BY <2>2, <2>3 DEF Good, TypeOK
  <2>5. \A q \in Proc : q # p => lane'[q] = lane[q] /\ gets'[q].got = gets[q].got
    BY <2>2 DEF Good, TypeOK
  <2>6. gets'[p].got = {}
    BY <1>1, <2>1, <2>2 DEF NoGets
  <2>. QED
    BY <2>1, <2>2, <2>4, <2>5, <2>6, Beginning
<1>3. ASSUME NEW c \in Consumer, NEW attrs \in SUBSET Attr, SaveRefreshOnly(p, c, attrs)
      PROVE  Lifecycle!Next
  <2>. DEFINE k == [Idle EXCEPT !.op = "findOrSave", !.consumer = c, !.attrs = attrs]
              L == [ty \in Type |-> IF ty = "refresh_token" THEN [Off EXCEPT !.pc = "found"] ELSE Off]
  <2>1. k \in Call /\ k.op # "idle"
    BY DEF Call, Idle, Type
  <2>2. /\ Begin(p, k) /\ lane' = [lane EXCEPT ![p] = L]
        /\ UNCHANGED <<now, store>> /\ gets' = gets
    BY <1>3 DEF SaveRefreshOnly
  <2>3. \A ty \in Type : L[ty].hit = None
    BY DEF Off
  <2>. HIDE DEF k, L
  <2>4. \A ty \in Type : lane'[p][ty].hit = None
    BY <2>2, <2>3 DEF Good, TypeOK
  <2>5. \A q \in Proc : q # p => lane'[q] = lane[q] /\ gets'[q].got = gets[q].got
    BY <2>2 DEF Good, TypeOK
  <2>6. gets'[p].got = {}
    BY <1>1, <2>1, <2>2 DEF NoGets
  <2>. QED
    BY <2>1, <2>2, <2>4, <2>5, <2>6, Beginning
<1>4. ASSUME NEW k \in Call, Begin(p, k), k.op # "idle", UNCHANGED <<now, store, lane>>,
             NEW ids, gets' = [gets EXCEPT ![p].reading = ids]
      PROVE  Lifecycle!Next
  <2>1. gets[p] = NoGets /\ \A ty \in Type : lane[p][ty] = Off
    BY <1>4, BeginClean DEF Good
  <2>2. gets'[p].got = {} /\ \A q \in Proc : q # p => gets'[q] = gets[q]
    BY <1>4, <2>1 DEF NoGets, Good, TypeOK
  <2>3. \A ty \in Type : lane'[p][ty].hit = None
    BY <1>4, <2>1 DEF Off
  <2>. QED
    BY <1>4, <2>2, <2>3, Beginning
<1>5. ASSUME NEW ty \in Type, NEW id \in Id, NEW past \in BOOLEAN, Get(p, ty, id, past)
      PROVE  Lifecycle!Next
  <2>. DEFINE k == [Idle EXCEPT !.op = "get", !.type = ty, !.past = past]
  <2>1. k \in Call /\ k.op # "idle"
    BY DEF Call, Idle
  <2>2. /\ Begin(p, k) /\ UNCHANGED <<now, store, lane>>
        /\ gets' = [gets EXCEPT ![p].reading = {id}]
    BY <1>5 DEF Get
  <2>. HIDE DEF k
  <2>. QED
    BY <1>4, <2>1, <2>2
<1>6. ASSUME NEW id \in Id, Revoke(p, id) PROVE Lifecycle!Next
  <2>. DEFINE k == [Idle EXCEPT !.op = "revoke"]
  <2>1. k \in Call /\ k.op # "idle"
    BY DEF Call, Idle, Type
  <2>2. /\ Begin(p, k) /\ UNCHANGED <<now, store, lane>>
        /\ gets' = [gets EXCEPT ![p].reading = {id}]
    BY <1>6 DEF Revoke
  <2>. HIDE DEF k
  <2>. QED
    BY <1>4, <2>1, <2>2
<1>7. ASSUME NEW ty \in Type, NEW c \in Consumer, NEW past \in BOOLEAN, List(p, ty, c, past)
      PROVE  Lifecycle!Next
  <2>. DEFINE k == [Idle EXCEPT !.op = "list", !.type = ty, !.past = past]
              ids == active[ty][c] \cup (IF past THEN expired[ty][c] ELSE {})
  <2>1. k \in Call /\ k.op # "idle"
    BY DEF Call, Idle
  <2>2. /\ Begin(p, k) /\ UNCHANGED <<now, store, lane>>
        /\ gets' = [gets EXCEPT ![p].reading = ids]
    BY <1>7 DEF List
  <2>. HIDE DEF k, ids
  <2>. QED
    BY <1>4, <2>1, <2>2
<1>. QED
  BY <1>2, <1>3, <1>5, <1>6, <1>7 DEF Request

\* The ends of calls.
LEMMA ReturnMaps ==
    ASSUME Good, TypeOK', [Next]_vars, NEW p \in Proc, Return(p)
    PROVE  Lifecycle!Next
<1>1. /\ call[p].op # "idle" /\ UNCHANGED <<now, body, archived>>
      /\ call' = [call EXCEPT ![p] = Idle] /\ gets' = [gets EXCEPT ![p] = NoGets]
      /\ dead' = [dead EXCEPT ![p] = {}]
      /\ lane' = [lane EXCEPT ![p] = [ty \in Type |-> Off]]
  BY DEF Return, store
<1>2. /\ \A q \in Proc : q # p => lane'[q] = lane[q]
      /\ \A ty \in Type : lane'[p][ty] = Off
  BY <1>1 DEF Good, TypeOK
<1>3. St' = St
  BY <1>1, StatusSame
<1>. QED
  BY <1>1, <1>2, <1>3, Ending

\* A revocation ends.
LEMMA RevokeTokenMaps ==
    ASSUME Good, TypeOK', [Next]_vars, NEW p \in Proc, NEW id \in Id, RevokeToken(p, id)
    PROVE  Lifecycle!Next
<1>. DEFINE k == <<"access_token", id>>
<1>1. /\ call[p].op = "revoke" /\ id \in gets[p].got /\ UNCHANGED <<now, body, lane>>
      /\ call' = [call EXCEPT ![p] = Idle] /\ gets' = [gets EXCEPT ![p] = NoGets]
      /\ dead' = [dead EXCEPT ![p] = {}]
      /\ archived' = [archived EXCEPT !["access_token"] = @ \cup {id}]
  BY DEF RevokeToken, Archive
<1>2. \A ty \in Type : lane[p][ty] = Off
  BY <1>1 DEF Good, IndexInv, CallsClean
<1>3. call[p].type = "access_token" /\ Saved("access_token", id)
  BY <1>1 DEF Good, IndexInv, CallsClean, GotSaved
<1>4. k \in Key /\ k \in An[p]
  BY <1>1, <1>3 DEF Key, An, Type
<1>5. \A ty \in Type : archived'[ty] = IF ty = "access_token" THEN archived[ty] \cup {id} ELSE archived[ty]
  BY <1>1 DEF Good, TypeOK
<1>6. \A j \in Key : St'[j] = IF j = k THEN "dead" ELSE St[j]
  <2>. SUFFICES ASSUME NEW ty \in Type, NEW i \in Id
                PROVE  StatusOf(ty, i)' = IF ty = "access_token" /\ i = id THEN "dead" ELSE StatusOf(ty, i)
    BY DEF St, Key
  <2>. QED
    BY <1>1, <1>3, <1>5 DEF StatusOf, Saved, Expired
<1>7. St' = [St EXCEPT ![k] = "dead"]
  <2>. HIDE DEF k
  <2>. QED
    BY <1>6 DEF St
<1>. QED
  BY <1>1, <1>2, <1>4, <1>7, Ending

\* The steps of a find and a save.
LEMMA SaveMaps ==
    ASSUME Good, TypeOK', [Next]_vars, NEW p \in Proc, NEW ty \in Type, SaveToken(p, ty)
    PROVE  Lifecycle!Next
<1>0. PICK i \in Id : i = lane[p][ty].hit
  BY DEF SaveToken, Good, TypeOK, Lane
<1>. DEFINE l == lane[p][ty]
            b == [consumer |-> call[p].consumer, attrs |-> call[p].attrs, expiresAt |-> l.due]
            m == [l EXCEPT !.pc = "done", !.due = 0, !.seen = {}]
            k == <<ty, i>>
<1>1. l \in Lane /\ l.pc = "save" /\ l.hit = i
  BY <1>0 DEF SaveToken, Good, TypeOK, Lane
<1>2. /\ body' = [body EXCEPT ![ty][i] = b] /\ SetLane(p, ty, m)
      /\ UNCHANGED <<now, archived, call, gets, dead>>
  BY <1>1 DEF SaveToken
<1>3. b \in Body /\ b # None
  <2>1. b \in Body
    BY <1>1 DEF Good, TypeOK, Lane, Call, Body
  <2>. QED
    BY <2>1, TokensAssumption
<1>4. m.hit = i
  <2>. HIDE DEF l
  <2>. QED
    BY <1>1 DEF Lane
<1>. HIDE DEF b, m
<1>5. \A tz \in Type, j \in Id : body'[tz][j] = IF tz = ty /\ j = i THEN b ELSE body[tz][j]
  BY <1>1, <1>2 DEF Good, TypeOK
<1>6. \A tz \in Type, j \in Id : Saved(tz, j)' <=> Saved(tz, j) \/ (tz = ty /\ j = i)
  BY <1>3, <1>5 DEF Saved
<1>7. ~Saved(ty, i)
  BY <1>0, <1>1 DEF Good, IndexInv, MintedFresh
<1>8. \A q \in Proc, tz \in Type : lane'[q][tz].hit = lane[q][tz].hit
  <2>1. lane'[p][ty] = m
    BY <1>2, LaneSet DEF Good
  <2>2. \A q \in Proc, tz \in Type : q # p \/ tz # ty => lane'[q][tz] = lane[q][tz]
    BY <1>2, LaneSet DEF Good
  <2>. QED
    BY <1>0, <1>4, <2>1, <2>2
<1>9. \A q \in Proc : lane[q][ty].hit = i <=> q = p
  BY <1>0, <1>1 DEF Good, AnswerInv, MintedAlone
<1>. HIDE DEF l
<1>10. \A q \in Proc, j \in Key :
         j \in An'[q] <=> j \in An[q] \/ (q = p /\ j = k)
  <2>. SUFFICES ASSUME NEW q \in Proc, NEW tz \in Type, NEW j \in Id
                PROVE  <<tz, j>> \in An'[q] <=> <<tz, j>> \in An[q] \/ (q = p /\ tz = ty /\ j = i)
    BY DEF Key
  <2>1. <<tz, j>> \in An'[q] <=> \/ lane'[q][tz].hit = j /\ Saved(tz, j)'
                                 \/ tz = call'[q].type /\ j \in gets'[q].got
    BY DEF An
  <2>2. <<tz, j>> \in An[q] <=> \/ lane[q][tz].hit = j /\ Saved(tz, j)
                                \/ tz = call[q].type /\ j \in gets[q].got
    BY DEF An
  <2>. QED
    BY <1>2, <1>6, <1>8, <1>9, <2>1, <2>2
<1>11. An' = [An EXCEPT ![p] = @ \cup {k}]
  <2>1. k \in Key
    BY <1>1 DEF Key
  <2>2. \A q \in Proc : An[q] \subseteq Key /\ An'[q] \subseteq Key
    BY DEF An, Key
  <2>3. \A q \in Proc : An'[q] = IF q = p THEN An[q] \cup {k} ELSE An[q]
    BY <1>10, <2>1, <2>2
  <2>. QED
    BY <2>3 DEF An
<1>12. PICK s \in {"live", "dead"} : StatusOf(ty, i)' = s
  BY <1>1, <1>6 DEF StatusOf
<1>13. St' = [St EXCEPT ![k] = s] /\ St[k] = "unborn" /\ k \in Key
  <2>1. \A tz \in Type, j \in Id :
          StatusOf(tz, j)' = IF tz = ty /\ j = i THEN s ELSE StatusOf(tz, j)
    BY <1>2, <1>5, <1>6, <1>12 DEF StatusOf, Expired
  <2>2. \A j \in Key : St'[j] = IF j = k THEN s ELSE St[j]
    BY <2>1 DEF St, Key
  <2>3. k \in Key /\ St[k] = "unborn"
    BY <1>1, <1>7 DEF Key, St, StatusOf
  <2>. QED
    BY <2>2, <2>3 DEF St
<1>14. p \in Cg
  BY <1>1 DEF Good, TypeOK, Cg, l
<1>15. UNCHANGED Cg /\ UNCHANGED Ba
  BY <1>2, CallingSame, BarredAllSame
<1>. QED
  BY <1>11, <1>13, <1>14, <1>15, MapIssue

\* Reading an index shows nothing yet.
LEMMA ReadIndexMaps ==
    ASSUME Good, TypeOK', [Next]_vars, NEW p \in Proc, NEW ty \in Type, ReadIndex(p, ty)
    PROVE  UNCHANGED Lifecycle!vars
<1>1. UNCHANGED <<now, store, call, gets, dead>> /\ lane[p][ty].pc = "index"
  BY DEF ReadIndex
<1>. DEFINE ids == active[ty][call[p].consumer]
            live == {id \in ids : ~Expired(ty, id)}
            m == [Off EXCEPT
                    !.pc = IF live = {} THEN AfterScan(ids \ live) ELSE "scan",
                    !.scan = live, !.stale = ids \ live, !.seen = live]
<1>2. SetLane(p, ty, m) /\ m.hit = None
  BY DEF ReadIndex, Off
<1>. HIDE DEF m
<1>3. lane[p][ty].hit = None
  BY <1>1 DEF Good, AnswerInv, NothingFoundYet
<1>4. \A q \in Proc, tz \in Type : HitSame(q, tz)
  BY <1>2, <1>3, LaneSet DEF Good, HitSame
<1>. QED
  BY <1>1, <1>4, Quiet DEF store

\* Setting a lane without changing its hit is not seen.
LEMMA SameHit ==
    ASSUME Good, NEW p \in Proc, NEW ty \in Type, NEW m, SetLane(p, ty, m),
           m.hit = lane[p][ty].hit, NEW q \in Proc, NEW tz \in Type
    PROVE  HitSame(q, tz)
  BY LaneSet DEF Good, HitSame

\* Reading a candidate finds a token, or nothing.
LEMMA ReadCandidateMaps ==
    ASSUME Good, TypeOK', [Next]_vars, NEW p \in Proc, NEW ty \in Type, NEW id \in Id,
           ReadCandidate(p, ty, id)
    PROVE  Lifecycle!Next \/ UNCHANGED Lifecycle!vars
<1>. DEFINE l == lane[p][ty]
            rest == l.scan \ {id}
            hit == [l EXCEPT !.pc = AfterScan(l.stale), !.scan = {}, !.hit = id]
            miss == [l EXCEPT !.pc = IF rest = {} THEN AfterScan(l.stale) ELSE "scan", !.scan = rest]
<1>1. /\ UNCHANGED <<now, store, call, gets, dead>> /\ l.pc = "scan" /\ id \in l.scan
      /\ l \in Lane
  BY DEF ReadCandidate, Good, TypeOK
<1>2. CASE ~Match(ty, id, call[p].consumer, call[p].attrs)
  <2>1. SetLane(p, ty, miss)
    BY <1>2 DEF ReadCandidate
  <2>2. miss.hit = l.hit
    <3>. HIDE DEF l
    <3>. QED
      BY <1>1 DEF Lane
  <2>. HIDE DEF miss
  <2>3. \A q \in Proc, tz \in Type : HitSame(q, tz)
    BY <2>1, <2>2, SameHit
  <2>. QED
    BY <1>1, <2>3, Quiet DEF store
<1>3. CASE Match(ty, id, call[p].consumer, call[p].attrs)
  <2>. DEFINE k == <<ty, id>>
  <2>1. SetLane(p, ty, hit)
    BY <1>3 DEF ReadCandidate
  <2>2. hit.hit = id
    <3>. HIDE DEF l
    <3>. QED
      BY <1>1 DEF Lane
  <2>. HIDE DEF hit
  <2>3. lane'[p][ty].hit = id
    BY <2>1, <2>2, LaneSet DEF Good
  <2>4. \A q \in Proc, tz \in Type : q # p \/ tz # ty => lane'[q][tz] = lane[q][tz]
    BY <2>1, LaneSet DEF Good
  <2>5. l.hit = None /\ Saved(ty, id) /\ k \notin dead[p] /\ k \in Key
    BY <1>1 DEF Good, AnswerInv, NothingFoundYet, CandidatesGood, Key
  <2>6. \A tz \in Type, j \in Id : <<tz, j>> \in An'[p] <=> <<tz, j>> \in An[p] \/ (tz = ty /\ j = id)
    <3>. SUFFICES ASSUME NEW tz \in Type, NEW j \in Id
                  PROVE  <<tz, j>> \in An'[p] <=> <<tz, j>> \in An[p] \/ (tz = ty /\ j = id)
      OBVIOUS
    <3>1. <<tz, j>> \in An'[p] <=> \/ lane'[p][tz].hit = j /\ Saved(tz, j)'
                                   \/ tz = call'[p].type /\ j \in gets'[p].got
      BY DEF An
    <3>2. <<tz, j>> \in An[p] <=> \/ lane[p][tz].hit = j /\ Saved(tz, j)
                                  \/ tz = call[p].type /\ j \in gets[p].got
      BY DEF An
    <3>3. Saved(tz, j)' = Saved(tz, j)
      BY <1>1 DEF Saved, store
    <3>4. None # j
      BY TokensAssumption
    <3>. QED
      BY <1>1, <2>3, <2>4, <2>5, <3>1, <3>2, <3>3, <3>4
  <2>7. An'[p] = An[p] \cup {k}
    <3>1. An[p] \subseteq Key /\ An'[p] \subseteq Key
      BY DEF An, Key
    <3>. QED
      BY <2>5, <2>6, <3>1 DEF Key
  <2>8. call[p].op # "idle" /\ k \notin Ba[p]
    BY <1>1, <2>5 DEF Good, TypeOK, Ba
  <2>9. \A q \in Proc : q # p => /\ gets'[q].got = gets[q].got
                                 /\ \A tz \in Type : HitSame(q, tz)
    BY <1>1, <2>4 DEF HitSame
  <2>10. UNCHANGED St
    BY <1>1, StatusSame DEF store
  <2>. QED
    BY <1>1, <2>5, <2>7, <2>8, <2>9, <2>10, Obtaining DEF store
<1>. QED
  BY <1>2, <1>3

\* An error shows nothing.
LEMMA LaneErrorMaps ==
    ASSUME Good, TypeOK', [Next]_vars, NEW p \in Proc, NEW ty \in Type,
           CommandError(p, ty) \/ \E id \in Id : CandidateError(p, ty, id)
    PROVE  UNCHANGED Lifecycle!vars
<1>. DEFINE l == lane[p][ty]
<1>1. UNCHANGED <<now, store, call, gets, dead>> /\ l \in Lane
  BY DEF CommandError, CandidateError, Good, TypeOK
<1>2. PICK m : SetLane(p, ty, m) /\ m.hit = l.hit
  <2>1. CASE CommandError(p, ty)
    <3>. DEFINE m == [l EXCEPT !.pc = "failed"]
    <3>1. SetLane(p, ty, m)
      BY <2>1 DEF CommandError
    <3>2. m.hit = l.hit
      <4>. HIDE DEF l
      <4>. QED
        BY <1>1 DEF Lane
    <3>. QED
      BY <3>1, <3>2
  <2>2. ASSUME NEW id \in Id, CandidateError(p, ty, id)
        PROVE  \E m : SetLane(p, ty, m) /\ m.hit = l.hit
    <3>. DEFINE rest == l.scan \ {id}
                m == [l EXCEPT !.scan = rest, !.seen = @ \ {id},
                               !.pc = IF rest = {} THEN AfterScan(l.stale) ELSE "scan"]
    <3>1. SetLane(p, ty, m)
      BY <2>2 DEF CandidateError
    <3>2. m.hit = l.hit
      <4>. HIDE DEF l
      <4>. QED
        BY <1>1 DEF Lane
    <3>. QED
      BY <3>1, <3>2
  <2>. QED
    BY <2>1, <2>2
<1>3. \A q \in Proc, tz \in Type : HitSame(q, tz)
  BY <1>2, SameHit
<1>. QED
  BY <1>1, <1>3, Quiet DEF store

\* Putting expired tokens away changes nothing but their place.
LEMMA ArchiveStaleMaps ==
    ASSUME Good, TypeOK', [Next]_vars, NEW p \in Proc, NEW ty \in Type, ArchiveStale(p, ty)
    PROVE  Lifecycle!Next
<1>. DEFINE l == lane[p][ty]
            m == [l EXCEPT !.pc = "found", !.stale = {}]
<1>1. /\ UNCHANGED <<body, call, gets, dead>> /\ l \in Lane /\ SetLane(p, ty, m)
  BY DEF ArchiveStale, Archive, Good, TypeOK
<1>2. m.hit = l.hit
  <2>. HIDE DEF l
  <2>. QED
    BY <1>1 DEF Lane
<1>. HIDE DEF m
<1>3. \A q \in Proc, tz \in Type : HitSame(q, tz)
  BY <1>1, <1>2, SameHit
<1>. QED
  BY <1>1, <1>3, Dying

\* A drawn id is not answered before its token is saved.
LEMMA DecideMaps ==
    ASSUME Good, TypeOK', [Next]_vars, NEW p \in Proc, Decide(p)
    PROVE  UNCHANGED Lifecycle!vars
<1>1. UNCHANGED <<now, store, call, gets, dead>>
  BY DEF Decide
<1>2. PICK fresh \in [Missing(p) -> Id \ Used] :
            lane' = [lane EXCEPT ![p] = [ty \in Type |->
               LET l == lane[p][ty]
               IN  IF ty \in Missing(p)
                   THEN [l EXCEPT !.pc = "save", !.hit = fresh[ty], !.due = now + TTL[ty]]
                   ELSE IF l.pc = "found" THEN [l EXCEPT !.pc = "done", !.seen = {}] ELSE l]]
  BY DEF Decide
<1>3. ASSUME NEW q \in Proc, NEW tz \in Type PROVE HitSame(q, tz)
  <2>1. CASE q # p
    BY <1>2, <2>1 DEF HitSame, Good, TypeOK
  <2>. DEFINE l == lane[p][tz]
  <2>2. l \in Lane
    BY DEF Good, TypeOK
  <2>3. CASE q = p /\ tz \in Missing(p)
    <3>. DEFINE m == [l EXCEPT !.pc = "save", !.hit = fresh[tz], !.due = now + TTL[tz]]
    <3>1. lane'[p][tz] = m
      BY <1>2, <2>3 DEF Good, TypeOK
    <3>2. m.hit = fresh[tz]
      <4>. HIDE DEF l
      <4>. QED
        BY <2>2 DEF Lane
    <3>3. l.hit = None /\ fresh[tz] \in Id \ Used
      BY <1>2, <2>3 DEF Missing
    <3>4. ~Saved(tz, fresh[tz])
      BY <3>3 DEF Used
    <3>. HIDE DEF m
    <3>. QED
      BY <2>3, <3>1, <3>2, <3>3, <3>4 DEF HitSame
  <2>4. CASE q = p /\ tz \notin Missing(p)
    <3>. DEFINE m == IF l.pc = "found" THEN [l EXCEPT !.pc = "done", !.seen = {}] ELSE l
    <3>1. lane'[p][tz] = m
      BY <1>2, <2>4 DEF Good, TypeOK
    <3>2. m.hit = l.hit
      <4>. HIDE DEF l
      <4>. QED
        BY <2>2 DEF Lane
    <3>. HIDE DEF m
    <3>. QED
      BY <2>4, <3>1, <3>2 DEF HitSame
  <2>. QED
    BY <2>1, <2>3, <2>4
<1>. QED
  BY <1>1, <1>3, Quiet DEF store

-----------------------------------------------------------------------------
(* The steps of the gets.                                                   *)

\* A get that adds its token to what the call got.
LEMMA Getting ==
    ASSUME Good, TypeOK', [Next]_vars, UNCHANGED <<body, dead, call, lane, St>>,
           NEW p \in Proc, NEW id \in Id, gets[p] # NoGets,
           gets'[p].got = gets[p].got \cup {id}, \A q \in Proc : q # p => gets'[q] = gets[q],
           Saved(call[p].type, id),
           call[p].past \/ StatusOf(call[p].type, id) = "live"
    PROVE  Lifecycle!Next
<1>1. PICK ty \in Type : ty = call[p].type
  BY DEF Good, TypeOK, Call
<1>. DEFINE k == <<ty, id>>
<1>2. k \in Key /\ Saved(ty, id) /\ k \notin Ba[p]
  BY <1>1 DEF Key, Ba, Good, AnswerInv, DeadStays
<1>3. call[p].op # "idle"
  BY DEF Good, IndexInv, CallsClean
<1>4. \A tz \in Type, j \in Id : <<tz, j>> \in An'[p] <=> <<tz, j>> \in An[p] \/ (tz = ty /\ j = id)
  <2>. SUFFICES ASSUME NEW tz \in Type, NEW j \in Id
                PROVE  <<tz, j>> \in An'[p] <=> <<tz, j>> \in An[p] \/ (tz = ty /\ j = id)
    OBVIOUS
  <2>1. <<tz, j>> \in An'[p] <=> \/ lane'[p][tz].hit = j /\ Saved(tz, j)'
                                 \/ tz = call'[p].type /\ j \in gets'[p].got
    BY DEF An
  <2>2. <<tz, j>> \in An[p] <=> \/ lane[p][tz].hit = j /\ Saved(tz, j)
                                \/ tz = call[p].type /\ j \in gets[p].got
    BY DEF An
  <2>3. Saved(tz, j)' = Saved(tz, j)
    BY DEF Saved
  <2>. QED
    BY <1>1, <2>1, <2>2, <2>3
<1>5. An'[p] = An[p] \cup {k}
  <2>1. An[p] \subseteq Key /\ An'[p] \subseteq Key
    BY DEF An, Key
  <2>. QED
    BY <1>2, <1>4, <2>1 DEF Key
<1>6. \A q \in Proc : q # p => /\ gets'[q].got = gets[q].got
                               /\ \A tz \in Type : HitSame(q, tz)
  BY DEF HitSame
<1>. QED
  BY <1>2, <1>3, <1>5, <1>6, Obtaining

\* A get comes upon a token, or not.
LEMMA ReadTokenMaps ==
    ASSUME Good, TypeOK', [Next]_vars, NEW p \in Proc, NEW id \in Id, ReadToken(p, id)
    PROVE  Lifecycle!Next \/ UNCHANGED Lifecycle!vars
<1>. DEFINE outcome == Outcome(call[p].type, id, call[p].past)
<1>1. /\ UNCHANGED <<now, store, call, lane, dead>>
      /\ gets[p] # NoGets
      /\ gets'[p].got = IF outcome = "token" THEN gets[p].got \cup {id} ELSE gets[p].got
      /\ \A q \in Proc : q # p => gets'[q] = gets[q]
  BY DEF ReadToken, NoGets, Good, TypeOK
<1>2. CASE outcome = "token"
  <2>1. Saved(call[p].type, id) /\ (call[p].past \/ StatusOf(call[p].type, id) = "live")
    BY <1>2 DEF Outcome, StatusOf
  <2>2. UNCHANGED St
    BY <1>1, StatusSame DEF store
  <2>. HIDE DEF outcome
  <2>. QED
    BY <1>1, <1>2, <2>1, <2>2, Getting DEF store
<1>3. CASE outcome # "token"
  <2>. HIDE DEF outcome
  <2>1. \A q \in Proc : gets'[q].got = gets[q].got /\ \A tz \in Type : HitSame(q, tz)
    BY <1>1, <1>3 DEF HitSame
  <2>. QED
    BY <1>1, <2>1, Quiet DEF store
<1>. QED
  BY <1>2, <1>3

\* A get puts an expired token away.
LEMMA RevokeExpiredMaps ==
    ASSUME Good, TypeOK', [Next]_vars, NEW p \in Proc, NEW id \in Id, RevokeExpired(p, id)
    PROVE  Lifecycle!Next
<1>. DEFINE g == gets[p]
            h == [g EXCEPT !.revoking = @ \ {id}, !.got = IF call[p].past THEN @ \cup {id} ELSE @]
<1>1. /\ UNCHANGED <<now, body, call, lane, dead>> /\ id \in g.revoking
      /\ archived' = [archived EXCEPT !["access_token"] = @ \cup {id}]
      /\ gets' = [gets EXCEPT ![p] = h] /\ g \in Gets
  BY DEF RevokeExpired, Archive, Good, TypeOK
<1>2. /\ gets'[p].got = IF call[p].past THEN gets[p].got \cup {id} ELSE gets[p].got
      /\ \A q \in Proc : q # p => gets'[q] = gets[q]
  <2>1. h.got = IF call[p].past THEN g.got \cup {id} ELSE g.got
    <3>. HIDE DEF g
    <3>. QED
      BY <1>1 DEF Gets
  <2>. HIDE DEF h
  <2>2. gets'[p] = h /\ \A q \in Proc : q # p => gets'[q] = gets[q]
    BY <1>1 DEF Good, TypeOK
  <2>. QED
    BY <2>1, <2>2
<1>3. CASE ~call[p].past
  <2>1. \A q \in Proc : gets'[q].got = gets[q].got /\ \A tz \in Type : HitSame(q, tz)
    BY <1>1, <1>2, <1>3 DEF HitSame
  <2>. QED
    BY <1>1, <2>1, Dying
<1>4. CASE call[p].past
  <2>1. Expired(call[p].type, id) /\ call[p].type \in Type
    BY <1>1 DEF Good, AnswerInv, RevokingExpired, TypeOK, Call
  <2>2. Saved("access_token", id) => Expired("access_token", id)
    BY <2>1 DEF Good, IndexInv, StoreInv, IdsUnique, Type, Expired
  <2>3. \A ty \in Type : archived'[ty] =
          IF ty = "access_token" THEN archived[ty] \cup {id} ELSE archived[ty]
    BY <1>1 DEF Good, TypeOK
  <2>4. \A ty \in Type, i \in Id : StatusOf(ty, i)' = StatusOf(ty, i)
    BY <1>1, <2>2, <2>3 DEF StatusOf, Saved, Expired
  <2>5. UNCHANGED St
    BY <2>4 DEF St, Key
  <2>6. g # NoGets
    BY <1>1 DEF NoGets
  <2>. QED
    BY <1>1, <1>2, <1>4, <2>1, <2>5, <2>6, Getting DEF Expired
<1>. QED
  BY <1>3, <1>4

\* A get that fails shows nothing.
LEMMA GetErrorMaps ==
    ASSUME Good, TypeOK', [Next]_vars, NEW p \in Proc, NEW id \in Id, GetError(p, id)
    PROVE  UNCHANGED Lifecycle!vars
<1>. DEFINE g == gets[p]
            h == [g EXCEPT !.reading = @ \ {id}, !.revoking = @ \ {id}]
            k == call[p]
            c == [k EXCEPT !.failed = TRUE]
<1>1. /\ UNCHANGED <<now, store, lane, dead>> /\ gets' = [gets EXCEPT ![p] = h]
      /\ call' = [call EXCEPT ![p] = c] /\ g \in Gets /\ k \in Call
  BY DEF GetError, Good, TypeOK
<1>2. \A q \in Proc : gets'[q].got = gets[q].got
  <2>1. h.got = g.got
    <3>. HIDE DEF g
    <3>. QED
      BY <1>1 DEF Gets
  <2>. HIDE DEF h
  <2>. QED
    BY <1>1, <2>1 DEF Good, TypeOK
<1>3. \A q \in Proc : /\ call'[q].op = call[q].op /\ call'[q].type = call[q].type
                      /\ call'[q].past = call[q].past
  <2>1. c.op = k.op /\ c.type = k.type /\ c.past = k.past
    <3>. HIDE DEF k
    <3>. QED
      BY <1>1 DEF Call
  <2>. HIDE DEF c
  <2>. QED
    BY <1>1, <2>1 DEF Good, TypeOK
<1>4. \A q \in Proc, tz \in Type : HitSame(q, tz)
  BY <1>1 DEF HitSame
<1>. QED
  BY <1>1, <1>2, <1>3, <1>4, Quiet DEF store

-----------------------------------------------------------------------------
\* Every step is a step of TokenLifecycle, or stutters there.
LEMMA StepMaps ==
    ASSUME Good, TypeOK', [Next]_vars
    PROVE  [Lifecycle!Next]_(Lifecycle!vars)
<1>1. ASSUME Tick PROVE Lifecycle!Next
  <2>1. UNCHANGED <<body, call, gets, dead, lane>>
    BY <1>1 DEF Tick, store
  <2>2. \A q \in Proc : gets'[q].got = gets[q].got /\ \A tz \in Type : HitSame(q, tz)
    BY <2>1 DEF HitSame
  <2>. QED
    BY <2>1, <2>2, Dying
<1>2. ASSUME UNCHANGED vars PROVE UNCHANGED Lifecycle!vars
  <2>1. UNCHANGED <<now, body, archived, call, gets, dead, lane>>
    BY <1>2 DEF vars, store
  <2>2. \A q \in Proc, tz \in Type : HitSame(q, tz)
    BY <2>1 DEF HitSame
  <2>. QED
    BY <2>1, <2>2, Quiet
<1>. DEFINE Goal == Lifecycle!Next \/ UNCHANGED Lifecycle!vars
<1>3. ASSUME NEW p \in Proc, Reply(p) PROVE Goal
  <2>1. ASSUME NEW ty \in Type,
               \/ ReadIndex(p, ty)
               \/ \E id \in Id : ReadCandidate(p, ty, id)
               \/ ArchiveStale(p, ty)
               \/ SaveToken(p, ty)
        PROVE  Goal
    BY <2>1, ReadIndexMaps, ReadCandidateMaps, ArchiveStaleMaps, SaveMaps
  <2>2. ASSUME NEW id \in Id, ReadToken(p, id) \/ RevokeExpired(p, id) \/ RevokeToken(p, id)
        PROVE  Goal
    BY <2>2, ReadTokenMaps, RevokeExpiredMaps, RevokeTokenMaps
  <2>3. ASSUME Decide(p) \/ Return(p) PROVE Goal
    BY <2>3, DecideMaps, ReturnMaps
  <2>. HIDE DEF Goal
  <2>. QED
    BY <1>3, <2>1, <2>2, <2>3 DEF Reply
<1>4. ASSUME NEW p \in Proc, Fault(p) PROVE Goal
  <2>1. ASSUME NEW ty \in Type, CommandError(p, ty) \/ \E id \in Id : CandidateError(p, ty, id)
        PROVE  Goal
    BY <2>1, LaneErrorMaps
  <2>2. ASSUME NEW id \in Id, GetError(p, id) PROVE Goal
    BY <2>2, GetErrorMaps
  <2>. HIDE DEF Goal
  <2>. QED
    BY <1>4, <2>1, <2>2 DEF Fault
<1>. QED
  BY <1>1, <1>2, <1>3, <1>4, RequestMaps DEF Next

\* The initial states are initial there.
LEMMA InitMaps ==
    ASSUME Init
    PROVE  Lifecycle!Init /\ AnswerInv
<1>1. AnswerInv
  BY TokensAssumption DEF Init, AnswerInv, DeadStays, CandidatesGood, NothingFoundYet, MintedAlone,
     RevokingExpired, Off, NoGets
<1>2. St = [k \in Key |-> "unborn"]
  BY DEF Init, St, StatusOf, Saved, Key
<1>3. Cg = {} /\ Ba = [p \in Proc |-> {}]
  BY DEF Init, Cg, Ba, Idle
<1>4. An = [p \in Proc |-> {}]
  BY TokensAssumption DEF Init, An, Off, NoGets
<1>. QED
  BY <1>1, <1>2, <1>3, <1>4 DEF Lifecycle!Init, St, Cg, Ba, An, Key

\* The token store implements TokenLifecycle, whatever the number of consumers, tokens
\* and concurrent calls, and whichever commands fail: a token that had died when a call
\* began is answered only to a call that asks for expired tokens too, and no token
\* comes back from the dead.
THEOREM StoreImplementsLifecycle == Spec => ImplementsLifecycle
<1>1. Spec => []AnswerInv
  <2>1. Init => AnswerInv
    BY InitMaps
  <2>2. TypeOK /\ IndexInv /\ TypeOK' /\ IndexInv' /\ AnswerInv /\ [Next]_vars => AnswerInv'
    BY AnswerInvInductive DEF Good
  <2>. QED
    BY <2>1, <2>2, Typing, IndexInvariant, PTL DEF Spec
<1>2. Init => Lifecycle!Init
  BY InitMaps
<1>3. TypeOK /\ IndexInv /\ AnswerInv /\ TypeOK' /\ [Next]_vars => [Lifecycle!Next]_(Lifecycle!vars)
  BY StepMaps DEF Good
<1>. QED
  BY <1>1, <1>2, <1>3, Typing, IndexInvariant, PTL DEF Spec, ImplementsLifecycle, Lifecycle!Spec

-----------------------------------------------------------------------------
(***************************************************************************)
(* What a find has rejected.  That a call about to save has seen no match  *)
(* is kept because every candidate that it listed was saved then, and is   *)
(* either still to be read or was read and rejected; the hash of a saved   *)
(* token never changes, so what was rejected is so for good.               *)
(***************************************************************************)

\* A lane with state l that searches for a token of consumer c with attrs.
SearchSound(l, ty, c, attrs) ==
    /\ \A id \in l.seen : Saved(ty, id)
    /\ l.pc \in {"archive", "found", "save"} => l.scan = {}
    /\ l.pc = "save" \/ (l.pc \in {"scan", "archive", "found"} /\ l.hit = None) =>
           \A id \in l.seen \ l.scan : ~Match(ty, id, c, attrs)

SearchInv ==
    \A p \in Proc, ty \in Type :
        SearchSound(lane[p][ty], ty, call[p].consumer, call[p].attrs)

\* A lane that has listed nothing has rejected nothing.
LEMMA EmptySearch ==
    ASSUME NEW l, NEW ty, NEW c, NEW attrs, l.seen = {}, l.scan = {}
    PROVE  SearchSound(l, ty, c, attrs)
  BY DEF SearchSound

\* Whatever happens to the store, a lane that stays as it is stays sound.
LEMMA SoundStays ==
    ASSUME TypeOK, TypeOK', IndexInv, [Next]_vars,
           NEW l \in Lane, NEW ty \in Type, NEW c, NEW attrs, SearchSound(l, ty, c, attrs)
    PROVE  SearchSound(l, ty, c, attrs)'
<1>1. ASSUME NEW id \in l.seen
      PROVE  Saved(ty, id)' /\ (Match(ty, id, c, attrs)' <=> Match(ty, id, c, attrs))
  <2>1. id \in Id /\ Saved(ty, id)
    BY DEF Lane, SearchSound
  <2>2. body'[ty][id] = body[ty][id]
    BY <2>1, HashesStay
  <2>. QED
    BY <2>1, <2>2 DEF Saved, Match
<1>. QED
  BY <1>1 DEF SearchSound

\* A step that sets one lane and leaves the calls.
LEMMA OneSearch ==
    ASSUME TypeOK, SearchInv, NEW p \in Proc, NEW ty \in Type, NEW m, SetLane(p, ty, m),
           call' = call, SearchSound(m, ty, call[p].consumer, call[p].attrs),
           NEW q \in Proc, NEW tz \in Type
    PROVE  SearchSound(lane'[q][tz], tz, call'[q].consumer, call'[q].attrs)
<1>1. CASE q = p /\ tz = ty
  BY <1>1, LaneSet
<1>2. CASE ~(q = p /\ tz = ty)
  <2>1. lane'[q][tz] = lane[q][tz]
    BY <1>2, LaneSet
  <2>. QED
    BY <2>1 DEF SearchInv
<1>. QED
  BY <1>1, <1>2

\* The find lists what is in the index and has not expired, all of which was saved.
LEMMA ReadIndexSearch ==
    ASSUME TypeOK, IndexInv, SearchInv, NEW p \in Proc, NEW ty \in Type, ReadIndex(p, ty),
           NEW q \in Proc, NEW tz \in Type
    PROVE  SearchSound(lane'[q][tz], tz, call'[q].consumer, call'[q].attrs)
<1>. DEFINE ids == active[ty][call[p].consumer]
            live == {id \in ids : ~Expired(ty, id)}
            m == [Off EXCEPT
                    !.pc = IF live = {} THEN AfterScan(ids \ live) ELSE "scan",
                    !.scan = live, !.stale = ids \ live, !.seen = live]
<1>1. SetLane(p, ty, m) /\ call' = call /\ call[p].consumer \in Consumer
  BY DEF ReadIndex, TypeOK
<1>2. m.seen = live /\ m.scan = live /\ (m.pc # "scan" => live = {}) /\ m.pc # "save"
  BY DEF Off, AfterScan
<1>3. \A id \in live : Saved(ty, id)
  BY <1>1 DEF IndexInv, StoreInv, IndexConsistent, TypeOK
<1>. HIDE DEF m, live
<1>4. SearchSound(m, ty, call[p].consumer, call[p].attrs)
  BY <1>2, <1>3 DEF SearchSound
<1>. QED
  BY <1>1, <1>4, OneSearch

\* A candidate that is read is the one found, or is rejected.
LEMMA ReadCandidateSearch ==
    ASSUME TypeOK, SearchInv, NEW p \in Proc, NEW ty \in Type, NEW id \in Id,
           ReadCandidate(p, ty, id), NEW q \in Proc, NEW tz \in Type
    PROVE  SearchSound(lane'[q][tz], tz, call'[q].consumer, call'[q].attrs)
<1>. DEFINE l == lane[p][ty]
            rest == l.scan \ {id}
            c == call[p].consumer
            attrs == call[p].attrs
            m == IF Match(ty, id, c, attrs)
                 THEN [l EXCEPT !.pc = AfterScan(l.stale), !.scan = {}, !.hit = id]
                 ELSE [l EXCEPT !.pc = IF rest = {} THEN AfterScan(l.stale) ELSE "scan",
                                !.scan = rest]
<1>1. SetLane(p, ty, m) /\ call' = call /\ l.pc = "scan" /\ l \in Lane
  BY DEF ReadCandidate, TypeOK
<1>2. SearchSound(l, ty, c, attrs)
  BY DEF SearchInv
<1>3. SearchSound(m, ty, c, attrs)
  <2>1. CASE Match(ty, id, c, attrs)
    <3>1. m.hit # None /\ m.scan = {} /\ m.pc \in {"archive", "found"} /\ m.seen = l.seen
      <4>. HIDE DEF l
      <4>. QED
        BY <1>1, <2>1, TokensAssumption DEF Lane, AfterScan
    <3>. HIDE DEF m, l
    <3>. QED
      BY <1>2, <3>1 DEF SearchSound
  <2>2. CASE ~Match(ty, id, c, attrs)
    <3>1. /\ m.hit = l.hit /\ m.scan = l.scan \ {id} /\ m.seen = l.seen /\ m.pc # "save"
          /\ m.pc # "scan" => m.scan = {}
      <4>. HIDE DEF l
      <4>. QED
        BY <1>1, <2>2 DEF Lane, AfterScan
    <3>. HIDE DEF m, l
    <3>. QED
      BY <1>1, <1>2, <2>2, <3>1 DEF SearchSound
  <2>. QED
    BY <2>1, <2>2
<1>. HIDE DEF m
<1>. QED
  BY <1>1, <1>3, OneSearch

\* A candidate that cannot be read is no longer among those seen.
LEMMA CandidateErrorSearch ==
    ASSUME TypeOK, SearchInv, NEW p \in Proc, NEW ty \in Type, NEW id \in Id,
           CandidateError(p, ty, id), NEW q \in Proc, NEW tz \in Type
    PROVE  SearchSound(lane'[q][tz], tz, call'[q].consumer, call'[q].attrs)
<1>. DEFINE l == lane[p][ty]
            rest == l.scan \ {id}
            m == [l EXCEPT !.scan = rest, !.seen = @ \ {id},
                           !.pc = IF rest = {} THEN AfterScan(l.stale) ELSE "scan"]
<1>1. SetLane(p, ty, m) /\ call' = call /\ l.pc = "scan" /\ l \in Lane
  BY DEF CandidateError, TypeOK
<1>2. SearchSound(l, ty, call[p].consumer, call[p].attrs)
  BY DEF SearchInv
<1>3. /\ m.hit = l.hit /\ m.scan = l.scan \ {id} /\ m.seen = l.seen \ {id} /\ m.pc # "save"
      /\ m.pc # "scan" => m.scan = {}
  <2>. HIDE DEF l
  <2>. QED
    BY <1>1 DEF Lane, AfterScan
<1>. HIDE DEF m, l
<1>4. SearchSound(m, ty, call[p].consumer, call[p].attrs)
  BY <1>1, <1>2, <1>3 DEF SearchSound
<1>. QED
  BY <1>1, <1>4, OneSearch

\* Archiving, saving and failing reject nothing and list nothing.
LEMMA CommandSearch ==
    ASSUME TypeOK, SearchInv, NEW p \in Proc, NEW ty \in Type,
           ArchiveStale(p, ty) \/ SaveToken(p, ty) \/ CommandError(p, ty),
           NEW q \in Proc, NEW tz \in Type
    PROVE  SearchSound(lane'[q][tz], tz, call'[q].consumer, call'[q].attrs)
<1>. DEFINE l == lane[p][ty]
<1>1. call' = call /\ l \in Lane
  BY DEF ArchiveStale, SaveToken, CommandError, TypeOK
<1>2. SearchSound(l, ty, call[p].consumer, call[p].attrs)
  BY DEF SearchInv
<1>3. PICK m : /\ SetLane(p, ty, m)
               /\ \/ l.pc = "archive" /\ m = [l EXCEPT !.pc = "found", !.stale = {}]
                  \/ m = [l EXCEPT !.pc = "done", !.due = 0, !.seen = {}]
                  \/ m = [l EXCEPT !.pc = "failed"]
  BY DEF ArchiveStale, SaveToken, CommandError
<1>. HIDE DEF l
<1>4. /\ m.hit = l.hit /\ m.scan = l.scan /\ m.seen \subseteq l.seen
      /\ \/ m.pc \in {"done", "failed"}
         \/ l.pc = "archive" /\ m.pc = "found"
  BY <1>1, <1>3 DEF Lane
<1>5. SearchSound(m, ty, call[p].consumer, call[p].attrs)
  BY <1>2, <1>4 DEF SearchSound
<1>. QED
  BY <1>1, <1>3, <1>5, OneSearch

\* What is minted is so because nothing was found, and the search is over.
LEMMA DecideSearch ==
    ASSUME TypeOK, SearchInv, NEW p \in Proc, Decide(p), NEW q \in Proc, NEW tz \in Type
    PROVE  SearchSound(lane'[q][tz], tz, call'[q].consumer, call'[q].attrs)
<1>. DEFINE l == lane[q][tz]
<1>1. call' = call /\ l \in Lane
  <2>1. call' = call
    BY DEF Decide
  <2>. QED
    BY <2>1 DEF TypeOK
<1>2. SearchSound(l, tz, call[q].consumer, call[q].attrs)
  BY DEF SearchInv
<1>3. PICK fresh \in [Missing(p) -> Id \ Used] :
          lane' = [lane EXCEPT ![p] = [ty \in Type |->
             LET l0 == lane[p][ty]
             IN  IF ty \in Missing(p)
                 THEN [l0 EXCEPT !.pc = "save", !.hit = fresh[ty], !.due = now + TTL[ty]]
                 ELSE IF l0.pc = "found" THEN [l0 EXCEPT !.pc = "done", !.seen = {}] ELSE l0]]
  BY DEF Decide
<1>4. CASE q # p \/ (tz \notin Missing(p) /\ l.pc # "found")
  <2>1. lane'[q][tz] = l
    BY <1>3, <1>4 DEF TypeOK
  <2>. QED
    BY <1>1, <1>2, <2>1
<1>5. CASE q = p /\ tz \in Missing(p)
  <2>. DEFINE m == [l EXCEPT !.pc = "save", !.hit = fresh[tz], !.due = now + TTL[tz]]
  <2>1. lane'[q][tz] = m
    BY <1>3, <1>5 DEF TypeOK
  <2>2. l.pc = "found" /\ l.hit = None
    BY <1>5 DEF Missing
  <2>3. m.pc = "save" /\ m.scan = l.scan /\ m.seen = l.seen
    <3>. HIDE DEF l
    <3>. QED
      BY <1>1 DEF Lane
  <2>. HIDE DEF m, l
  <2>4. SearchSound(m, tz, call[q].consumer, call[q].attrs)
    BY <1>2, <2>2, <2>3 DEF SearchSound
  <2>. QED
    BY <1>1, <2>1, <2>4
<1>6. CASE q = p /\ tz \notin Missing(p) /\ l.pc = "found"
  <2>. DEFINE m == [l EXCEPT !.pc = "done", !.seen = {}]
  <2>1. lane'[q][tz] = m
    BY <1>3, <1>6 DEF TypeOK
  <2>2. m.pc = "done" /\ m.seen = {}
    <3>. HIDE DEF l
    <3>. QED
      BY <1>1 DEF Lane
  <2>. HIDE DEF m
  <2>3. SearchSound(m, tz, call[q].consumer, call[q].attrs)
    BY <2>2 DEF SearchSound
  <2>. QED
    BY <1>1, <2>1, <2>3
<1>. QED
  BY <1>4, <1>5, <1>6

\* A call that begins finds its lanes off, and starts to search or does not.
LEMMA RequestSearch ==
    ASSUME TypeOK, IndexInv, SearchInv, NEW p \in Proc, Request(p),
           NEW q \in Proc, NEW tz \in Type
    PROVE  SearchSound(lane'[q][tz], tz, call'[q].consumer, call'[q].attrs)
<1>. DEFINE Goal == SearchSound(lane'[q][tz], tz, call'[q].consumer, call'[q].attrs)
<1>1. ASSUME NEW k, Begin(p, k),
             \/ lane' = lane
             \/ \E L : /\ lane' = [lane EXCEPT ![p] = L]
                       /\ \A ty \in Type : L[ty].seen = {} /\ L[ty].scan = {}
      PROVE  Goal
  <2>1. CASE q # p
    <3>1. lane'[q] = lane[q] /\ call'[q] = call[q]
      BY <1>1, <2>1, BeginClean DEF TypeOK
    <3>. QED
      BY <3>1 DEF SearchInv
  <2>2. CASE q = p
    <3>1. lane[p][tz].seen = {} /\ lane[p][tz].scan = {}
      BY <1>1, BeginClean DEF Off
    <3>2. lane'[p][tz].seen = {} /\ lane'[p][tz].scan = {}
      BY <1>1, <3>1 DEF TypeOK
    <3>. QED
      BY <2>2, <3>2, EmptySearch
  <2>. QED
    BY <2>1, <2>2
<1>. HIDE DEF Goal
<1>2. ASSUME NEW c \in Consumer, NEW attrs \in SUBSET Attr, NEW refresh \in BOOLEAN,
             FindOrSave(p, c, attrs, refresh)
      PROVE  Goal
  <2>. DEFINE L == [ty \in Type |-> IF ty = "access_token" \/ refresh THEN Start ELSE Off]
  <2>1. \A ty \in Type : L[ty].seen = {} /\ L[ty].scan = {}
    BY DEF Start, Off
  <2>2. lane' = [lane EXCEPT ![p] = L] /\ \E k : Begin(p, k)
    BY <1>2 DEF FindOrSave
  <2>. HIDE DEF L
  <2>. QED
    BY <1>1, <2>1, <2>2
<1>3. ASSUME NEW c \in Consumer, NEW attrs \in SUBSET Attr, SaveRefreshOnly(p, c, attrs)
      PROVE  Goal
  <2>. DEFINE L == [ty \in Type |-> IF ty = "refresh_token" THEN [Off EXCEPT !.pc = "found"] ELSE Off]
  <2>1. \A ty \in Type : L[ty].seen = {} /\ L[ty].scan = {}
    BY DEF Off
  <2>2. lane' = [lane EXCEPT ![p] = L] /\ \E k : Begin(p, k)
    BY <1>3 DEF SaveRefreshOnly
  <2>. HIDE DEF L
  <2>. QED
    BY <1>1, <2>1, <2>2
<1>4. ASSUME NEW ty \in Type, NEW id \in Id, NEW past \in BOOLEAN, Get(p, ty, id, past)
      PROVE  Goal
  BY <1>1, <1>4 DEF Get
<1>5. ASSUME NEW id \in Id, Revoke(p, id) PROVE Goal
  BY <1>1, <1>5 DEF Revoke
<1>6. ASSUME NEW ty \in Type, NEW c \in Consumer, NEW past \in BOOLEAN, List(p, ty, c, past)
      PROVE  Goal
  BY <1>1, <1>6 DEF List
<1>7. Goal
  BY <1>2, <1>3, <1>4, <1>5, <1>6 DEF Request
<1>. QED
  BY <1>7 DEF Goal

\* The other steps leave the lanes as they are, or turn them off.
LEMMA OtherSearch ==
    ASSUME TypeOK, IndexInv, SearchInv, NEW q \in Proc, NEW tz \in Type,
           \/ Tick \/ UNCHANGED vars
           \/ \E p \in Proc : Return(p)
           \/ \E p \in Proc, id \in Id :
                ReadToken(p, id) \/ RevokeExpired(p, id) \/ RevokeToken(p, id) \/ GetError(p, id)
    PROVE  SearchSound(lane'[q][tz], tz, call'[q].consumer, call'[q].attrs)
<1>. DEFINE Goal == SearchSound(lane'[q][tz], tz, call'[q].consumer, call'[q].attrs)
<1>1. ASSUME UNCHANGED <<lane, call>> PROVE Goal
  BY <1>1 DEF SearchInv
<1>2. ASSUME NEW p \in Proc, Return(p) PROVE Goal
  <2>1. CASE q # p
    <3>1. lane'[q] = lane[q] /\ call'[q] = call[q]
      BY <1>2, <2>1 DEF Return, TypeOK
    <3>. QED
      BY <3>1 DEF SearchInv
  <2>2. CASE q = p
    <3>1. lane'[q][tz].seen = {} /\ lane'[q][tz].scan = {}
      BY <1>2, <2>2 DEF Return, TypeOK, Off
    <3>. QED
      BY <3>1, EmptySearch
  <2>. QED
    BY <2>1, <2>2
<1>3. ASSUME NEW p \in Proc, NEW id \in Id, RevokeToken(p, id) PROVE Goal
  <2>1. CASE q # p
    <3>1. lane'[q] = lane[q] /\ call'[q] = call[q]
      BY <1>3, <2>1 DEF RevokeToken, TypeOK
    <3>. QED
      BY <3>1 DEF SearchInv
  <2>2. CASE q = p
    <3>1. lane'[q][tz] = Off
      BY <1>3, <2>2 DEF RevokeToken, IndexInv, CallsClean
    <3>2. lane'[q][tz].seen = {} /\ lane'[q][tz].scan = {}
      BY <3>1 DEF Off
    <3>. QED
      BY <3>2, EmptySearch
  <2>. QED
    BY <2>1, <2>2
<1>4. ASSUME NEW p \in Proc, NEW id \in Id, GetError(p, id) PROVE Goal
  <2>1. lane' = lane
    BY <1>4 DEF GetError
  <2>2. call'[q].consumer = call[q].consumer /\ call'[q].attrs = call[q].attrs
    <3>. DEFINE k == call[p]
                h == [k EXCEPT !.failed = TRUE]
    <3>1. call' = [call EXCEPT ![p] = h] /\ k \in Call
      BY <1>4 DEF GetError, TypeOK
    <3>2. h.consumer = k.consumer /\ h.attrs = k.attrs
      <4>. HIDE DEF k
      <4>. QED
        BY <3>1 DEF Call
    <3>. HIDE DEF h
    <3>. QED
      BY <3>1, <3>2 DEF TypeOK
  <2>. QED
    BY <2>1, <2>2 DEF SearchInv
<1>5. ASSUME NEW p \in Proc, NEW id \in Id, ReadToken(p, id) \/ RevokeExpired(p, id) PROVE Goal
  BY <1>1, <1>5 DEF ReadToken, RevokeExpired
<1>6. ASSUME Tick \/ UNCHANGED vars PROVE Goal
  BY <1>1, <1>6 DEF Tick, vars
<1>. HIDE DEF Goal
<1>7. Goal
  BY <1>2, <1>3, <1>4, <1>5, <1>6
<1>. QED
  BY <1>7 DEF Goal

\* Every step leaves every lane sound, in the store as it was before the step.
LEMMA SearchSteps ==
    ASSUME TypeOK, IndexInv, SearchInv, [Next]_vars, NEW q \in Proc, NEW tz \in Type
    PROVE  SearchSound(lane'[q][tz], tz, call'[q].consumer, call'[q].attrs)
<1>. DEFINE Goal == SearchSound(lane'[q][tz], tz, call'[q].consumer, call'[q].attrs)
<1>1. ASSUME NEW p \in Proc, Request(p) PROVE Goal
  BY <1>1, RequestSearch
<1>2. ASSUME NEW p \in Proc, NEW ty \in Type,
             \/ ReadIndex(p, ty)
             \/ \E id \in Id : ReadCandidate(p, ty, id) \/ CandidateError(p, ty, id)
             \/ ArchiveStale(p, ty) \/ SaveToken(p, ty) \/ CommandError(p, ty)
      PROVE  Goal
  BY <1>2, ReadIndexSearch, ReadCandidateSearch, CandidateErrorSearch, CommandSearch
<1>3. ASSUME NEW p \in Proc, Decide(p) PROVE Goal
  BY <1>3, DecideSearch
<1>4. ASSUME \/ Tick \/ UNCHANGED vars
             \/ \E p \in Proc : Return(p)
             \/ \E p \in Proc, id \in Id :
                  ReadToken(p, id) \/ RevokeExpired(p, id) \/ RevokeToken(p, id) \/ GetError(p, id)
      PROVE  Goal
  BY <1>4, OtherSearch
<1>. HIDE DEF Goal
<1>5. ASSUME NEW p \in Proc, Reply(p) PROVE Goal
  <2>1. ASSUME NEW id \in Id, ReadToken(p, id) \/ RevokeExpired(p, id) \/ RevokeToken(p, id)
        PROVE  Goal
    BY <1>4, <2>1
  <2>2. ASSUME NEW ty \in Type,
               \/ ReadIndex(p, ty)
               \/ \E id \in Id : ReadCandidate(p, ty, id)
               \/ ArchiveStale(p, ty)
               \/ SaveToken(p, ty)
        PROVE  Goal
    BY <1>2, <2>2
  <2>. QED
    BY <1>3, <1>4, <1>5, <2>1, <2>2 DEF Reply
<1>6. ASSUME NEW p \in Proc, Fault(p) PROVE Goal
  BY <1>2, <1>4, <1>6 DEF Fault
<1>7. Goal
  BY <1>1, <1>4, <1>5, <1>6 DEF Next
<1>. QED
  BY <1>7 DEF Goal

\* findOrSave mints a token only if none of the live tokens it listed and could read
\* matches, whatever other calls save, archive or revoke meanwhile.
THEOREM NoNeedlessSave == Spec => []SaveOnlyIfNoMatch
<1>1. Init => SearchInv
  <2>. SUFFICES ASSUME Init PROVE SearchInv
    OBVIOUS
  <2>1. \A p \in Proc, ty \in Type : lane[p][ty].seen = {} /\ lane[p][ty].scan = {}
    BY DEF Init, Off
  <2>. QED
    BY <2>1, EmptySearch DEF SearchInv
<1>2. TypeOK /\ TypeOK' /\ IndexInv /\ SearchInv /\ [Next]_vars => SearchInv'
  <2>. SUFFICES ASSUME TypeOK, TypeOK', IndexInv, SearchInv, [Next]_vars,
                       NEW q \in Proc, NEW ty \in Type
                PROVE  SearchSound(lane[q][ty], ty, call[q].consumer, call[q].attrs)'
    BY DEF SearchInv
  <2>1. PICK l \in Lane, c \in Consumer \cup {None}, attrs \in SUBSET Attr :
            l = lane'[q][ty] /\ c = call'[q].consumer /\ attrs = call'[q].attrs
    BY DEF TypeOK, Call
  <2>2. SearchSound(l, ty, c, attrs)
    BY <2>1, SearchSteps
  <2>3. SearchSound(l, ty, c, attrs)'
    BY <2>2, SoundStays
  <2>. QED
    BY <2>1, <2>3 DEF SearchSound, Match
<1>3. SearchInv => SaveOnlyIfNoMatch
  <2>. SUFFICES ASSUME SearchInv, NEW p \in Proc, NEW ty \in Type, lane[p][ty].pc = "save",
                       NEW id \in lane[p][ty].seen
                PROVE  ~Match(ty, id, call[p].consumer, call[p].attrs)
    BY DEF SaveOnlyIfNoMatch
  <2>1. SearchSound(lane[p][ty], ty, call[p].consumer, call[p].attrs)
    BY DEF SearchInv
  <2>. QED
    BY <2>1 DEF SearchSound
<1>. QED
  BY <1>1, <1>2, <1>3, Typing, IndexInvariant, PTL DEF Spec

-----------------------------------------------------------------------------
(***************************************************************************)
(* What a listing owes.  Each token saved for the consumer when it began   *)
(* was in one of the two indexes then, and is since being read, or being   *)
(* revoked, or among the tokens returned: as long as no get has failed,    *)
(* none is dropped, for each is still saved when its hash is read.         *)
(***************************************************************************)

\* A call with state k, gets g and debts o.
OwedHeld(k, g, o) ==
    k.op = "list" /\ k.past =>
        /\ \A id \in o : Saved(k.type, id)
        /\ ~k.failed => o \subseteq g.reading \cup g.revoking \cup g.got

OwedInv == \A p \in Proc : OwedHeld(call[p], gets[p], owed[p])

\* Whatever happens to the store, what a call owes was saved and stays so.
LEMMA HeldStays ==
    ASSUME TypeOK, TypeOK', IndexInv, [Next]_vars,
           NEW k \in Call, NEW g, NEW o \in SUBSET Id, OwedHeld(k, g, o)
    PROVE  OwedHeld(k, g, o)'
<1>1. k.type \in Type
  BY DEF Call
<1>2. ASSUME NEW id \in o, Saved(k.type, id) PROVE Saved(k.type, id)'
  BY <1>1, <1>2, TokensStay
<1>. QED
  BY <1>2 DEF OwedHeld

\* Only listings owe.
LEMMA NoDebt ==
    ASSUME NEW k, NEW g, NEW o, k.op # "list"
    PROVE  OwedHeld(k, g, o)
  BY DEF OwedHeld

\* A listing reads all that it owes, for every token of the consumer is in the index of
\* active tokens or in that of expired ones.
LEMMA ListOwed ==
    ASSUME TypeOK, IndexInv, OwedInv, NEW p \in Proc, NEW ty \in Type, NEW c \in Consumer,
           NEW past \in BOOLEAN, List(p, ty, c, past), NEW q \in Proc
    PROVE  OwedHeld(call'[q], gets'[q], owed'[q])
<1>. DEFINE k == [Idle EXCEPT !.op = "list", !.type = ty, !.past = past]
<1>1. Begin(p, k)
  BY DEF List
<1>2. k.type = ty /\ k.past = past
  BY DEF Idle
<1>. HIDE DEF k
<1>3. gets[p] = NoGets /\ call'[p] = k /\ \A r \in Proc : r # p => call'[r] = call[r]
  BY <1>1, BeginClean
<1>4. CASE q # p
  <2>1. gets'[q] = gets[q] /\ owed'[q] = owed[q]
    BY <1>4 DEF List, TypeOK
  <2>. QED
    BY <1>3, <1>4, <2>1 DEF OwedInv
<1>5. CASE q = p
  <2>1. owed'[p] = {id \in Id : Saved(ty, id) /\ body[ty][id].consumer = c}
    BY DEF List, TypeOK
  <2>2. past => gets'[p].reading = active[ty][c] \cup expired[ty][c]
    BY DEF List, TypeOK, Gets
  <2>3. past => owed'[p] \subseteq gets'[p].reading
    BY <2>1, <2>2 DEF IndexInv, StoreInv, IndexConsistent
  <2>4. \A id \in owed'[p] : Saved(ty, id)
    BY <2>1
  <2>. QED
    BY <1>2, <1>3, <1>5, <2>3, <2>4 DEF OwedHeld
<1>. QED
  BY <1>4, <1>5

\* A token that was saved is not dropped by a get that includes expired tokens.
LEMMA ReadTokenOwed ==
    ASSUME TypeOK, OwedInv, NEW p \in Proc, NEW id \in Id, ReadToken(p, id), NEW q \in Proc
    PROVE  OwedHeld(call'[q], gets'[q], owed'[q])
<1>1. UNCHANGED <<call, owed>> /\ OwedHeld(call[q], gets[q], owed[q])
  BY DEF ReadToken, OwedInv
<1>2. CASE q # p
  <2>1. gets'[q] = gets[q]
    BY <1>2 DEF ReadToken, TypeOK
  <2>. QED
    BY <1>1, <2>1
<1>3. CASE q = p
  <2>. DEFINE g == gets[p]
              outcome == Outcome(call[p].type, id, call[p].past)
              h == [reading  |-> g.reading \ {id},
                    revoking |-> IF outcome = "revoke" THEN g.revoking \cup {id} ELSE g.revoking,
                    got      |-> IF outcome = "token" THEN g.got \cup {id} ELSE g.got]
  <2>1. gets'[p] = h
    BY DEF ReadToken, TypeOK
  <2>2. call[p].past /\ Saved(call[p].type, id) => outcome \in {"revoke", "token"}
    BY DEF Outcome
  <2>3. /\ g.reading \ {id} \subseteq h.reading
        /\ g.revoking \subseteq h.revoking /\ g.got \subseteq h.got
        /\ outcome \in {"revoke", "token"} => id \in h.revoking \cup h.got
    <3>. HIDE DEF outcome, g
    <3>. QED
      OBVIOUS
  <2>. HIDE DEF h, g, outcome
  <2>4. OwedHeld(call[p], g, owed[p])
    BY <1>1, <1>3 DEF g
  <2>5. OwedHeld(call[p], h, owed[p])
    BY <2>2, <2>3, <2>4 DEF OwedHeld
  <2>. QED
    BY <1>1, <1>3, <2>1, <2>5
<1>. QED
  BY <1>2, <1>3

\* Nor is it by being revoked, for such a get returns it then.
LEMMA RevokeExpiredOwed ==
    ASSUME TypeOK, OwedInv, NEW p \in Proc, NEW id \in Id, RevokeExpired(p, id), NEW q \in Proc
    PROVE  OwedHeld(call'[q], gets'[q], owed'[q])
<1>1. UNCHANGED <<call, owed>> /\ OwedHeld(call[q], gets[q], owed[q])
  BY DEF RevokeExpired, OwedInv
<1>2. CASE q # p
  <2>1. gets'[q] = gets[q]
    BY <1>2 DEF RevokeExpired, TypeOK
  <2>. QED
    BY <1>1, <2>1
<1>3. CASE q = p
  <2>. DEFINE g == gets[p]
              h == [g EXCEPT !.revoking = @ \ {id},
                             !.got = IF call[p].past THEN @ \cup {id} ELSE @]
  <2>1. gets'[p] = h /\ g \in Gets
    BY DEF RevokeExpired, TypeOK
  <2>. HIDE DEF g
  <2>2. /\ h.reading = g.reading /\ h.revoking = g.revoking \ {id} /\ g.got \subseteq h.got
        /\ call[p].past => id \in h.got
    BY <2>1 DEF Gets
  <2>. HIDE DEF h
  <2>3. OwedHeld(call[p], g, owed[p])
    BY <1>1, <1>3 DEF g
  <2>4. OwedHeld(call[p], h, owed[p])
    BY <2>2, <2>3 DEF OwedHeld
  <2>. QED
    BY <1>1, <1>3, <2>1, <2>4
<1>. QED
  BY <1>2, <1>3

\* A get that fails is remembered.
LEMMA GetErrorOwed ==
    ASSUME TypeOK, OwedInv, NEW p \in Proc, NEW id \in Id, GetError(p, id), NEW q \in Proc
    PROVE  OwedHeld(call'[q], gets'[q], owed'[q])
<1>1. owed' = owed /\ OwedHeld(call[q], gets[q], owed[q])
  BY DEF GetError, OwedInv
<1>2. CASE q # p
  <2>1. gets'[q] = gets[q] /\ call'[q] = call[q]
    BY <1>2 DEF GetError, TypeOK
  <2>. QED
    BY <1>1, <2>1
<1>3. CASE q = p
  <2>. DEFINE k == call[p]
              h == [k EXCEPT !.failed = TRUE]
  <2>1. call'[p] = h /\ k \in Call
    BY DEF GetError, TypeOK
  <2>2. h.op = k.op /\ h.past = k.past /\ h.type = k.type /\ h.failed
    <3>. HIDE DEF k
    <3>. QED
      BY <2>1 DEF Call
  <2>. HIDE DEF h
  <2>3. OwedHeld(h, gets'[p], owed[p])
    BY <1>1, <1>3, <2>2 DEF OwedHeld
  <2>. QED
    BY <1>1, <1>3, <2>1, <2>3
<1>. QED
  BY <1>2, <1>3

\* A call that begins is a listing, or owes nothing.
LEMMA RequestOwed ==
    ASSUME TypeOK, IndexInv, OwedInv, NEW p \in Proc, Request(p), NEW q \in Proc
    PROVE  OwedHeld(call'[q], gets'[q], owed'[q])
<1>. DEFINE Goal == OwedHeld(call'[q], gets'[q], owed'[q])
<1>1. ASSUME NEW k, Begin(p, k), k.op # "list", owed' = owed,
             gets' = gets \/ \E ids : gets' = [gets EXCEPT ![p].reading = ids]
      PROVE  Goal
  <2>1. CASE q # p
    <3>1. call'[q] = call[q] /\ gets'[q] = gets[q]
      BY <1>1, <2>1, BeginClean DEF TypeOK
    <3>. QED
      BY <1>1, <3>1 DEF OwedInv
  <2>2. CASE q = p
    BY <1>1, <2>2, BeginClean, NoDebt
  <2>. QED
    BY <2>1, <2>2
<1>. HIDE DEF Goal
<1>2. ASSUME NEW c \in Consumer, NEW attrs \in SUBSET Attr, NEW refresh \in BOOLEAN,
             FindOrSave(p, c, attrs, refresh)
      PROVE  Goal
  <2>. DEFINE k == [Idle EXCEPT !.op = "findOrSave", !.consumer = c, !.attrs = attrs]
  <2>1. k.op # "list"
    BY DEF Idle
  <2>2. Begin(p, k) /\ UNCHANGED <<gets, owed>>
    BY <1>2 DEF FindOrSave
  <2>. HIDE DEF k
  <2>. QED
    BY <1>1, <2>1, <2>2
<1>3. ASSUME NEW c \in Consumer, NEW attrs \in SUBSET Attr, SaveRefreshOnly(p, c, attrs)
      PROVE  Goal
  <2>. DEFINE k == [Idle EXCEPT !.op = "findOrSave", !.consumer = c, !.attrs = attrs]
  <2>1. k.op # "list"
    BY DEF Idle
  <2>2. Begin(p, k) /\ UNCHANGED <<gets, owed>>
    BY <1>3 DEF SaveRefreshOnly
  <2>. HIDE DEF k
  <2>. QED
    BY <1>1, <2>1, <2>2
<1>4. ASSUME NEW ty \in Type, NEW id \in Id, NEW past \in BOOLEAN, Get(p, ty, id, past)
      PROVE  Goal
  <2>. DEFINE k == [Idle EXCEPT !.op = "get", !.type = ty, !.past = past]
  <2>1. k.op # "list"
    BY DEF Idle
  <2>2. Begin(p, k) /\ owed' = owed /\ gets' = [gets EXCEPT ![p].reading = {id}]
    BY <1>4 DEF Get
  <2>. HIDE DEF k
  <2>. QED
    BY <1>1, <2>1, <2>2
<1>5. ASSUME NEW id \in Id, Revoke(p, id) PROVE Goal
  <2>. DEFINE k == [Idle EXCEPT !.op = "revoke"]
  <2>1. k.op # "list"
    BY DEF Idle
  <2>2. Begin(p, k) /\ owed' = owed /\ gets' = [gets EXCEPT ![p].reading = {id}]
    BY <1>5 DEF Revoke
  <2>. HIDE DEF k
  <2>. QED
    BY <1>1, <2>1, <2>2
<1>6. ASSUME NEW ty \in Type, NEW c \in Consumer, NEW past \in BOOLEAN, List(p, ty, c, past)
      PROVE  Goal
  BY <1>6, ListOwed DEF Goal
<1>7. Goal
  BY <1>2, <1>3, <1>4, <1>5, <1>6 DEF Request
<1>. QED
  BY <1>7 DEF Goal

\* Every step leaves every listing with what it owes, in the store as it was before.
LEMMA OwedSteps ==
    ASSUME TypeOK, IndexInv, OwedInv, [Next]_vars, NEW q \in Proc
    PROVE  OwedHeld(call'[q], gets'[q], owed'[q])
<1>. DEFINE Goal == OwedHeld(call'[q], gets'[q], owed'[q])
<1>1. ASSUME UNCHANGED <<call, gets, owed>> PROVE Goal
  BY <1>1 DEF OwedInv
<1>2. ASSUME NEW p \in Proc, Request(p) PROVE Goal
  BY <1>2, RequestOwed
<1>3. ASSUME NEW p \in Proc, (\E id \in Id : RevokeToken(p, id)) \/ Return(p) PROVE Goal
  <2>1. /\ call'[p] = Idle
        /\ \A r \in Proc : r # p => call'[r] = call[r] /\ gets'[r] = gets[r] /\ owed'[r] = owed[r]
    BY <1>3 DEF RevokeToken, Return, TypeOK
  <2>2. CASE q # p
    BY <2>1, <2>2 DEF OwedInv
  <2>3. CASE q = p
    BY <2>1, <2>3, NoDebt DEF Idle
  <2>. QED
    BY <2>2, <2>3
<1>4. ASSUME NEW p \in Proc, NEW ty \in Type,
             \/ ReadIndex(p, ty)
             \/ \E id \in Id : ReadCandidate(p, ty, id) \/ CandidateError(p, ty, id)
             \/ ArchiveStale(p, ty)
             \/ SaveToken(p, ty)
             \/ CommandError(p, ty)
      PROVE  Goal
  BY <1>1, <1>4 DEF ReadIndex, ReadCandidate, CandidateError, ArchiveStale, SaveToken, CommandError
<1>5. ASSUME NEW p \in Proc, Decide(p) PROVE Goal
  BY <1>1, <1>5 DEF Decide
<1>6. ASSUME Tick \/ UNCHANGED vars PROVE Goal
  BY <1>1, <1>6 DEF Tick, vars
<1>7. ASSUME NEW p \in Proc, NEW id \in Id, ReadToken(p, id) \/ RevokeExpired(p, id) \/ GetError(p, id)
      PROVE  Goal
  BY <1>7, ReadTokenOwed, RevokeExpiredOwed, GetErrorOwed
<1>. HIDE DEF Goal
<1>8. ASSUME NEW p \in Proc, Reply(p) PROVE Goal
  <2>1. ASSUME NEW ty \in Type,
               \/ ReadIndex(p, ty)
               \/ \E id \in Id : ReadCandidate(p, ty, id)
               \/ ArchiveStale(p, ty)
               \/ SaveToken(p, ty)
        PROVE  Goal
    BY <1>4, <2>1
  <2>2. ASSUME NEW id \in Id, ReadToken(p, id) \/ RevokeExpired(p, id) \/ RevokeToken(p, id)
        PROVE  Goal
    BY <1>3, <1>7, <2>2
  <2>. QED
    BY <1>3, <1>5, <1>8, <2>1, <2>2 DEF Reply
<1>9. ASSUME NEW p \in Proc, Fault(p) PROVE Goal
  BY <1>4, <1>7, <1>9 DEF Fault
<1>10. Goal
  BY <1>2, <1>6, <1>8, <1>9 DEF Next
<1>. QED
  BY <1>10 DEF Goal

\* A listing that asks for expired tokens too, and of which no get failed, returns all
\* that were saved for the consumer when it began, however many calls archive or revoke
\* them while it reads.
THEOREM ListingsComplete == Spec => []ListingComplete
<1>1. Init => OwedInv
  <2>. SUFFICES ASSUME Init PROVE OwedInv
    OBVIOUS
  <2>1. \A p \in Proc : call[p].op # "list"
    BY DEF Init, Idle
  <2>. QED
    BY <2>1, NoDebt DEF OwedInv
<1>2. TypeOK /\ TypeOK' /\ IndexInv /\ OwedInv /\ [Next]_vars => OwedInv'
  <2>. SUFFICES ASSUME TypeOK, TypeOK', IndexInv, OwedInv, [Next]_vars, NEW q \in Proc
                PROVE  OwedHeld(call[q], gets[q], owed[q])'
    BY DEF OwedInv
  <2>1. PICK k \in Call, g \in Gets, o \in SUBSET Id :
            k = call'[q] /\ g = gets'[q] /\ o = owed'[q]
    <3>1. call'[q] \in Call /\ gets'[q] \in Gets /\ owed'[q] \in SUBSET Id
      BY DEF TypeOK
    <3>. QED
      BY <3>1
  <2>2. OwedHeld(k, g, o)
    BY <2>1, OwedSteps
  <2>3. OwedHeld(k, g, o)'
    BY <2>2, HeldStays
  <2>. QED
    BY <2>1, <2>3 DEF OwedHeld, Saved
<1>3. OwedInv => ListingComplete
  BY DEF OwedInv, OwedHeld, ListingComplete, GetsDone
<1>. QED
  BY <1>1, <1>2, <1>3, Typing, IndexInvariant, PTL DEF Spec
=============================================================================
