-------------------------- MODULE ConsumersProofs --------------------------
(* Theorems about Consumers, for every value of its constants.              *)
EXTENDS Consumers, TLAPS

-----------------------------------------------------------------------------
(* Types.                                                                   *)

\* What call c has to know at each point; t and o are what it has taken and owes.
Sound(c, t, o) ==
    /\ c.pc = "idle" => c = Idle
    /\ c.op # "insert" => t = {}
    /\ c.op \notin {"remove", "deactivate"} => o = {}
    /\ c.pc \in {"findUser", "writeUser", "listApps", "findAppName", "findApp", "addApp"} => c.user \in UserId
    /\ c.pc \in {"findUser", "addUser"} => c.name \in Username
    /\ c.pc \in {"findAppName", "findApp", "addApp"} => c.name \in AppName
    /\ c.pc \in {"findUser", "addUser", "findAppName", "findApp", "addApp"} => c.op = "insert"
    /\ c.pc \in {"findApp", "writeApp"} => c.app \in AppId
    /\ c.pc = "writeUser" => /\ c.op \in {"remove", "activate", "deactivate", "update"}
                             /\ c.op = "remove" => c.name \in Username
    /\ c.pc = "writeApp" => /\ c.op \in {"activate", "update"}
                            /\ c.op = "update" => c.name \in AppName
    /\ c.pc \in {"listApps", "cascade"} => c.op \in {"remove", "deactivate"}
    /\ c.pc # "cascade" => c.todo = {} /\ c.read = {}

TypeInv == TypeOK /\ \A p \in Proc : Sound(call[p], taken[p], owed[p])

\* The stores are typed after the step.
Stored ==
    /\ users' \in [UserId -> User \cup {None, Ghost}]
    /\ usernames' \in [Username -> SUBSET UserId]
    /\ apps' \in [AppId -> App \cup {None, Ghost}]
    /\ userApps' \in [UserId -> SUBSET AppId]
    /\ appNames' \in [AppName -> SUBSET AppId]
    /\ born' \in SUBSET (UserId \cup AppId)
    /\ renamed' \in SUBSET AppId
    /\ loose' \in SUBSET UserId

\* The call of p becomes c; the others may have less to account for.
Becomes(p, c) ==
    /\ call' = [call EXCEPT ![p] = c]
    /\ c \in Call
    /\ taken' \in [Proc -> SUBSET (UserId \cup AppId)]
    /\ owed' \in [Proc -> SUBSET (UserId \cup AppId)]
    /\ Sound(c, taken'[p], owed'[p])
    /\ \A q \in Proc : q # p => taken'[q] \subseteq taken[q] /\ owed'[q] \subseteq owed[q]

\* Whatever a step makes of a call, the types are kept if the others owe and take no more.
LEMMA StepTyped ==
    ASSUME TypeInv, NEW p \in Proc, NEW c, Becomes(p, c), Stored
    PROVE  TypeInv'
<1>1. call' \in [Proc -> Call] /\ \A q \in Proc : call'[q] = IF q = p THEN c ELSE call[q]
  BY DEF Becomes, TypeInv, TypeOK
<1>2. \A q \in Proc : Sound(call'[q], taken'[q], owed'[q])
  <2>. SUFFICES ASSUME NEW q \in Proc, q # p PROVE Sound(call'[q], taken'[q], owed'[q])
    BY <1>1 DEF Becomes
  <2>1. Sound(call[q], taken[q], owed[q]) /\ call'[q] = call[q]
    BY <1>1 DEF TypeInv
  <2>2. taken'[q] \subseteq taken[q] /\ owed'[q] \subseteq owed[q]
    BY DEF Becomes
  <2>. QED
    BY <2>1, <2>2 DEF Sound
<1>3. \A q \in Proc : call'[q].pc \in {"findUser", "writeUser", "listApps"} => call'[q].user # None
  BY <1>2, ConsumersAssumption DEF Sound
<1>4. TypeOK'
  BY <1>1, <1>3 DEF TypeOK, Stored, Becomes
<1>. QED
  BY <1>2, <1>4 DEF TypeInv

\* An idle call is well formed.
LEMMA IdleTyped == Idle \in Call /\ Sound(Idle, {}, {})
  BY DEF Idle, Call, Sound

\* An idle process has nothing to account for.
LEMMA IdleOwesNothing ==
    ASSUME TypeInv, NEW p \in Proc, call[p] = Idle
    PROVE  taken[p] = {} /\ owed[p] = {}
  BY ConsumersAssumption DEF TypeInv, Sound, Idle

\* A call that is over.
LEMMA Quits ==
    ASSUME TypeInv, NEW p \in Proc, Quit(p)
    PROVE  Becomes(p, Idle)
  BY IdleTyped DEF Quit, Becomes, TypeInv, TypeOK

\* A call that goes on, knowing what it has to.
LEMMA GoesOn ==
    ASSUME TypeInv, NEW p \in Proc, NEW c \in Call, Become(p, c), Sound(c, taken[p], owed[p])
    PROVE  Becomes(p, c)
  BY DEF Become, Becomes, TypeInv, TypeOK

\* A hash that is neither missing nor a Ghost has its fields.
LEMMA HashTyped ==
    ASSUME TypeInv
    PROVE  /\ \A u \in UserId : IsUser(u) => users[u] \in User
           /\ \A a \in AppId : IsApp(a) => apps[a] \in App
           /\ User \cap {None, Ghost} = {} /\ App \cap {None, Ghost} = {}
  BY ConsumersAssumption DEF TypeInv, TypeOK, IsUser, IsApp

\* Who is loose stays typed, if nobody else becomes loose.
LEMMA SameLoose == TypeInv /\ UNCHANGED loose => loose' \in SUBSET UserId
  BY DEF TypeInv, TypeOK

\* Stores that are not touched stay typed.
LEMMA StoredSame ==
    ASSUME TypeInv, UNCHANGED <<store, born, renamed>>, loose' \in SUBSET UserId
    PROVE  Stored
  BY DEF TypeInv, TypeOK, Stored, store

\* A call looks for the name of a user to be inserted.
LEMMA InsertUserTyped ==
    ASSUME TypeInv, NEW p \in Proc, NEW n \in Username, InsertUser(p, n)
    PROVE  TypeInv'
<1>1. Stored
  BY StoredSame, SameLoose DEF InsertUser
<1>2. /\ taken' \in [Proc -> SUBSET (UserId \cup AppId)] /\ owed' = owed
      /\ owed[p] = {}
      /\ \A q \in Proc : q # p => taken'[q] = taken[q]
  <2>1. usernames[n] \in SUBSET UserId /\ taken \in [Proc -> SUBSET (UserId \cup AppId)]
    BY DEF TypeInv, TypeOK
  <2>. QED
    BY <2>1, IdleOwesNothing DEF InsertUser
<1>3. CASE call' = [call EXCEPT ![p] = [Idle EXCEPT !.op = "insert", !.name = n, !.pc = "addUser"]]
  <2>. DEFINE c == [Idle EXCEPT !.op = "insert", !.name = n, !.pc = "addUser"]
  <2>1. c \in Call
    BY DEF Idle, Call
  <2>2. Sound(c, taken'[p], owed'[p])
    BY <1>2 DEF Idle, Sound
  <2>. QED
    BY <1>1, <1>2, <1>3, <2>1, <2>2, StepTyped DEF Becomes, TypeInv, TypeOK
<1>4. ASSUME NEW u \in usernames[n],
             call' = [call EXCEPT ![p] = [Idle EXCEPT !.op = "insert", !.name = n, !.pc = "findUser", !.user = u]]
      PROVE  TypeInv'
  <2>. DEFINE c == [Idle EXCEPT !.op = "insert", !.name = n, !.pc = "findUser", !.user = u]
  <2>0. u \in UserId
    BY DEF TypeInv, TypeOK
  <2>1. c \in Call
    BY <2>0 DEF Idle, Call
  <2>2. Sound(c, taken'[p], owed'[p])
    BY <1>2, <2>0 DEF Idle, Sound
  <2>. QED
    BY <1>1, <1>2, <1>4, <2>1, <2>2, StepTyped DEF Becomes, TypeInv, TypeOK
<1>. QED
  BY <1>3, <1>4 DEF InsertUser

\* It reads who is behind the name.
LEMMA FindUserTyped ==
    ASSUME TypeInv, NEW p \in Proc, FindUser(p)
    PROVE  TypeInv'
<1>1. Stored
  BY StoredSame, SameLoose DEF FindUser
<1>2. CASE Quit(p)
  BY <1>1, <1>2, Quits, StepTyped
<1>3. CASE Become(p, [call[p] EXCEPT !.pc = "addUser", !.user = None])
  <2>. DEFINE c == [call[p] EXCEPT !.pc = "addUser", !.user = None]
  <2>1. call[p] \in Call /\ Sound(call[p], taken[p], owed[p]) /\ call[p].pc = "findUser"
    BY DEF FindUser, At, TypeInv, TypeOK
  <2>2. c \in Call
    BY <2>1 DEF Call
  <2>3. Sound(c, taken[p], owed[p])
    BY <2>1 DEF Call, Sound
  <2>. QED
    BY <1>1, <1>3, <2>2, <2>3, GoesOn, StepTyped
<1>. QED
  BY <1>2, <1>3 DEF FindUser

\* It inserts the user.
LEMMA AddUserTyped ==
    ASSUME TypeInv, NEW p \in Proc, AddUser(p)
    PROVE  TypeInv'
<1>1. PICK u \in UserId \ born :
         /\ users' = [users EXCEPT ![u] = [username |-> call[p].name, isActive |-> TRUE]]
         /\ usernames' = [usernames EXCEPT ![call[p].name] = @ \cup {u}]
         /\ born' = born \cup {u}
  BY DEF AddUser
<1>2. call[p].name \in Username
  BY DEF AddUser, At, TypeInv, Sound
<1>3. [username |-> call[p].name, isActive |-> TRUE] \in User
  BY <1>2 DEF User
<1>4. users' \in [UserId -> User \cup {None, Ghost}] /\ usernames' \in [Username -> SUBSET UserId]
  BY <1>1, <1>3 DEF TypeInv, TypeOK
<1>5. born' \in SUBSET (UserId \cup AppId)
  BY <1>1 DEF TypeInv, TypeOK
<1>6. Stored
  BY <1>4, <1>5 DEF AddUser, TypeInv, TypeOK, Stored
<1>. QED
  BY <1>6, Quits, StepTyped DEF AddUser

\* A call finds the user it is to do something to.
LEMMA UserOpTyped ==
    ASSUME TypeInv, NEW p \in Proc, NEW op \in {"remove", "activate", "deactivate", "update"}, NEW u \in UserId,
           UserOp(p, op, u)
    PROVE  TypeInv'
<1>. DEFINE n == IF op = "remove" THEN users[u].username ELSE None
            c == [Idle EXCEPT !.pc = "writeUser", !.op = op, !.user = u, !.name = n]
<1>1. Stored
  BY StoredSame, SameLoose DEF UserOp
<1>2. op = "remove" => users[u].username \in Username
  BY HashTyped DEF UserOp, User
<1>3. c \in Call
  BY <1>2 DEF Idle, Call
<1>4. /\ owed' \in [Proc -> SUBSET (UserId \cup AppId)] /\ taken' = taken /\ taken[p] = {}
      /\ op \notin {"remove", "deactivate"} => owed'[p] = {}
      /\ \A q \in Proc : q # p => owed'[q] = owed[q]
  <2>1. userApps[u] \in SUBSET AppId /\ owed \in [Proc -> SUBSET (UserId \cup AppId)]
    BY DEF TypeInv, TypeOK
  <2>. QED
    BY <2>1, IdleOwesNothing DEF UserOp
<1>5. Sound(c, taken'[p], owed'[p])
  BY <1>2, <1>4 DEF Idle, Sound
<1>6. call' = [call EXCEPT ![p] = c]
  BY DEF UserOp
<1>. QED
  BY <1>1, <1>3, <1>4, <1>5, <1>6, StepTyped DEF Becomes, TypeInv, TypeOK

\* It activates, deactivates or updates the user.
LEMMA WriteUserTyped ==
    ASSUME TypeInv, NEW p \in Proc, WriteUser(p)
    PROVE  TypeInv'
<1>. DEFINE u == call[p].user  op == call[p].op  h == users[u]
            c == IF op = "deactivate" THEN [call[p] EXCEPT !.pc = "listApps"] ELSE Idle
<1>1. /\ u \in UserId /\ op \in {"activate", "deactivate", "update"} /\ call[p].pc = "writeUser"
      /\ call[p] \in Call /\ Sound(call[p], taken[p], owed[p])
  BY DEF WriteUser, At, TypeInv, TypeOK, Sound
<1>2. IsUser(u) => h \in User /\ [h EXCEPT !.isActive = TRUE] \in User /\ [h EXCEPT !.isActive = FALSE] \in User
  BY <1>1, HashTyped DEF User
<1>3. \E v \in User \cup {None, Ghost} : users' = [users EXCEPT ![u] = v]
  <2>1. CASE ~IsUser(u)
    BY <2>1 DEF WriteUser
  <2>2. CASE IsUser(u) /\ op = "activate"
    BY <1>2, <2>2 DEF WriteUser
  <2>3. CASE IsUser(u) /\ op = "deactivate"
    BY <1>2, <2>3 DEF WriteUser
  <2>4. CASE IsUser(u) /\ op = "update"
    BY <1>2, <2>4 DEF WriteUser
  <2>. QED
    BY <1>1, <2>1, <2>2, <2>3, <2>4
<1>4. Stored
  <2>1. users' \in [UserId -> User \cup {None, Ghost}]
    BY <1>3 DEF TypeInv, TypeOK
  <2>. QED
    BY <2>1, <1>1 DEF WriteUser, TypeInv, TypeOK, Stored
<1>5. c \in Call
  BY <1>1, IdleTyped DEF Call
<1>6. /\ owed' \in [Proc -> SUBSET (UserId \cup AppId)] /\ taken' = taken
      /\ \A q \in Proc : owed'[q] \subseteq owed[q]
  BY <1>1 DEF WriteUser, TypeInv, TypeOK
<1>7. Sound(c, taken[p], owed'[p])
  <2>1. CASE op = "deactivate"
    BY <1>1, <1>6, <2>1 DEF Sound, Call
  <2>2. CASE op # "deactivate"
    BY <1>1, <1>6, <2>2 DEF Sound, Idle
  <2>. QED
    BY <2>1, <2>2
<1>8. call' = [call EXCEPT ![p] = c]
  BY DEF WriteUser
<1>. QED
  BY <1>4, <1>5, <1>6, <1>7, <1>8, StepTyped DEF Becomes, TypeInv, TypeOK

\* It removes the user.
LEMMA DelUserTyped ==
    ASSUME TypeInv, NEW p \in Proc, DelUser(p)
    PROVE  TypeInv'
<1>. DEFINE c == [call[p] EXCEPT !.pc = "listApps", !.name = None]
<1>1. /\ call[p].user \in UserId /\ call[p].name \in Username /\ call[p].op = "remove"
      /\ call[p] \in Call /\ Sound(call[p], taken[p], owed[p]) /\ call[p].pc = "writeUser"
  BY DEF DelUser, At, TypeInv, TypeOK, Sound
<1>2. Stored
  BY <1>1 DEF DelUser, Released, TypeInv, TypeOK, Stored
<1>3. c \in Call
  BY <1>1 DEF Call
<1>4. /\ taken' \in [Proc -> SUBSET (UserId \cup AppId)] /\ owed' = owed
      /\ \A q \in Proc : taken'[q] \subseteq taken[q]
  BY DEF DelUser, TypeInv, TypeOK
<1>5. Sound(c, taken'[p], owed'[p])
  BY <1>1, <1>4 DEF Sound, Call
<1>6. call' = [call EXCEPT ![p] = c]
  <2>1. call' = [call EXCEPT ![p].pc = "listApps", ![p].name = None]
    BY DEF DelUser
  <2>. QED
    BY <2>1 DEF TypeInv, TypeOK
<1>. QED
  BY <1>2, <1>3, <1>4, <1>5, <1>6, StepTyped DEF Becomes, TypeInv, TypeOK

\* It lists the user's applications.
LEMMA ListAppsTyped ==
    ASSUME TypeInv, NEW p \in Proc, ListApps(p)
    PROVE  TypeInv'
<1>. DEFINE c == [Idle EXCEPT !.pc = "cascade", !.op = call[p].op, !.todo = Listed(userApps[call[p].user])]
<1>1. /\ call[p].user \in UserId /\ call[p].op \in {"remove", "deactivate"}
      /\ Sound(call[p], taken[p], owed[p])
  BY DEF ListApps, At, TypeInv, Sound
<1>2. c \in Call
  BY <1>1 DEF Idle, Call, Listed, TypeInv, TypeOK
<1>3. Sound(c, taken[p], owed[p])
  BY <1>1 DEF Idle, Sound
<1>4. Stored
  BY StoredSame, SameLoose DEF ListApps
<1>. QED
  BY <1>2, <1>3, <1>4, GoesOn, StepTyped DEF ListApps

\* A call looks for the name of an application to be inserted.
LEMMA InsertAppTyped ==
    ASSUME TypeInv, NEW p \in Proc, NEW u \in UserId, NEW n \in NewName, InsertApp(p, u, n)
    PROVE  TypeInv'
<1>. DEFINE c == [Idle EXCEPT !.pc = "findAppName", !.op = "insert", !.user = u, !.name = n]
<1>1. n \in AppName
  BY ConsumersAssumption
<1>2. c \in Call
  BY <1>1 DEF Idle, Call
<1>3. /\ taken' \in [Proc -> SUBSET (UserId \cup AppId)] /\ owed' = owed /\ owed[p] = {}
      /\ \A q \in Proc : q # p => taken'[q] = taken[q]
  <2>1. appNames[n] \in SUBSET AppId /\ taken \in [Proc -> SUBSET (UserId \cup AppId)]
    BY <1>1 DEF TypeInv, TypeOK
  <2>. QED
    BY <2>1, IdleOwesNothing DEF InsertApp
<1>4. Sound(c, taken'[p], owed'[p])
  BY <1>1, <1>3 DEF Idle, Sound
<1>5. Stored /\ call' = [call EXCEPT ![p] = c]
  BY StoredSame, SameLoose DEF InsertApp
<1>. QED
  BY <1>2, <1>3, <1>4, <1>5, StepTyped DEF Becomes, TypeInv, TypeOK

\* It reads the ids under the name.
LEMMA FindAppNameTyped ==
    ASSUME TypeInv, NEW p \in Proc, FindAppName(p)
    PROVE  TypeInv'
<1>1. Stored
  BY StoredSame, SameLoose DEF FindAppName
<1>2. call[p] \in Call /\ Sound(call[p], taken[p], owed[p]) /\ call[p].pc = "findAppName"
  BY DEF FindAppName, At, TypeInv, TypeOK
<1>3. CASE Goto(p, "addApp")
  <2>. DEFINE c == [call[p] EXCEPT !.pc = "addApp"]
  <2>1. c \in Call /\ Sound(c, taken[p], owed[p])
    BY <1>2 DEF Call, Sound
  <2>. QED
    BY <1>1, <1>3, <2>1, GoesOn, StepTyped DEF Goto
<1>4. ASSUME NEW a \in appNames[call[p].name], Become(p, [call[p] EXCEPT !.pc = "findApp", !.app = a])
      PROVE  TypeInv'
  <2>. DEFINE c == [call[p] EXCEPT !.pc = "findApp", !.app = a]
  <2>1. a \in AppId
    BY <1>2 DEF TypeInv, TypeOK, Sound
  <2>2. c \in Call /\ Sound(c, taken[p], owed[p])
    BY <1>2, <2>1 DEF Call, Sound
  <2>. QED
    BY <1>1, <1>4, <2>2, GoesOn, StepTyped
<1>5. CASE Quit(p)
  BY <1>1, <1>5, Quits, StepTyped
<1>. QED
  BY <1>3, <1>4, <1>5 DEF FindAppName

\* It reads the application of the name.
LEMMA FindAppTyped ==
    ASSUME TypeInv, NEW p \in Proc, FindApp(p)
    PROVE  TypeInv'
<1>1. Stored
  BY StoredSame, SameLoose DEF FindApp
<1>2. CASE Quit(p)
  BY <1>1, <1>2, Quits, StepTyped
<1>3. CASE Become(p, [call[p] EXCEPT !.pc = "addApp", !.app = None])
  <2>. DEFINE c == [call[p] EXCEPT !.pc = "addApp", !.app = None]
  <2>1. call[p] \in Call /\ Sound(call[p], taken[p], owed[p]) /\ call[p].pc = "findApp"
    BY DEF FindApp, At, TypeInv, TypeOK
  <2>2. c \in Call /\ Sound(c, taken[p], owed[p])
    BY <2>1 DEF Call, Sound
  <2>. QED
    BY <1>1, <1>3, <2>2, GoesOn, StepTyped
<1>. QED
  BY <1>2, <1>3 DEF FindApp

\* It inserts the application.
LEMMA AddAppTyped ==
    ASSUME TypeInv, NEW p \in Proc, AddApp(p)
    PROVE  TypeInv'
<1>. DEFINE u == call[p].user  n == call[p].name
<1>1. u \in UserId /\ n \in AppName
  BY DEF AddApp, At, TypeInv, Sound
<1>2. PICK a \in AppId \ born :
         /\ apps' = [apps EXCEPT ![a] = [name |-> n, user |-> u, isActive |-> TRUE]]
         /\ userApps' = [userApps EXCEPT ![u] = @ \cup {a}]
         /\ appNames' = [appNames EXCEPT ![n] = @ \cup {a}]
         /\ born' = born \cup {a}
  BY DEF AddApp
<1>3. [name |-> n, user |-> u, isActive |-> TRUE] \in App
  BY <1>1 DEF App
<1>4. Stored
  BY <1>1, <1>2, <1>3 DEF AddApp, TypeInv, TypeOK, Stored
<1>. QED
  BY <1>4, Quits, StepTyped DEF AddApp

\* What a call about application a of name n holds.
AppCall(op, a, n) ==
    LET c == [Idle EXCEPT !.op = op]
    IN  CASE op = "remove" -> [c EXCEPT !.pc = "cascade", !.read = {Fields(a)}]
          [] op = "deactivate" -> [c EXCEPT !.pc = "cascade", !.todo = {a}]
          [] OTHER -> [c EXCEPT !.pc = "writeApp", !.app = a, !.name = n]

\* A call finds the application it is to do something to.
LEMMA AppOpTyped ==
    ASSUME TypeInv, NEW p \in Proc, NEW op \in {"remove", "activate", "deactivate", "update"}, NEW a \in AppId,
           NEW n \in AppName \cup {None}, op = "update" => n \in AppName, AppOp(p, op, a, n)
    PROVE  TypeInv'
<1>. DEFINE c == AppCall(op, a, n)
<1>1. Stored
  BY StoredSame, SameLoose DEF AppOp, hist
<1>2. Fields(a) \in AppId \X AppName \X UserId
  <2>1. IsApp(a)
    BY DEF AppOp
  <2>2. apps[a] \in App
    BY <2>1, HashTyped
  <2>. QED
    BY <2>2 DEF Fields, App
<1>3. c \in Call /\ Sound(c, {}, {})
  <2>1. CASE op = "remove"
    <3>1. c = [Idle EXCEPT !.op = op, !.pc = "cascade", !.read = {Fields(a)}]
      BY <2>1 DEF AppCall, Idle
    <3>2. c \in Call
      <4>. DEFINE d == [pc |-> "cascade", op |-> "remove", user |-> None, app |-> None, name |-> None,
                        todo |-> {}, read |-> {Fields(a)}]
      <4>1. c = d
        BY <2>1, <3>1 DEF Idle
      <4>2. {Fields(a)} \in SUBSET (AppId \X AppName \X UserId) /\ {} \in SUBSET AppId
        BY <1>2
      <4>3. d \in Call
        BY <4>2 DEF Call
      <4>. QED
        BY <4>1, <4>3
    <3>3. Sound(c, {}, {})
      BY <2>1, <3>1 DEF Idle, Sound
    <3>. QED
      BY <3>2, <3>3
  <2>2. CASE op = "deactivate"
    <3>1. c = [Idle EXCEPT !.op = op, !.pc = "cascade", !.todo = {a}]
      BY <2>2 DEF AppCall, Idle
    <3>2. c \in Call
      <4>. DEFINE d == [pc |-> "cascade", op |-> "deactivate", user |-> None, app |-> None, name |-> None,
                        todo |-> {a}, read |-> {}]
      <4>1. c = d
        BY <2>2, <3>1 DEF Idle
      <4>2. {a} \in SUBSET AppId /\ {} \in SUBSET (AppId \X AppName \X UserId)
        OBVIOUS
      <4>3. d \in Call
        BY <4>2 DEF Call
      <4>. QED
        BY <4>1, <4>3
    <3>3. Sound(c, {}, {})
      BY <2>2, <3>1 DEF Idle, Sound
    <3>. QED
      BY <3>2, <3>3
  <2>3. CASE op \in {"activate", "update"}
    <3>1. c = [Idle EXCEPT !.op = op, !.pc = "writeApp", !.app = a, !.name = n]
      BY <2>3 DEF AppCall, Idle
    <3>. QED
      BY <2>3, <3>1 DEF Idle, Call, Sound
  <2>. QED
    BY <2>1, <2>2, <2>3
<1>4. Sound(c, taken[p], owed[p])
  BY <1>3, IdleOwesNothing DEF AppOp
<1>5. Become(p, c)
  BY DEF AppOp, AppCall, Become, hist
<1>. QED
  BY <1>1, <1>3, <1>4, <1>5, GoesOn, StepTyped

\* It activates or updates the application.
LEMMA WriteAppTyped ==
    ASSUME TypeInv, NEW p \in Proc, WriteApp(p)
    PROVE  TypeInv'
<1>. DEFINE a == call[p].app  op == call[p].op  h == apps[a]
<1>1. /\ a \in AppId /\ op \in {"activate", "update"}
      /\ op = "update" => call[p].name \in AppName
      /\ call[p].pc = "writeApp" /\ Sound(call[p], taken[p], owed[p])
  BY DEF WriteApp, At, TypeInv, Sound
<1>2. /\ IsApp(a) => h \in App /\ [h EXCEPT !.isActive = TRUE] \in App
      /\ IsApp(a) /\ op = "update" => [h EXCEPT !.name = call[p].name] \in App
  BY <1>1, HashTyped DEF App
<1>3. \E v \in App \cup {None, Ghost} : apps' = [apps EXCEPT ![a] = v]
  <2>1. CASE ~IsApp(a)
    BY <2>1 DEF WriteApp
  <2>2. CASE IsApp(a) /\ op = "activate"
    BY <1>2, <2>2 DEF WriteApp
  <2>3. CASE IsApp(a) /\ op = "update"
    BY <1>2, <2>3 DEF WriteApp
  <2>. QED
    BY <1>1, <2>1, <2>2, <2>3
<1>4. Stored
  <2>1. apps' \in [AppId -> App \cup {None, Ghost}]
    BY <1>3 DEF TypeInv, TypeOK
  <2>2. renamed' \in SUBSET AppId
    <3>1. renamed' = renamed \/ renamed' = renamed \cup {a}
      BY DEF WriteApp
    <3>. QED
      BY <1>1, <3>1 DEF TypeInv, TypeOK
  <2>. QED
    BY <2>1, <2>2 DEF WriteApp, TypeInv, TypeOK, Stored
<1>5. /\ owed' \in [Proc -> SUBSET (UserId \cup AppId)] /\ taken' = taken
      /\ \A q \in Proc : owed'[q] \subseteq owed[q]
  <2>1. owed \in [Proc -> SUBSET (UserId \cup AppId)]
    BY DEF TypeInv, TypeOK
  <2>2. taken' = taken /\ (owed' = owed \/ owed' = [q \in Proc |-> owed[q] \ {a}])
    BY DEF WriteApp
  <2>. QED
    BY <2>1, <2>2
<1>6. Sound(Idle, taken[p], owed'[p])
  BY <1>1, <1>5 DEF Sound, Idle
<1>7. call' = [call EXCEPT ![p] = Idle]
  BY DEF WriteApp
<1>. QED
  BY <1>4, <1>5, <1>6, <1>7, IdleTyped, StepTyped DEF Becomes, TypeInv, TypeOK

\* It deactivates an application.
LEMMA DeactivateAppTyped ==
    ASSUME TypeInv, NEW p \in Proc, NEW a, DeactivateApp(p, a)
    PROVE  TypeInv'
<1>. DEFINE c == [call[p] EXCEPT !.todo = @ \ {a}]
<1>1. call[p] \in Call /\ Sound(call[p], taken[p], owed[p]) /\ call[p].pc = "cascade" /\ a \in AppId
  BY DEF DeactivateApp, At, TypeInv, TypeOK, Call
<1>2. c \in Call /\ Sound(c, taken[p], owed[p])
  BY <1>1 DEF Call, Sound
<1>3. IsApp(a) => [apps[a] EXCEPT !.isActive = FALSE] \in App
  BY <1>1, HashTyped DEF App
<1>4. Stored
  BY <1>1, <1>3 DEF DeactivateApp, TypeInv, TypeOK, Stored
<1>. QED
  BY <1>2, <1>4, GoesOn, StepTyped DEF DeactivateApp

\* It reads an application to be removed.
LEMMA ReadListedTyped ==
    ASSUME TypeInv, NEW p \in Proc, NEW a, ReadListed(p, a)
    PROVE  TypeInv'
<1>. DEFINE r == IF IsApp(a) THEN call[p].read \cup {Fields(a)} ELSE call[p].read
            c == [call[p] EXCEPT !.todo = @ \ {a}, !.read = r]
<1>1. call[p] \in Call /\ Sound(call[p], taken[p], owed[p]) /\ call[p].pc = "cascade" /\ a \in AppId
  BY DEF ReadListed, At, TypeInv, TypeOK, Call
<1>2. IsApp(a) => Fields(a) \in AppId \X AppName \X UserId
  BY <1>1, HashTyped DEF Fields, App
<1>3. r \in SUBSET (AppId \X AppName \X UserId)
  BY <1>1, <1>2 DEF Call
<1>4. c \in Call /\ Sound(c, taken[p], owed[p])
  BY <1>1, <1>3 DEF Call, Sound
<1>5. Stored
  BY StoredSame, SameLoose DEF ReadListed
<1>6. Become(p, c)
  BY DEF ReadListed
<1>. QED
  BY <1>4, <1>5, <1>6, GoesOn, StepTyped

\* It removes an application.
LEMMA DelAppTyped ==
    ASSUME TypeInv, NEW p \in Proc, NEW r, DelApp(p, r)
    PROVE  TypeInv'
<1>. DEFINE c == [call[p] EXCEPT !.read = @ \ {r}]
<1>1. /\ call[p] \in Call /\ Sound(call[p], taken[p], owed[p]) /\ call[p].pc = "cascade"
      /\ r \in AppId \X AppName \X UserId
  BY DEF DelApp, At, TypeInv, TypeOK, Call
<1>2. c \in Call /\ Sound(c, taken[p], owed[p])
  BY <1>1 DEF Call, Sound
<1>3. Stored
  BY <1>1 DEF DelApp, Unnamed, Disowned, TypeInv, TypeOK, Stored
<1>. QED
  BY <1>2, <1>3, GoesOn, StepTyped DEF DelApp

\* A call answers, or its process dies.
LEMMA OverTyped ==
    ASSUME TypeInv, NEW p \in Proc, Answer(p) \/ Crash(p)
    PROVE  TypeInv'
<1>1. loose' \in SUBSET UserId
  <2>1. CASE Answer(p)
    BY <2>1, SameLoose DEF Answer
  <2>2. CASE Crash(p)
    <3>1. \A a \in AppId : Orphan(a) => apps[a].user \in UserId
      BY HashTyped DEF Orphan, App
    <3>. QED
      BY <2>2, <3>1 DEF Crash, TypeInv, TypeOK
  <2>. QED
    BY <2>1, <2>2
<1>2. UNCHANGED <<store, born, renamed>> /\ Quit(p)
  BY DEF Answer, Crash
<1>. QED
  BY <1>1, <1>2, Quits, StepTyped, StoredSame

\* No step breaks the typing.
LEMMA NextTyped == TypeInv /\ [Next]_vars => TypeInv'
<1>. SUFFICES ASSUME TypeInv, [Next]_vars PROVE TypeInv'
  OBVIOUS
<1>1. CASE UNCHANGED vars
  BY <1>1 DEF TypeInv, TypeOK, Sound, vars, store, hist
<1>2. ASSUME NEW p \in Proc, Request(p) PROVE TypeInv'
  BY <1>2, InsertUserTyped, UserOpTyped, InsertAppTyped, AppOpTyped DEF Request
<1>3. ASSUME NEW p \in Proc, UserStep(p) PROVE TypeInv'
  BY <1>3, FindUserTyped, AddUserTyped, WriteUserTyped, DelUserTyped, ListAppsTyped DEF UserStep
<1>4. ASSUME NEW p \in Proc, AppStep(p) PROVE TypeInv'
  BY <1>4, FindAppNameTyped, FindAppTyped, AddAppTyped, WriteAppTyped, DeactivateAppTyped, ReadListedTyped,
     DelAppTyped, OverTyped DEF AppStep
<1>. QED
  BY <1>1, <1>2, <1>3, <1>4, OverTyped DEF Next

\* The typing holds throughout.
LEMMA TypeAlways == Spec => []TypeInv
<1>1. Init => TypeInv
  <2>. SUFFICES ASSUME Init PROVE TypeInv
    OBVIOUS
  <2>1. \A p \in Proc : call[p] = Idle /\ taken[p] = {} /\ owed[p] = {}
    BY DEF Init
  <2>. QED
    BY <2>1, IdleTyped DEF Init, TypeInv, TypeOK, Idle
<1>. QED
  BY <1>1, NextTyped, PTL DEF Spec

\* Every variable keeps its type, and a call that is at a user has one.
THEOREM Typing == Spec => []TypeOK
<1>1. TypeInv => TypeOK
  BY DEF TypeInv
<1>. QED
  BY <1>1, TypeAlways, PTL

-----------------------------------------------------------------------------
(* The indexes.                                                             *)

\* What a call has read still holds: the ids it goes on with have been inserted, and
\* the fields it removes by are those of the hash, if that is still there.
Bound(c) ==
    /\ c.todo \subseteq born
    /\ c.pc = "writeUser" => c.user \in born
    /\ c.pc = "writeApp" => c.app \in born
    /\ c.pc = "writeUser" /\ c.op = "remove" /\ IsUser(c.user) => users[c.user].username = c.name
    /\ \A r \in c.read :
         /\ r[1] \in born
         /\ IsApp(r[1]) => /\ r[3] = apps[r[1]].user
                           /\ r[1] \notin renamed => r[2] = apps[r[1]].name

\* Nothing is stored of an id before it is inserted.
Unborn ==
    /\ \A u \in UserId \ born : users[u] = None
    /\ \A a \in AppId \ born : apps[a] = None /\ \A n \in AppName : a \notin appNames[n]

\* An application that was never renamed is under its name only.
NamesKept ==
    \A n \in AppName : \A a \in appNames[n] : IsApp(a) /\ a \notin renamed => apps[a].name = n

StoreInv == Unborn /\ NamesKept /\ IndexesFollow
IndexInv == StoreInv /\ \A p \in Proc : Bound(call[p])

\* What no step ever does to a hash that was inserted: bring it back, give a user another
\* username or an application another user, or a name without remembering it.
Keeps ==
    /\ born \subseteq born' /\ renamed \subseteq renamed'
    /\ \A u \in UserId \cap born : IsUser(u)' => IsUser(u) /\ users'[u].username = users[u].username
    /\ \A a \in AppId \cap born : IsApp(a)' =>
         IsApp(a) /\ apps'[a].user = apps[a].user /\ (a \notin renamed' => apps'[a].name = apps[a].name)

\* A call goes on knowing what it knew.
LEMMA BoundKept ==
    ASSUME NEW c \in Call, Bound(c), Keeps, c.pc = "writeUser" => c.user \in UserId
    PROVE  Bound(c)'
<1>1. \A r \in c.read : r[1] \in AppId
  BY DEF Call
<1>2. ASSUME NEW r \in c.read
      PROVE  /\ r[1] \in born'
             /\ IsApp(r[1])' => /\ r[3] = apps'[r[1]].user
                                /\ r[1] \notin renamed' => r[2] = apps'[r[1]].name
  <2>1. /\ r[1] \in born
        /\ IsApp(r[1]) => r[3] = apps[r[1]].user /\ (r[1] \notin renamed => r[2] = apps[r[1]].name)
    BY <1>2 DEF Bound
  <2>2. /\ born \subseteq born' /\ renamed \subseteq renamed'
        /\ IsApp(r[1])' => /\ IsApp(r[1]) /\ apps'[r[1]].user = apps[r[1]].user
                           /\ r[1] \notin renamed' => apps'[r[1]].name = apps[r[1]].name
    BY <1>1, <1>2, <2>1 DEF Keeps
  <2>. QED
    BY <2>1, <2>2
<1>3. c.pc = "writeUser" /\ c.op = "remove" /\ IsUser(c.user)' => users'[c.user].username = c.name
  BY DEF Bound, Keeps
<1>4. c.todo \subseteq born' /\ (c.pc = "writeUser" => c.user \in born') /\ (c.pc = "writeApp" => c.app \in born')
  BY DEF Bound, Keeps
<1>. QED
  BY <1>2, <1>3, <1>4 DEF Bound, IsUser, IsApp

\* A step of one call keeps the invariant if it keeps what the others know.
LEMMA StepBound ==
    ASSUME TypeInv, IndexInv, StoreInv', Keeps, NEW p \in Proc, NEW c \in Call, Bound(c),
           c.pc = "writeUser" => c.user \in UserId,
           call' = [call EXCEPT ![p] = c]
    PROVE  IndexInv'
<1>. SUFFICES ASSUME NEW q \in Proc PROVE Bound(call[q])'
  BY DEF IndexInv
<1>1. call \in [Proc -> Call] /\ Sound(call[q], taken[q], owed[q])
  BY DEF TypeInv, TypeOK
<1>2. ASSUME NEW x \in Call, Bound(x), x.pc = "writeUser" => x.user \in UserId, x = call'[q]
      PROVE  Bound(call[q])'
  <2>1. Bound(x)'
    BY <1>2, BoundKept
  <2>. QED
    BY <1>2, <2>1 DEF Bound
<1>3. CASE q = p
  BY <1>1, <1>2, <1>3
<1>4. CASE q # p
  <2>1. call'[q] = call[q] /\ Bound(call[q]) /\ (call[q].pc = "writeUser" => call[q].user \in UserId)
    BY <1>1, <1>4 DEF IndexInv, Sound
  <2>. QED
    BY <1>1, <1>2, <2>1
<1>. QED
  BY <1>3, <1>4

\* A step that writes nothing.
LEMMA ReadBound ==
    ASSUME TypeInv, IndexInv, NEW p \in Proc, NEW c \in Call, Bound(c),
           c.pc = "writeUser" => c.user \in UserId,
           call' = [call EXCEPT ![p] = c], UNCHANGED <<store, born, renamed>>
    PROVE  IndexInv'
<1>1. StoreInv'
  BY DEF IndexInv, StoreInv, Unborn, NamesKept, IndexesFollow, IsUser, IsApp, store
<1>2. Keeps
  BY DEF Keeps, IsUser, IsApp, store
<1>. QED
  BY <1>1, <1>2, StepBound

\* What is there has been inserted.
LEMMA ThereBorn ==
    ASSUME IndexInv
    PROVE  /\ \A u \in UserId : IsUser(u) => u \in born
           /\ \A a \in AppId : IsApp(a) => a \in born
           /\ \A u \in UserId : userApps[u] \cap AppId \subseteq born
<1>1. /\ \A u \in UserId : IsUser(u) => u \in born
      /\ \A a \in AppId : IsApp(a) => a \in born
  BY DEF IndexInv, StoreInv, Unborn, IsUser, IsApp
<1>. QED
  BY <1>1 DEF IndexInv, StoreInv, IndexesFollow

\* A call that removes nothing and lists nothing knows nothing.
LEMMA BoundIdle == Bound(Idle) /\ Idle.pc # "writeUser" /\ Idle \in Call
  BY IdleTyped DEF Bound, Idle

\* An insertion of a user begins, or goes on.
LEMMA InsertUserIndexed ==
    ASSUME TypeInv, IndexInv, NEW p \in Proc, NEW n \in Username, InsertUser(p, n)
    PROVE  IndexInv'
<1>1. CASE call' = [call EXCEPT ![p] = [Idle EXCEPT !.op = "insert", !.name = n, !.pc = "addUser"]]
  <2>. DEFINE c == [Idle EXCEPT !.op = "insert", !.name = n, !.pc = "addUser"]
  <2>1. c \in Call /\ Bound(c) /\ c.pc # "writeUser"
    BY DEF Idle, Call, Bound
  <2>. QED
    BY <1>1, <2>1, ReadBound DEF InsertUser
<1>2. ASSUME NEW u \in usernames[n],
             call' = [call EXCEPT ![p] = [Idle EXCEPT !.op = "insert", !.name = n, !.pc = "findUser", !.user = u]]
      PROVE  IndexInv'
  <2>. DEFINE c == [Idle EXCEPT !.op = "insert", !.name = n, !.pc = "findUser", !.user = u]
  <2>1. u \in UserId
    BY DEF TypeInv, TypeOK
  <2>2. c \in Call /\ Bound(c) /\ c.pc # "writeUser"
    BY <2>1 DEF Idle, Call, Bound
  <2>. QED
    BY <1>2, <2>2, ReadBound DEF InsertUser
<1>. QED
  BY <1>1, <1>2 DEF InsertUser

\* A call that only reads and is over.
LEMMA QuitIndexed ==
    ASSUME TypeInv, IndexInv, NEW p \in Proc, Quit(p), UNCHANGED <<store, born, renamed>>
    PROVE  IndexInv'
  BY BoundIdle, ReadBound DEF Quit

\* The user behind the name has been read.
LEMMA FindUserIndexed ==
    ASSUME TypeInv, IndexInv, NEW p \in Proc, FindUser(p)
    PROVE  IndexInv'
<1>1. CASE Become(p, [call[p] EXCEPT !.pc = "addUser", !.user = None])
  <2>. DEFINE c == [call[p] EXCEPT !.pc = "addUser", !.user = None]
  <2>1. call[p] \in Call /\ Bound(call[p])
    BY DEF TypeInv, TypeOK, IndexInv
  <2>2. c \in Call /\ c.pc # "writeUser"
    BY <2>1 DEF Call
  <2>3. Bound(c)
    BY <2>1 DEF Call, Bound
  <2>. QED
    BY <1>1, <2>2, <2>3, ReadBound DEF FindUser, Become
<1>. QED
  BY <1>1, QuitIndexed DEF FindUser

\* A user is inserted.
LEMMA AddUserIndexed ==
    ASSUME TypeInv, IndexInv, NEW p \in Proc, AddUser(p)
    PROVE  IndexInv' /\ Keeps
<1>. DEFINE n == call[p].name
<1>1. PICK u \in UserId \ born :
         /\ users' = [users EXCEPT ![u] = [username |-> n, isActive |-> TRUE]]
         /\ usernames' = [usernames EXCEPT ![n] = @ \cup {u}]
         /\ born' = born \cup {u}
  BY DEF AddUser
<1>2. n \in Username
  BY DEF AddUser, At, TypeInv, Sound
<1>3. [username |-> n, isActive |-> TRUE] \notin {None, Ghost}
  BY <1>2, HashTyped DEF User
<1>4. users[u] = None /\ UNCHANGED <<apps, userApps, appNames, renamed>>
  BY DEF AddUser, IndexInv, StoreInv, Unborn
<1>5. Keeps
  BY <1>1, <1>3, <1>4 DEF Keeps, IsUser, IsApp, TypeInv, TypeOK
<1>6. Unborn' /\ NamesKept'
  BY <1>1, <1>4 DEF IndexInv, StoreInv, Unborn, NamesKept, IsApp, TypeInv, TypeOK
<1>7. IndexesFollow'
  <2>1. \A v \in UserId, m \in Username :
          v \in usernames'[m] <=> users'[v] \notin {None, Ghost} /\ users'[v].username = m
    BY <1>1, <1>2, <1>3, <1>4 DEF IndexInv, StoreInv, IndexesFollow, IsUser, TypeInv, TypeOK
  <2>. QED
    BY <2>1, <1>4 DEF IndexInv, StoreInv, IndexesFollow, IsUser, IsApp
<1>8. call' = [call EXCEPT ![p] = Idle]
  BY DEF AddUser, Quit
<1>. QED
  BY <1>5, <1>6, <1>7, <1>8, BoundIdle, StepBound DEF StoreInv

\* An operation on a user begins.
LEMMA UserOpIndexed ==
    ASSUME TypeInv, IndexInv, NEW p \in Proc, NEW op \in {"remove", "activate", "deactivate", "update"}, NEW u \in UserId,
           UserOp(p, op, u)
    PROVE  IndexInv'
<1>. DEFINE n == IF op = "remove" THEN users[u].username ELSE None
            c == [Idle EXCEPT !.pc = "writeUser", !.op = op, !.user = u, !.name = n]
<1>1. IsUser(u) /\ u \in born /\ call' = [call EXCEPT ![p] = c]
  BY ThereBorn DEF UserOp
<1>2. op = "remove" => users[u].username \in Username
  BY <1>1, HashTyped DEF User
<1>3. c \in Call /\ c.user \in UserId
  BY <1>2 DEF Idle, Call
<1>4. Bound(c)
  BY <1>1 DEF Bound, Idle
<1>. QED
  BY <1>1, <1>3, <1>4, ReadBound DEF UserOp

\* A user is activated, deactivated or updated.
LEMMA WriteUserIndexed ==
    ASSUME TypeInv, IndexInv, NEW p \in Proc, WriteUser(p)
    PROVE  IndexInv' /\ Keeps
<1>. DEFINE u == call[p].user  op == call[p].op
            c == IF op = "deactivate" THEN [call[p] EXCEPT !.pc = "listApps"] ELSE Idle
<1>1. /\ u \in UserId /\ op \in {"activate", "deactivate", "update"} /\ call[p].pc = "writeUser"
      /\ call[p] \in Call /\ Bound(call[p]) /\ u \in born /\ call' = [call EXCEPT ![p] = c]
  BY DEF WriteUser, At, TypeInv, TypeOK, Sound, IndexInv, Bound
<1>2. /\ UNCHANGED <<usernames, apps, userApps, appNames, born, renamed>>
      /\ \A v \in UserId : v # u => users'[v] = users[v]
  BY <1>1 DEF WriteUser, TypeInv, TypeOK
<1>3. IF IsUser(u) THEN users'[u] \in User /\ users'[u].username = users[u].username ELSE users'[u] = Ghost
  <2>1. CASE ~IsUser(u)
    BY <1>1, <2>1 DEF WriteUser, TypeInv, TypeOK
  <2>2. CASE IsUser(u) /\ op = "activate"
    <3>1. users'[u] = [users[u] EXCEPT !.isActive = TRUE]
      BY <1>1, <2>2 DEF WriteUser, TypeInv, TypeOK
    <3>. QED
      BY <1>1, <2>2, <3>1, HashTyped DEF User
  <2>3. CASE IsUser(u) /\ op = "deactivate"
    <3>1. users'[u] = [users[u] EXCEPT !.isActive = FALSE]
      BY <1>1, <2>3 DEF WriteUser, TypeInv, TypeOK
    <3>. QED
      BY <1>1, <2>3, <3>1, HashTyped DEF User
  <2>4. CASE IsUser(u) /\ op = "update"
    <3>1. users'[u] = users[u]
      BY <1>1, <2>4 DEF WriteUser, TypeInv, TypeOK
    <3>. QED
      BY <1>1, <2>4, <3>1, HashTyped
  <2>. QED
    BY <1>1, <2>1, <2>2, <2>3, <2>4
<1>4. \A v \in UserId : /\ IsUser(v)' <=> IsUser(v)
                        /\ IsUser(v) => users'[v].username = users[v].username
  BY <1>1, <1>2, <1>3, HashTyped DEF IsUser
<1>5. Keeps
  BY <1>2, <1>4 DEF Keeps, IsApp
<1>6. Unborn' /\ NamesKept'
  BY <1>1, <1>2 DEF IndexInv, StoreInv, Unborn, NamesKept, IsApp
<1>7. IndexesFollow'
  BY <1>2, <1>4 DEF IndexInv, StoreInv, IndexesFollow, IsApp
<1>8. c \in Call /\ Bound(c) /\ c.pc # "writeUser"
  <2>1. CASE op = "deactivate"
    BY <1>1, <2>1 DEF Call, Bound
  <2>2. CASE op # "deactivate"
    BY <2>2, BoundIdle
  <2>. QED
    BY <2>1, <2>2
<1>. QED
  BY <1>1, <1>5, <1>6, <1>7, <1>8, StepBound DEF StoreInv

\* A user is removed.
LEMMA DelUserIndexed ==
    ASSUME TypeInv, IndexInv, NEW p \in Proc, DelUser(p)
    PROVE  IndexInv' /\ Keeps
<1>. DEFINE u == call[p].user  n == call[p].name
            c == [call[p] EXCEPT !.pc = "listApps", !.name = None]
<1>1. /\ u \in UserId /\ n \in Username /\ call[p].pc = "writeUser" /\ call[p].op = "remove"
      /\ call[p] \in Call /\ Bound(call[p]) /\ u \in born
  BY DEF DelUser, At, TypeInv, TypeOK, Sound, IndexInv, Bound
<1>2. /\ users' = [users EXCEPT ![u] = None] /\ usernames' = [usernames EXCEPT ![n] = @ \ {u}]
      /\ UNCHANGED <<apps, userApps, appNames, born, renamed>>
  BY DEF DelUser, Released
<1>3. IsUser(u) => users[u].username = n
  BY <1>1 DEF Bound
<1>4. Keeps
  BY <1>1, <1>2 DEF Keeps, IsUser, IsApp, TypeInv, TypeOK
<1>5. Unborn' /\ NamesKept'
  BY <1>1, <1>2 DEF IndexInv, StoreInv, Unborn, NamesKept, IsApp, TypeInv, TypeOK
<1>6. IndexesFollow'
  <2>1. \A v \in UserId, m \in Username :
          v \in usernames'[m] <=> users'[v] \notin {None, Ghost} /\ users'[v].username = m
    BY <1>1, <1>2, <1>3 DEF IndexInv, StoreInv, IndexesFollow, IsUser, TypeInv, TypeOK
  <2>. QED
    BY <2>1, <1>2 DEF IndexInv, StoreInv, IndexesFollow, IsUser, IsApp
<1>7. c \in Call /\ c.pc # "writeUser" /\ Bound(c)
  BY <1>1 DEF Call, Bound
<1>8. call' = [call EXCEPT ![p] = c]
  <2>1. call' = [call EXCEPT ![p].pc = "listApps", ![p].name = None]
    BY DEF DelUser
  <2>. QED
    BY <2>1 DEF TypeInv, TypeOK
<1>. QED
  BY <1>4, <1>5, <1>6, <1>7, <1>8, StepBound DEF StoreInv

\* The applications of a user are listed.
LEMMA ListAppsIndexed ==
    ASSUME TypeInv, IndexInv, NEW p \in Proc, ListApps(p)
    PROVE  IndexInv'
<1>. DEFINE s == userApps[call[p].user]
            c == [Idle EXCEPT !.pc = "cascade", !.op = call[p].op, !.todo = s]
<1>1. call[p].user \in UserId /\ call[p].op \in {"remove", "deactivate"}
  BY DEF ListApps, At, TypeInv, Sound
<1>2. s \in SUBSET AppId /\ s \subseteq born
  BY <1>1, ThereBorn DEF TypeInv, TypeOK
<1>3. c \in Call /\ c.pc # "writeUser" /\ Bound(c)
  BY <1>1, <1>2 DEF Idle, Call, Bound
<1>4. call' = [call EXCEPT ![p] = c]
  BY DEF ListApps, Become, Listed
<1>. QED
  BY <1>3, <1>4, ReadBound DEF ListApps

\* An insertion of an application begins.
LEMMA InsertAppIndexed ==
    ASSUME TypeInv, IndexInv, NEW p \in Proc, NEW u \in UserId, NEW n \in NewName, InsertApp(p, u, n)
    PROVE  IndexInv'
<1>. DEFINE c == [Idle EXCEPT !.pc = "findAppName", !.op = "insert", !.user = u, !.name = n]
<1>1. n \in AppName
  BY ConsumersAssumption
<1>2. c \in Call /\ Bound(c) /\ c.pc # "writeUser"
  BY <1>1 DEF Idle, Call, Bound
<1>. QED
  BY <1>2, ReadBound DEF InsertApp

\* The ids under the name have been read.
LEMMA FindAppNameIndexed ==
    ASSUME TypeInv, IndexInv, NEW p \in Proc, FindAppName(p)
    PROVE  IndexInv'
<1>1. call[p] \in Call /\ Bound(call[p]) /\ call[p].name \in AppName
  BY DEF FindAppName, At, TypeInv, TypeOK, Sound, IndexInv
<1>2. CASE Goto(p, "addApp")
  <2>. DEFINE c == [call[p] EXCEPT !.pc = "addApp"]
  <2>1. c \in Call /\ c.pc # "writeUser"
    BY <1>1 DEF Call
  <2>2. Bound(c)
    BY <1>1 DEF Call, Bound
  <2>. QED
    BY <1>2, <2>1, <2>2, ReadBound DEF FindAppName, Goto, Become
<1>3. ASSUME NEW a \in appNames[call[p].name], Become(p, [call[p] EXCEPT !.pc = "findApp", !.app = a])
      PROVE  IndexInv'
  <2>. DEFINE c == [call[p] EXCEPT !.pc = "findApp", !.app = a]
  <2>1. a \in AppId
    BY <1>1 DEF TypeInv, TypeOK
  <2>2. c \in Call /\ c.pc # "writeUser"
    BY <1>1, <2>1 DEF Call
  <2>3. Bound(c)
    BY <1>1 DEF Call, Bound
  <2>. QED
    BY <1>3, <2>2, <2>3, ReadBound DEF FindAppName, Become
<1>. QED
  BY <1>2, <1>3, QuitIndexed DEF FindAppName

\* The application of the name has been read.
LEMMA FindAppIndexed ==
    ASSUME TypeInv, IndexInv, NEW p \in Proc, FindApp(p)
    PROVE  IndexInv'
<1>1. CASE Become(p, [call[p] EXCEPT !.pc = "addApp", !.app = None])
  <2>. DEFINE c == [call[p] EXCEPT !.pc = "addApp", !.app = None]
  <2>1. call[p] \in Call /\ Bound(call[p])
    BY DEF TypeInv, TypeOK, IndexInv
  <2>2. c \in Call /\ c.pc # "writeUser"
    BY <2>1 DEF Call
  <2>3. Bound(c)
    BY <2>1 DEF Call, Bound
  <2>. QED
    BY <1>1, <2>2, <2>3, ReadBound DEF FindApp, Become
<1>. QED
  BY <1>1, QuitIndexed DEF FindApp

\* An application is inserted.
LEMMA AddAppIndexed ==
    ASSUME TypeInv, IndexInv, NEW p \in Proc, AddApp(p)
    PROVE  IndexInv' /\ Keeps
<1>. DEFINE u == call[p].user  n == call[p].name  h == [name |-> n, user |-> u, isActive |-> TRUE]
<1>1. u \in UserId /\ n \in AppName
  BY DEF AddApp, At, TypeInv, Sound
<1>2. PICK a \in AppId \ born :
         /\ apps' = [apps EXCEPT ![a] = h]
         /\ userApps' = [userApps EXCEPT ![u] = @ \cup {a}]
         /\ appNames' = [appNames EXCEPT ![n] = @ \cup {a}]
         /\ born' = born \cup {a}
  BY DEF AddApp
<1>3. h \notin {None, Ghost} /\ h.user = u /\ h.name = n
  BY <1>1, HashTyped DEF App
<1>. HIDE DEF h
<1>4. /\ apps[a] = None /\ \A m \in AppName : a \notin appNames[m]
      /\ UNCHANGED <<users, usernames, renamed>>
  BY DEF AddApp, IndexInv, StoreInv, Unborn
<1>5. Keeps
  BY <1>2, <1>3, <1>4 DEF Keeps, IsUser, IsApp, TypeInv, TypeOK
<1>6. Unborn'
  BY <1>1, <1>2, <1>4 DEF IndexInv, StoreInv, Unborn, TypeInv, TypeOK
<1>7. NamesKept'
  BY <1>1, <1>2, <1>3, <1>4 DEF IndexInv, StoreInv, NamesKept, IsApp, TypeInv, TypeOK
<1>8. IndexesFollow'
  <2>1. \A b \in AppId, v \in UserId :
          b \in userApps'[v] <=> apps'[b] \notin {None, Ghost} /\ apps'[b].user = v
    BY <1>1, <1>2, <1>3, <1>4 DEF IndexInv, StoreInv, IndexesFollow, IsApp, TypeInv, TypeOK
  <2>2. \A m \in AppName : \A b \in appNames'[m] : apps'[b] \notin {None, Ghost} \/ b \in renamed
    BY <1>1, <1>2, <1>3, <1>4 DEF IndexInv, StoreInv, IndexesFollow, IsApp, TypeInv, TypeOK
  <2>. QED
    BY <2>1, <2>2, <1>4 DEF IndexInv, StoreInv, IndexesFollow, IsUser, IsApp
<1>9. call' = [call EXCEPT ![p] = Idle]
  BY DEF AddApp, Quit
<1>. QED
  BY <1>5, <1>6, <1>7, <1>8, <1>9, BoundIdle, StepBound DEF StoreInv

\* An operation on an application begins.
LEMMA AppOpIndexed ==
    ASSUME TypeInv, IndexInv, NEW p \in Proc, NEW op \in {"remove", "activate", "deactivate", "update"}, NEW a \in AppId,
           NEW n \in AppName \cup {None}, op = "update" => n \in AppName, AppOp(p, op, a, n), TypeInv'
    PROVE  IndexInv'
<1>. DEFINE c == AppCall(op, a, n)
<1>1. IsApp(a) /\ a \in born /\ call' = [call EXCEPT ![p] = c] /\ UNCHANGED <<store, born, renamed>>
  BY ThereBorn DEF AppOp, AppCall, hist
<1>2. c \in Call
  BY <1>1 DEF TypeInv, TypeOK
<1>3. Bound(c) /\ c.pc # "writeUser"
  <2>1. CASE op = "remove"
    <3>1. c.todo = {} /\ c.pc = "cascade" /\ c.read = {Fields(a)}
      BY <2>1 DEF AppCall, Idle
    <3>2. Fields(a)[1] = a /\ Fields(a)[2] = apps[a].name /\ Fields(a)[3] = apps[a].user
      BY DEF Fields
    <3>. QED
      BY <1>1, <3>1, <3>2 DEF Bound
  <2>2. CASE op = "deactivate"
    <3>1. c.todo = {a} /\ c.pc = "cascade" /\ c.read = {}
      BY <2>2 DEF AppCall, Idle
    <3>. QED
      BY <1>1, <3>1 DEF Bound
  <2>3. CASE op \in {"activate", "update"}
    <3>1. c.todo = {} /\ c.pc = "writeApp" /\ c.app = a /\ c.read = {}
      BY <2>3 DEF AppCall, Idle
    <3>. QED
      BY <1>1, <3>1 DEF Bound
  <2>. QED
    BY <2>1, <2>2, <2>3
<1>. QED
  BY <1>1, <1>2, <1>3, ReadBound

\* One hash of an application is written, over what it was: the indexes hold.
LEMMA AppRewritten ==
    ASSUME TypeInv, IndexInv, NEW a \in AppId, a \in born,
           UNCHANGED <<users, usernames, userApps, appNames, born>>,
           renamed \subseteq renamed',
           \A b \in AppId : b # a => apps'[b] = apps[b],
           IF IsApp(a) THEN /\ apps'[a] \in App /\ apps'[a].user = apps[a].user
                            /\ apps'[a].name = apps[a].name \/ a \in renamed'
                       ELSE apps'[a] = Ghost
    PROVE  StoreInv' /\ Keeps
<1>1. \A b \in AppId : /\ IsApp(b)' <=> IsApp(b)
                       /\ IsApp(b) => /\ apps'[b].user = apps[b].user
                                      /\ apps'[b].name = apps[b].name \/ b \in renamed'
  BY HashTyped DEF IsApp
<1>2. Keeps
  BY <1>1 DEF Keeps, IsUser
<1>3. Unborn'
  BY DEF IndexInv, StoreInv, Unborn
<1>4. NamesKept'
  <2>1. \A n \in AppName : appNames[n] \subseteq AppId
    BY DEF TypeInv, TypeOK
  <2>. QED
    BY <1>1, <2>1 DEF IndexInv, StoreInv, NamesKept
<1>5. IndexesFollow'
  <2>1. \A n \in AppName : appNames[n] \subseteq AppId
    BY DEF TypeInv, TypeOK
  <2>. QED
    BY <1>1, <2>1 DEF IndexInv, StoreInv, IndexesFollow, IsUser
<1>. QED
  BY <1>2, <1>3, <1>4, <1>5 DEF StoreInv

\* An application is activated or updated.
LEMMA WriteAppIndexed ==
    ASSUME TypeInv, IndexInv, NEW p \in Proc, WriteApp(p)
    PROVE  IndexInv' /\ Keeps
<1>. DEFINE a == call[p].app  op == call[p].op
<1>1. /\ a \in AppId /\ op \in {"activate", "update"} /\ call[p].pc = "writeApp" /\ a \in born
      /\ op = "update" => call[p].name \in AppName
  BY DEF WriteApp, At, TypeInv, TypeOK, Sound, IndexInv, Bound
<1>2. /\ UNCHANGED <<users, usernames, userApps, appNames, born>>
      /\ \A b \in AppId : b # a => apps'[b] = apps[b]
      /\ call' = [call EXCEPT ![p] = Idle]
  BY <1>1 DEF WriteApp, TypeInv, TypeOK
<1>3. renamed' = IF op = "update" THEN renamed \cup {a} ELSE renamed
  BY <1>1 DEF WriteApp
<1>4. IF IsApp(a) THEN /\ apps'[a] \in App /\ apps'[a].user = apps[a].user
                       /\ apps'[a].name = apps[a].name \/ a \in renamed'
                  ELSE apps'[a] = Ghost
  <2>1. CASE ~IsApp(a)
    BY <1>1, <2>1 DEF WriteApp, TypeInv, TypeOK
  <2>2. CASE IsApp(a) /\ op = "activate"
    <3>1. apps'[a] = [apps[a] EXCEPT !.isActive = TRUE]
      BY <1>1, <2>2 DEF WriteApp, TypeInv, TypeOK
    <3>. QED
      BY <1>1, <2>2, <3>1, HashTyped DEF App
  <2>3. CASE IsApp(a) /\ op = "update"
    <3>1. apps'[a] = [apps[a] EXCEPT !.name = call[p].name]
      BY <1>1, <2>3 DEF WriteApp, TypeInv, TypeOK
    <3>. QED
      BY <1>1, <1>3, <2>3, <3>1, HashTyped DEF App
  <2>. QED
    BY <1>1, <2>1, <2>2, <2>3
<1>5. StoreInv' /\ Keeps
  BY <1>1, <1>2, <1>3, <1>4, AppRewritten
<1>. QED
  BY <1>2, <1>5, BoundIdle, StepBound

\* An application is deactivated.
LEMMA DeactivateAppIndexed ==
    ASSUME TypeInv, IndexInv, NEW p \in Proc, NEW a, DeactivateApp(p, a)
    PROVE  IndexInv' /\ Keeps
<1>. DEFINE c == [call[p] EXCEPT !.todo = @ \ {a}]
<1>1. /\ call[p] \in Call /\ Bound(call[p]) /\ call[p].pc = "cascade"
      /\ a \in AppId /\ a \in born
  BY DEF DeactivateApp, At, TypeInv, TypeOK, Call, IndexInv, Bound
<1>2. c \in Call /\ c.pc # "writeUser" /\ Bound(c)
  BY <1>1 DEF Call, Bound
<1>3. /\ UNCHANGED <<users, usernames, userApps, appNames, born, renamed>>
      /\ call' = [call EXCEPT ![p] = c]
      /\ apps' = [apps EXCEPT ![a] = IF IsApp(a) THEN [@ EXCEPT !.isActive = FALSE] ELSE Ghost]
  BY DEF DeactivateApp, Become
<1>4. IF IsApp(a) THEN apps'[a] \in App /\ apps'[a].user = apps[a].user /\ apps'[a].name = apps[a].name
                  ELSE apps'[a] = Ghost
  <2>1. CASE IsApp(a)
    <3>1. apps'[a] = [apps[a] EXCEPT !.isActive = FALSE]
      BY <1>1, <1>3, <2>1 DEF TypeInv, TypeOK
    <3>. QED
      BY <1>1, <2>1, <3>1, HashTyped DEF App
  <2>2. CASE ~IsApp(a)
    BY <1>1, <1>3, <2>2 DEF TypeInv, TypeOK
  <2>. QED
    BY <2>1, <2>2
<1>5. \A b \in AppId : b # a => apps'[b] = apps[b]
  BY <1>3 DEF TypeInv, TypeOK
<1>6. StoreInv' /\ Keeps
  BY <1>1, <1>3, <1>4, <1>5, AppRewritten
<1>. QED
  BY <1>2, <1>3, <1>6, StepBound

\* An application to be removed is read.
LEMMA ReadListedIndexed ==
    ASSUME TypeInv, IndexInv, NEW p \in Proc, NEW a, ReadListed(p, a), TypeInv'
    PROVE  IndexInv'
<1>. DEFINE r == IF IsApp(a) THEN call[p].read \cup {Fields(a)} ELSE call[p].read
            c == [call[p] EXCEPT !.todo = @ \ {a}, !.read = r]
<1>1. /\ call[p] \in Call /\ Bound(call[p]) /\ call[p].pc = "cascade"
      /\ a \in AppId /\ a \in born
  BY DEF ReadListed, At, TypeInv, TypeOK, Call, IndexInv, Bound
<1>2. call' = [call EXCEPT ![p] = c] /\ UNCHANGED <<store, born, renamed>>
  BY DEF ReadListed, Become
<1>3. c \in Call
  BY <1>2 DEF TypeInv, TypeOK
<1>4. c.pc = "cascade" /\ c.todo \subseteq born /\ c.read = r
  BY <1>1 DEF Call, Bound
<1>5. ASSUME NEW t \in r
      PROVE  /\ t[1] \in born
             /\ IsApp(t[1]) => t[3] = apps[t[1]].user /\ (t[1] \notin renamed => t[2] = apps[t[1]].name)
  <2>1. CASE t \in call[p].read
    BY <1>1, <2>1 DEF Bound
  <2>2. CASE t = Fields(a)
    BY <1>1, <2>2 DEF Fields
  <2>. QED
    BY <2>1, <2>2
<1>6. Bound(c) /\ c.pc # "writeUser"
  BY <1>4, <1>5 DEF Bound
<1>. QED
  BY <1>2, <1>3, <1>6, ReadBound

\* An application is removed.
LEMMA DelAppIndexed ==
    ASSUME TypeInv, IndexInv, NEW p \in Proc, NEW r \in call[p].read, DelApp(p, r)
    PROVE  IndexInv' /\ Keeps
<1>. DEFINE c == [call[p] EXCEPT !.read = @ \ {r}]  a == r[1]  n == r[2]  u == r[3]
<1>1. /\ call[p] \in Call /\ Bound(call[p]) /\ call[p].pc = "cascade"
      /\ a \in AppId /\ n \in AppName /\ u \in UserId
  BY DEF DelApp, At, TypeInv, TypeOK, Call, IndexInv
<1>2. /\ a \in born
      /\ IsApp(a) => u = apps[a].user /\ (a \notin renamed => n = apps[a].name)
  BY <1>1 DEF Bound
<1>3. c \in Call /\ c.pc # "writeUser" /\ Bound(c)
  BY <1>1 DEF Call, Bound
<1>4. /\ apps' = [apps EXCEPT ![a] = None]
      /\ appNames' = [appNames EXCEPT ![n] = @ \ {a}]
      /\ userApps' = [userApps EXCEPT ![u] = @ \ {a}]
      /\ UNCHANGED <<users, usernames, born, renamed>>
      /\ call' = [call EXCEPT ![p] = c]
  BY DEF DelApp, Unnamed, Disowned, Become
<1>. HIDE DEF a, n, u, c
<1>5. Keeps
  BY <1>1, <1>4 DEF Keeps, IsUser, IsApp, TypeInv, TypeOK
<1>6. Unborn'
  BY <1>1, <1>2, <1>4 DEF IndexInv, StoreInv, Unborn, TypeInv, TypeOK
<1>7. NamesKept'
  BY <1>1, <1>4 DEF IndexInv, StoreInv, NamesKept, IsApp, TypeInv, TypeOK
<1>8. IndexesFollow'
  <2>1. \A b \in AppId, v \in UserId :
          b \in userApps'[v] <=> apps'[b] \notin {None, Ghost} /\ apps'[b].user = v
    BY <1>1, <1>2, <1>4 DEF IndexInv, StoreInv, IndexesFollow, IsApp, TypeInv, TypeOK
  <2>2. ASSUME NEW m \in AppName, NEW b \in appNames'[m]
        PROVE  apps'[b] \notin {None, Ghost} \/ b \in renamed
    <3>1. b \in appNames[m] /\ b \in AppId
      BY <1>1, <1>4, <2>2 DEF TypeInv, TypeOK
    <3>2. IsApp(b) \/ b \in renamed
      BY <3>1 DEF IndexInv, StoreInv, IndexesFollow
    <3>3. CASE b # a
      BY <1>1, <1>4, <3>1, <3>2, <3>3 DEF IsApp, TypeInv, TypeOK
    <3>4. CASE b = a /\ b \notin renamed
      <4>1. m = apps[a].name /\ n = m
        BY <1>2, <3>1, <3>2, <3>4 DEF IndexInv, StoreInv, NamesKept
      <4>. QED
        BY <1>1, <1>4, <2>2, <3>4, <4>1 DEF TypeInv, TypeOK
    <3>. QED
      BY <3>3, <3>4
  <2>. QED
    BY <2>1, <2>2, <1>4 DEF IndexInv, StoreInv, IndexesFollow, IsUser, IsApp
<1>. QED
  BY <1>3, <1>4, <1>5, <1>6, <1>7, <1>8, StepBound DEF StoreInv

\* Hashes that are not touched keep all that is known of them.
LEMMA SameKeeps == UNCHANGED <<store, born, renamed>> => Keeps
  BY DEF Keeps, IsUser, IsApp, store

\* No step breaks the indexes, or does what Keeps excludes.
LEMMA NextIndexed == TypeInv /\ IndexInv /\ TypeInv' /\ [Next]_vars => IndexInv' /\ Keeps
<1>. SUFFICES ASSUME TypeInv, IndexInv, TypeInv', [Next]_vars PROVE IndexInv' /\ Keeps
  OBVIOUS
<1>1. CASE UNCHANGED vars
  <2>1. IndexInv'
    BY <1>1 DEF IndexInv, StoreInv, Unborn, NamesKept, IndexesFollow, Bound, IsUser, IsApp, vars, store, hist
  <2>. QED
    BY <1>1, <2>1, SameKeeps DEF vars, hist
<1>2. ASSUME NEW p \in Proc, Request(p) PROVE IndexInv' /\ Keeps
  <2>1. ASSUME NEW n \in Username, InsertUser(p, n) PROVE IndexInv' /\ Keeps
    BY <2>1, InsertUserIndexed, SameKeeps DEF InsertUser
  <2>2. ASSUME NEW u \in UserId, NEW op \in {"remove", "activate", "deactivate", "update"}, UserOp(p, op, u)
        PROVE  IndexInv' /\ Keeps
    BY <2>2, UserOpIndexed, SameKeeps DEF UserOp
  <2>3. ASSUME NEW u \in UserId, NEW n \in NewName, InsertApp(p, u, n) PROVE IndexInv' /\ Keeps
    BY <2>3, InsertAppIndexed, SameKeeps DEF InsertApp
  <2>4. ASSUME NEW a \in AppId, NEW op \in {"remove", "activate", "deactivate", "update"},
               NEW n \in AppName \cup {None}, op = "update" => n \in AppName, AppOp(p, op, a, n)
        PROVE  IndexInv' /\ Keeps
    BY <2>4, AppOpIndexed, SameKeeps DEF AppOp, hist
  <2>. QED
    BY <1>2, <2>1, <2>2, <2>3, <2>4 DEF Request
<1>3. ASSUME NEW p \in Proc, UserStep(p) PROVE IndexInv' /\ Keeps
  <2>1. CASE FindUser(p)
    BY <2>1, FindUserIndexed, SameKeeps DEF FindUser
  <2>2. CASE ListApps(p)
    BY <2>2, ListAppsIndexed, SameKeeps DEF ListApps
  <2>. QED
    BY <1>3, <2>1, <2>2, AddUserIndexed, WriteUserIndexed, DelUserIndexed DEF UserStep
<1>4. ASSUME NEW p \in Proc, AppStep(p) PROVE IndexInv' /\ Keeps
  <2>1. CASE FindAppName(p)
    BY <2>1, FindAppNameIndexed, SameKeeps DEF FindAppName
  <2>2. CASE FindApp(p)
    BY <2>2, FindAppIndexed, SameKeeps DEF FindApp
  <2>3. ASSUME NEW a, ReadListed(p, a) PROVE IndexInv' /\ Keeps
    BY <2>3, ReadListedIndexed, SameKeeps DEF ReadListed
  <2>4. CASE Answer(p)
    BY <2>4, QuitIndexed, SameKeeps DEF Answer
  <2>. QED
    BY <1>4, <2>1, <2>2, <2>3, <2>4, AddAppIndexed, WriteAppIndexed, DeactivateAppIndexed, DelAppIndexed DEF AppStep
<1>5. ASSUME NEW p \in Proc, Crash(p) PROVE IndexInv' /\ Keeps
  BY <1>5, QuitIndexed, SameKeeps DEF Crash
<1>. QED
  BY <1>1, <1>2, <1>3, <1>4, <1>5 DEF Next

\* The indexes follow throughout.
LEMMA IndexAlways == Spec => []IndexInv
<1>1. Init => IndexInv
  BY BoundIdle DEF Init, IndexInv, StoreInv, Unborn, NamesKept, IndexesFollow, IsUser, IsApp, Bound, Idle
<1>. QED
  BY <1>1, NextIndexed, TypeAlways, PTL DEF Spec

\* Whatever inserts, updates and removals overlap, the ids under a username and those of a
\* user's applications are the ids of such users and applications.
THEOREM IndexesAgree == Spec => []IndexesFollow
<1>1. IndexInv => IndexesFollow
  BY DEF IndexInv, StoreInv
<1>. QED
  BY <1>1, IndexAlways, PTL

-----------------------------------------------------------------------------
(* Names that were taken.                                                   *)

\* What call c has found out of the ids t that bore its name when it began: the user it is
\* about to look at is one of them, and it goes on only past one that is gone; as long as
\* an application may still refuse it, the one it looks at does.
Free(c, t) ==
    /\ c.pc \in {"findUser", "addUser"} => t \subseteq UserId \cap born
    /\ c.pc \in {"findAppName", "findApp", "addApp"} => t \subseteq AppId \cap born
    /\ c.pc = "findUser" => c.user \in t
    /\ c.pc = "addUser" => t = {} \/ \E u \in t : ~IsUser(u)
    /\ c.pc = "findAppName" => \A a \in t : IsApp(a) => a \in appNames[c.name] /\ apps[a].user = c.user
    /\ c.pc = "findApp" => \A a \in t : IsApp(a) => a = c.app /\ apps[a].user = c.user
    /\ c.pc = "addApp" => \A a \in t : ~IsApp(a)

FreeInv == \A p \in Proc : Free(call[p], taken[p])

\* An application that is still there is under the names it was under.
NamesHeld == \A a \in AppId, n \in AppName : a \in appNames[n] /\ IsApp(a)' => a \in appNames'[n]

\* What a call has found out stays true.
LEMMA FreeKept ==
    ASSUME NEW c \in Call, NEW t, Free(c, t), Keeps, NamesHeld,
           c.pc = "findAppName" => c.name \in AppName
    PROVE  Free(c, t)'
<1>1. /\ c.pc \in {"findUser", "addUser"} => t \subseteq UserId \cap born'
      /\ c.pc \in {"findAppName", "findApp", "addApp"} => t \subseteq AppId \cap born'
      /\ c.pc = "findUser" => c.user \in t
  BY DEF Free, Keeps
<1>2. ASSUME c.pc \in {"findAppName", "findApp", "addApp"}, NEW a \in t, IsApp(a)'
      PROVE  a \in AppId /\ IsApp(a) /\ apps'[a].user = apps[a].user
  BY <1>2 DEF Free, Keeps
<1>3. ASSUME c.pc = "findAppName", NEW a \in t, IsApp(a)'
      PROVE  a \in appNames'[c.name] /\ apps'[a].user = c.user
  BY <1>2, <1>3 DEF Free, NamesHeld
<1>4. ASSUME c.pc = "findApp", NEW a \in t, IsApp(a)'
      PROVE  a = c.app /\ apps'[a].user = c.user
  BY <1>2, <1>4 DEF Free
<1>5. ASSUME c.pc = "addApp", NEW a \in t
      PROVE  ~IsApp(a)'
  BY <1>2, <1>5 DEF Free
<1>6. ASSUME c.pc = "addUser", t # {}
      PROVE  \E u \in t : ~IsUser(u)'
  BY <1>6 DEF Free, Keeps
<1>. QED
  BY <1>1, <1>3, <1>4, <1>5, <1>6 DEF Free

\* A step of one call.
LEMMA StepFree ==
    ASSUME TypeInv, TypeInv', FreeInv, Keeps, NamesHeld, NEW p \in Proc, NEW c \in Call, NEW t, Free(c, t),
           call' = [call EXCEPT ![p] = c], taken'[p] = t,
           \A q \in Proc : q # p => taken'[q] = taken[q]
    PROVE  FreeInv'
<1>. SUFFICES ASSUME NEW q \in Proc PROVE Free(call[q], taken[q])'
  BY DEF FreeInv
<1>1. ASSUME NEW x \in Call, NEW s, Free(x, s), x = call'[q], s = taken'[q]
      PROVE  Free(call[q], taken[q])'
  <2>1. x.pc = "findAppName" => x.name \in AppName
    BY <1>1 DEF TypeInv, Sound
  <2>2. Free(x, s)'
    BY <1>1, <2>1, FreeKept
  <2>. QED
    BY <1>1, <2>2 DEF Free
<1>2. call \in [Proc -> Call]
  BY DEF TypeInv, TypeOK
<1>3. CASE q = p
  BY <1>1, <1>2, <1>3
<1>4. CASE q # p
  <2>1. call'[q] = call[q] /\ call[q] \in Call /\ Free(call[q], taken[q])
    BY <1>2, <1>4 DEF FreeInv
  <2>. QED
    BY <1>1, <1>4, <2>1
<1>. QED
  BY <1>3, <1>4

\* A step that writes nothing.
LEMMA ReadFree ==
    ASSUME TypeInv, TypeInv', FreeInv, NEW p \in Proc, NEW c \in Call, NEW t, Free(c, t),
           call' = [call EXCEPT ![p] = c], taken'[p] = t,
           \A q \in Proc : q # p => taken'[q] = taken[q],
           UNCHANGED <<store, born, renamed>>
    PROVE  FreeInv'
<1>1. NamesHeld
  BY DEF NamesHeld, store
<1>. QED
  BY <1>1, SameKeeps, StepFree

\* A call that is at none of the points in question.
LEMMA ElsewhereFree ==
    ASSUME NEW c, NEW t, c.pc \in {"idle", "writeUser", "listApps", "writeApp", "cascade"}
    PROVE  Free(c, t)
  BY DEF Free

\* A call that is over, having written nothing in this step.
LEMMA QuitFree ==
    ASSUME TypeInv, TypeInv', FreeInv, NEW p \in Proc, Quit(p), UNCHANGED <<store, born, renamed>>
    PROVE  FreeInv'
<1>1. Idle \in Call /\ Free(Idle, {})
  BY IdleTyped, ElsewhereFree DEF Idle
<1>2. taken'[p] = {} /\ \A q \in Proc : q # p => taken'[q] = taken[q]
  BY DEF Quit, TypeInv, TypeOK
<1>. QED
  BY <1>1, <1>2, ReadFree DEF Quit

\* A call goes on to a point that has nothing to do with names, writing nothing.
LEMMA PassFree ==
    ASSUME TypeInv, TypeInv', FreeInv, NEW p \in Proc, NEW c \in Call,
           c.pc \in {"idle", "writeUser", "listApps", "writeApp", "cascade"},
           call' = [call EXCEPT ![p] = c], UNCHANGED <<store, born, renamed, taken>>
    PROVE  FreeInv'
<1>1. Free(c, taken[p])
  BY ElsewhereFree
<1>. QED
  BY <1>1, ReadFree

\* An insertion of a user begins: with nobody under the name, or with somebody who has it.
LEMMA InsertUserFree ==
    ASSUME TypeInv, TypeInv', IndexInv, FreeInv, NEW p \in Proc, NEW n \in Username, InsertUser(p, n)
    PROVE  FreeInv'
<1>1. taken'[p] = usernames[n] /\ \A q \in Proc : q # p => taken'[q] = taken[q]
  BY DEF InsertUser, TypeInv, TypeOK
<1>2. CASE usernames[n] = {} /\ call' = [call EXCEPT ![p] = [Idle EXCEPT !.op = "insert", !.name = n, !.pc = "addUser"]]
  <2>. DEFINE c == [Idle EXCEPT !.op = "insert", !.name = n, !.pc = "addUser"]
  <2>1. c \in Call
    BY DEF Idle, Call
  <2>2. Free(c, {})
    BY DEF Idle, Free
  <2>. QED
    BY <1>1, <1>2, <2>1, <2>2, ReadFree DEF InsertUser
<1>3. ASSUME NEW u \in usernames[n],
             call' = [call EXCEPT ![p] = [Idle EXCEPT !.op = "insert", !.name = n, !.pc = "findUser", !.user = u]]
      PROVE  FreeInv'
  <2>. DEFINE c == [Idle EXCEPT !.op = "insert", !.name = n, !.pc = "findUser", !.user = u]
  <2>1. u \in UserId
    BY DEF TypeInv, TypeOK
  <2>2. c \in Call
    BY <2>1 DEF Idle, Call
  <2>3. usernames[n] \subseteq UserId \cap born
    BY ThereBorn DEF IndexInv, StoreInv, IndexesFollow, TypeInv, TypeOK
  <2>4. Free(c, usernames[n])
    BY <2>3 DEF Idle, Free
  <2>. QED
    BY <1>1, <1>3, <2>2, <2>4, ReadFree DEF InsertUser
<1>. QED
  BY <1>2, <1>3 DEF InsertUser

\* The user behind the name is gone, who was one of those that bore it.
LEMMA FindUserFree ==
    ASSUME TypeInv, TypeInv', FreeInv, NEW p \in Proc, FindUser(p)
    PROVE  FreeInv'
<1>1. CASE Quit(p)
  BY <1>1, QuitFree DEF FindUser
<1>2. CASE users[call[p].user] = None /\ Become(p, [call[p] EXCEPT !.pc = "addUser", !.user = None])
  <2>. DEFINE c == [call[p] EXCEPT !.pc = "addUser", !.user = None]
  <2>1. call[p] \in Call /\ Free(call[p], taken[p]) /\ call[p].pc = "findUser"
    BY DEF TypeInv, TypeOK, FreeInv, FindUser, At
  <2>2. c \in Call /\ c.pc = "addUser"
    BY <2>1 DEF Call
  <2>3. call[p].user \in taken[p] /\ ~IsUser(call[p].user) /\ taken[p] \subseteq UserId \cap born
    BY <1>2, <2>1 DEF Free, IsUser
  <2>4. Free(c, taken[p])
    BY <2>2, <2>3 DEF Free
  <2>. QED
    BY <1>2, <2>2, <2>4, ReadFree DEF FindUser, Become
<1>. QED
  BY <1>1, <1>2 DEF FindUser

\* An insertion of an application begins.
LEMMA InsertAppFree ==
    ASSUME TypeInv, TypeInv', IndexInv, FreeInv, NEW p \in Proc, NEW u \in UserId, NEW n \in NewName, InsertApp(p, u, n)
    PROVE  FreeInv'
<1>. DEFINE c == [Idle EXCEPT !.pc = "findAppName", !.op = "insert", !.user = u, !.name = n]
            t == {a \in appNames[n] : IsApp(a) /\ apps[a].user = u}
<1>1. n \in AppName
  BY ConsumersAssumption
<1>2. c \in Call /\ c.pc = "findAppName" /\ c.name = n /\ c.user = u
  BY <1>1 DEF Idle, Call
<1>3. taken'[p] = t /\ \A q \in Proc : q # p => taken'[q] = taken[q]
  BY DEF InsertApp, TypeInv, TypeOK
<1>4. t \subseteq AppId \cap born
  BY <1>1, ThereBorn DEF TypeInv, TypeOK
<1>5. Free(c, t)
  BY <1>2, <1>4 DEF Free
<1>6. call' = [call EXCEPT ![p] = c] /\ UNCHANGED <<store, born, renamed>>
  BY DEF InsertApp
<1>. HIDE DEF c, t
<1>. QED
  BY <1>2, <1>3, <1>5, <1>6, ReadFree

\* The ids under the name have been read: none, or one to look at.
LEMMA FindAppNameFree ==
    ASSUME TypeInv, TypeInv', FreeInv, NEW p \in Proc, FindAppName(p)
    PROVE  FreeInv'
<1>. DEFINE found == appNames[call[p].name]
<1>1. call[p] \in Call /\ Free(call[p], taken[p]) /\ call[p].pc = "findAppName"
  BY DEF TypeInv, TypeOK, FreeInv, FindAppName, At
<1>2. CASE found = {} /\ Goto(p, "addApp")
  <2>. DEFINE c == [call[p] EXCEPT !.pc = "addApp"]
  <2>1. c \in Call /\ c.pc = "addApp"
    BY <1>1 DEF Call
  <2>2. Free(c, taken[p])
    BY <1>1, <1>2, <2>1 DEF Free
  <2>. QED
    BY <1>2, <2>1, <2>2, ReadFree DEF FindAppName, Goto, Become
<1>3. ASSUME NEW a \in found, found = {a}, Become(p, [call[p] EXCEPT !.pc = "findApp", !.app = a])
      PROVE  FreeInv'
  <2>. DEFINE c == [call[p] EXCEPT !.pc = "findApp", !.app = a]
  <2>1. call'[p] = c /\ c \in Call
    BY <1>3 DEF Become, TypeInv, TypeOK
  <2>2. c.pc = "findApp" /\ c.app = a /\ c.user = call[p].user
    BY <1>1 DEF Call
  <2>3. Free(c, taken[p])
    BY <1>1, <1>3, <2>2 DEF Free
  <2>. QED
    BY <1>3, <2>1, <2>3, ReadFree DEF FindAppName, Become
<1>4. CASE Quit(p)
  BY <1>4, QuitFree DEF FindAppName
<1>. QED
  BY <1>2, <1>3, <1>4 DEF FindAppName

\* The one application of the name is gone, or is another user's.
LEMMA FindAppFree ==
    ASSUME TypeInv, TypeInv', FreeInv, NEW p \in Proc, FindApp(p)
    PROVE  FreeInv'
<1>1. CASE Quit(p)
  BY <1>1, QuitFree DEF FindApp
<1>2. CASE ~OwnedBy(call[p].app, call[p].user) /\ Become(p, [call[p] EXCEPT !.pc = "addApp", !.app = None])
  <2>. DEFINE c == [call[p] EXCEPT !.pc = "addApp", !.app = None]
  <2>1. call[p] \in Call /\ Free(call[p], taken[p]) /\ call[p].pc = "findApp"
    BY DEF TypeInv, TypeOK, FreeInv, FindApp, At
  <2>2. c \in Call /\ c.pc = "addApp"
    BY <2>1 DEF Call
  <2>3. Free(c, taken[p])
    BY <1>2, <2>1, <2>2 DEF Free, OwnedBy
  <2>. QED
    BY <1>2, <2>2, <2>3, ReadFree DEF FindApp, Become
<1>. QED
  BY <1>1, <1>2 DEF FindApp

\* A step that writes, and takes its call to a point that has nothing to do with names.
LEMMA WriteFree ==
    ASSUME TypeInv, TypeInv', FreeInv, Keeps, NamesHeld, NEW p \in Proc, NEW c \in Call,
           c.pc \in {"idle", "writeUser", "listApps", "writeApp", "cascade"},
           call' = [call EXCEPT ![p] = c],
           \A q \in Proc : q # p => taken'[q] = taken[q]
    PROVE  FreeInv'
<1>1. Free(c, taken'[p])
  BY ElsewhereFree
<1>. QED
  BY <1>1, StepFree

\* A user is inserted.
LEMMA AddUserFree ==
    ASSUME TypeInv, TypeInv', FreeInv, Keeps, NEW p \in Proc, AddUser(p)
    PROVE  FreeInv'
<1>1. \A q \in Proc : q # p => taken'[q] = taken[q]
  BY DEF AddUser, Quit, TypeInv, TypeOK
<1>2. NamesHeld
  BY DEF AddUser, NamesHeld
<1>3. Idle \in Call /\ Idle.pc = "idle" /\ call' = [call EXCEPT ![p] = Idle]
  BY IdleTyped DEF AddUser, Quit, Idle
<1>. QED
  BY <1>1, <1>2, <1>3, WriteFree

\* A user is activated, deactivated or updated.
LEMMA WriteUserFree ==
    ASSUME TypeInv, TypeInv', FreeInv, Keeps, NEW p \in Proc, WriteUser(p)
    PROVE  FreeInv'
<1>. DEFINE c == IF call[p].op = "deactivate" THEN [call[p] EXCEPT !.pc = "listApps"] ELSE Idle
<1>1. call[p] \in Call /\ call' = [call EXCEPT ![p] = c] /\ UNCHANGED <<appNames, taken>>
  BY DEF WriteUser, TypeInv, TypeOK
<1>2. NamesHeld
  BY <1>1 DEF NamesHeld
<1>3. c \in Call /\ c.pc \in {"idle", "listApps"}
  BY <1>1, IdleTyped DEF Call, Idle
<1>. HIDE DEF c
<1>. QED
  BY <1>1, <1>2, <1>3, WriteFree

\* A user is removed.
LEMMA DelUserFree ==
    ASSUME TypeInv, TypeInv', FreeInv, Keeps, NEW p \in Proc, DelUser(p)
    PROVE  FreeInv'
<1>. DEFINE c == [call[p] EXCEPT !.pc = "listApps", !.name = None]
<1>1. call[p] \in Call /\ call' = [call EXCEPT ![p] = c] /\ UNCHANGED <<appNames, taken>>
  BY DEF DelUser, TypeInv, TypeOK
<1>2. c \in Call /\ c.pc = "listApps"
  BY <1>1 DEF Call
<1>3. NamesHeld
  BY <1>1 DEF NamesHeld
<1>. HIDE DEF c
<1>. QED
  BY <1>1, <1>2, <1>3, WriteFree

\* An application is inserted.
LEMMA AddAppFree ==
    ASSUME TypeInv, TypeInv', FreeInv, Keeps, NEW p \in Proc, AddApp(p)
    PROVE  FreeInv'
<1>1. NamesHeld
  BY DEF AddApp, NamesHeld, TypeInv, TypeOK
<1>2. \A q \in Proc : q # p => taken'[q] = taken[q]
  BY DEF AddApp, Quit, TypeInv, TypeOK
<1>3. Idle \in Call /\ Idle.pc = "idle" /\ call' = [call EXCEPT ![p] = Idle]
  BY IdleTyped DEF AddApp, Quit, Idle
<1>. QED
  BY <1>1, <1>2, <1>3, WriteFree

\* An application is activated or updated.
LEMMA WriteAppFree ==
    ASSUME TypeInv, TypeInv', FreeInv, Keeps, NEW p \in Proc, WriteApp(p)
    PROVE  FreeInv'
<1>1. UNCHANGED <<appNames, taken>> /\ call' = [call EXCEPT ![p] = Idle]
  BY DEF WriteApp
<1>2. NamesHeld /\ Idle \in Call /\ Idle.pc = "idle"
  BY <1>1, IdleTyped DEF NamesHeld, Idle
<1>. QED
  BY <1>1, <1>2, WriteFree

\* An application is deactivated.
LEMMA DeactivateAppFree ==
    ASSUME TypeInv, TypeInv', FreeInv, Keeps, NEW p \in Proc, NEW a, DeactivateApp(p, a)
    PROVE  FreeInv'
<1>. DEFINE c == [call[p] EXCEPT !.todo = @ \ {a}]
<1>1. UNCHANGED <<appNames, taken>> /\ call' = [call EXCEPT ![p] = c]
  BY DEF DeactivateApp, Become
<1>2. call[p] \in Call /\ call[p].pc = "cascade"
  BY DEF DeactivateApp, At, TypeInv, TypeOK
<1>3. c \in Call /\ c.pc = "cascade"
  BY <1>2 DEF Call
<1>4. NamesHeld
  BY <1>1 DEF NamesHeld
<1>. HIDE DEF c
<1>. QED
  BY <1>1, <1>3, <1>4, WriteFree

\* An application is removed: it is under its name no longer, but then it is gone.
LEMMA DelAppFree ==
    ASSUME TypeInv, TypeInv', FreeInv, Keeps, NEW p \in Proc, NEW r \in call[p].read, DelApp(p, r)
    PROVE  FreeInv'
<1>. DEFINE c == [call[p] EXCEPT !.read = @ \ {r}]  d == r[1]  m == r[2]
<1>1. UNCHANGED taken /\ call' = [call EXCEPT ![p] = c]
  BY DEF DelApp, Become
<1>2. call[p] \in Call /\ call[p].pc = "cascade" /\ d \in AppId /\ m \in AppName
  BY DEF DelApp, At, TypeInv, TypeOK, Call
<1>3. c \in Call /\ c.pc = "cascade"
  BY <1>2 DEF Call
<1>4. apps' = [apps EXCEPT ![d] = None] /\ appNames' = [appNames EXCEPT ![m] = @ \ {d}]
  BY DEF DelApp, Unnamed
<1>. HIDE DEF c, d, m
<1>5. NamesHeld
  BY <1>2, <1>4 DEF NamesHeld, IsApp, TypeInv, TypeOK
<1>. QED
  BY <1>1, <1>3, <1>5, WriteFree

\* No step makes a call accept a name it would have refused.
LEMMA NextFree == TypeInv /\ TypeInv' /\ IndexInv /\ Keeps /\ FreeInv /\ [Next]_vars => FreeInv'
<1>. SUFFICES ASSUME TypeInv, TypeInv', IndexInv, Keeps, FreeInv, [Next]_vars PROVE FreeInv'
  OBVIOUS
<1>1. CASE UNCHANGED vars
  BY <1>1 DEF FreeInv, Free, IsUser, IsApp, vars, store, hist
<1>2. ASSUME NEW p \in Proc, Request(p) PROVE FreeInv'
  <2>1. ASSUME NEW u \in UserId, NEW op \in {"remove", "activate", "deactivate", "update"}, UserOp(p, op, u)
        PROVE  FreeInv'
    <3>1. call'[p] \in Call /\ call'[p].pc = "writeUser" /\ call' = [call EXCEPT ![p] = call'[p]]
      BY <2>1 DEF UserOp, Idle, TypeInv, TypeOK
    <3>. QED
      BY <2>1, <3>1, PassFree DEF UserOp
  <2>2. ASSUME NEW a \in AppId, NEW op \in {"remove", "activate", "deactivate", "update"},
               NEW n \in AppName \cup {None}, AppOp(p, op, a, n)
        PROVE  FreeInv'
    <3>1. call' = [call EXCEPT ![p] = AppCall(op, a, n)] /\ UNCHANGED <<store, born, renamed, taken>>
      BY <2>2 DEF AppOp, AppCall, hist
    <3>2. AppCall(op, a, n).pc \in {"cascade", "writeApp"}
      BY DEF AppCall, Idle
    <3>3. AppCall(op, a, n) \in Call
      BY <3>1 DEF TypeInv, TypeOK
    <3>. QED
      BY <3>1, <3>2, <3>3, PassFree
  <2>. QED
    BY <1>2, <2>1, <2>2, InsertUserFree, InsertAppFree DEF Request
<1>3. ASSUME NEW p \in Proc, UserStep(p) PROVE FreeInv'
  <2>1. CASE ListApps(p)
    <3>1. call'[p] \in Call /\ call'[p].pc = "cascade" /\ call' = [call EXCEPT ![p] = call'[p]]
      BY <2>1 DEF ListApps, Become, Idle, TypeInv, TypeOK
    <3>. QED
      BY <2>1, <3>1, PassFree DEF ListApps, Become
  <2>. QED
    BY <1>3, <2>1, FindUserFree, AddUserFree, WriteUserFree, DelUserFree DEF UserStep
<1>4. ASSUME NEW p \in Proc, AppStep(p) PROVE FreeInv'
  <2>1. ASSUME NEW a, ReadListed(p, a) PROVE FreeInv'
    <3>1. call[p].pc = "cascade" /\ call[p] \in Call
      BY <2>1 DEF ReadListed, At, TypeInv, TypeOK
    <3>2. call'[p] \in Call /\ call'[p].pc = "cascade" /\ call' = [call EXCEPT ![p] = call'[p]]
      BY <2>1, <3>1 DEF ReadListed, Become, TypeInv, TypeOK, Call
    <3>. QED
      BY <2>1, <3>2, PassFree DEF ReadListed, Become
  <2>. QED
    BY <1>4, <2>1, FindAppNameFree, FindAppFree, AddAppFree, WriteAppFree, DeactivateAppFree, DelAppFree, QuitFree
    DEF AppStep, Answer
<1>5. ASSUME NEW p \in Proc, Crash(p) PROVE FreeInv'
  BY <1>5, QuitFree DEF Crash
<1>. QED
  BY <1>1, <1>2, <1>3, <1>4, <1>5 DEF Next

\* An insert gets past its checks with a username that users had when it began only if one
\* of them is no user any more; and while an application that was of its user and under its
\* name when it began is one still, it does not (user.service.js 143-149,
\* application.dao.js 30-42).
THEOREM NamesAreRefused == Spec => []TakenNamesRefused
<1>1. Init => FreeInv
  BY ElsewhereFree DEF Init, FreeInv, Idle
<1>2. FreeInv => TakenNamesRefused
  BY DEF FreeInv, Free, TakenNamesRefused, At
<1>. QED
  BY <1>1, <1>2, NextFree, NextIndexed, TypeAlways, IndexAlways, PTL DEF Spec

-----------------------------------------------------------------------------
(* Cascades.                                                                *)

\* How far call c has come with what it owes, o: the user first, then the applications,
\* each of which is dealt with or still to be.
Due(c, o) ==
    /\ o \subseteq born
    /\ c.pc = "writeUser" => \A u \in o \cap UserId : u = c.user
    /\ c.pc \in {"writeUser", "listApps"} => \A a \in o \cap AppId : IsApp(a) => apps[a].user = c.user
    /\ c.op = "remove" /\ c.pc \in {"listApps", "cascade"} => \A u \in o \cap UserId : ~IsUser(u)
    /\ c.op = "deactivate" /\ c.pc \in {"listApps", "cascade"} =>
         \A u \in o \cap UserId : IsUser(u) => ~users[u].isActive
    /\ c.op = "remove" /\ c.pc = "cascade" =>
         \A a \in o \cap AppId : IsApp(a) => a \in c.todo \/ \E r \in c.read : r[1] = a
    /\ c.op = "deactivate" /\ c.pc = "cascade" =>
         \A a \in o \cap AppId : IsApp(a) => a \in c.todo \/ ~apps[a].isActive

DueInv == \A p \in Proc : Due(call[p], owed[p])

\* What is inactive is not activated, but for what nobody is counting on any more.
RestUser(u) == IsUser(u) /\ ~users[u].isActive /\ IsUser(u)' => ~users'[u].isActive
RestApp(a)  == IsApp(a) /\ ~apps[a].isActive /\ IsApp(a)' => ~apps'[a].isActive
Rests ==
    \A q \in Proc : /\ \A u \in owed'[q] \cap UserId : RestUser(u)
                    /\ \A a \in owed'[q] \cap AppId : RestApp(a)

\* A step that writes neither users nor applications.
LEMMA SameRests == UNCHANGED <<users, apps>> => Rests
  BY DEF Rests, RestUser, RestApp

\* A user is activated only by a call that takes it off what the others owe.
LEMMA WriteUserRests ==
    ASSUME TypeInv, NEW p \in Proc, WriteUser(p)
    PROVE  Rests
<1>. DEFINE u == call[p].user  op == call[p].op
<1>1. /\ u \in UserId /\ op \in {"activate", "deactivate", "update"}
      /\ apps' = apps /\ \A v \in UserId : v # u => users'[v] = users[v]
  BY DEF WriteUser, At, TypeInv, TypeOK, Sound
<1>2. CASE op = "activate"
  <2>1. \A q \in Proc : u \notin owed'[q]
    BY <1>2 DEF WriteUser
  <2>. QED
    BY <1>1, <2>1 DEF Rests, RestUser, RestApp, IsUser, IsApp
<1>3. CASE op # "activate"
  <2>1. users'[u] \notin {None, Ghost} => users'[u] = users[u] \/ ~users'[u].isActive
    <3>1. CASE ~IsUser(u)
      BY <1>1, <3>1 DEF WriteUser, TypeInv, TypeOK
    <3>2. CASE IsUser(u) /\ op = "deactivate"
      <4>1. users'[u] = [users[u] EXCEPT !.isActive = FALSE]
        BY <1>1, <3>2 DEF WriteUser, TypeInv, TypeOK
      <4>. QED
        BY <1>1, <3>2, <4>1, HashTyped DEF User
    <3>3. CASE IsUser(u) /\ op = "update"
      BY <1>1, <3>3 DEF WriteUser, TypeInv, TypeOK
    <3>. QED
      BY <1>1, <1>3, <3>1, <3>2, <3>3
  <2>. QED
    BY <1>1, <2>1 DEF Rests, RestUser, RestApp, IsUser, IsApp
<1>. QED
  BY <1>2, <1>3

\* An application likewise.
LEMMA WriteAppRests ==
    ASSUME TypeInv, NEW p \in Proc, WriteApp(p)
    PROVE  Rests
<1>. DEFINE a == call[p].app  op == call[p].op
<1>1. /\ a \in AppId /\ op \in {"activate", "update"}
      /\ users' = users /\ \A b \in AppId : b # a => apps'[b] = apps[b]
  BY DEF WriteApp, At, TypeInv, TypeOK, Sound
<1>2. CASE op = "activate"
  <2>1. \A q \in Proc : a \notin owed'[q]
    BY <1>2 DEF WriteApp
  <2>. QED
    BY <1>1, <2>1 DEF Rests, RestUser, RestApp, IsUser, IsApp
<1>3. CASE op = "update"
  <2>1. apps'[a] \notin {None, Ghost} => apps'[a].isActive = apps[a].isActive
    <3>1. CASE ~IsApp(a)
      BY <1>1, <3>1 DEF WriteApp, TypeInv, TypeOK
    <3>2. CASE IsApp(a)
      <4>1. apps'[a] = [apps[a] EXCEPT !.name = call[p].name]
        BY <1>1, <1>3, <3>2 DEF WriteApp, TypeInv, TypeOK
      <4>. QED
        BY <1>1, <3>2, <4>1, HashTyped DEF App
    <3>. QED
      BY <3>1, <3>2
  <2>. QED
    BY <1>1, <2>1 DEF Rests, RestUser, RestApp, IsUser, IsApp
<1>. QED
  BY <1>1, <1>2, <1>3

\* A deactivation activates nothing.
LEMMA DeactivateAppRests ==
    ASSUME TypeInv, NEW p \in Proc, NEW a, DeactivateApp(p, a)
    PROVE  Rests
<1>1. /\ a \in AppId /\ users' = users
      /\ apps' = [apps EXCEPT ![a] = IF IsApp(a) THEN [@ EXCEPT !.isActive = FALSE] ELSE Ghost]
  BY DEF DeactivateApp, TypeInv, TypeOK, Call
<1>2. apps'[a] \notin {None, Ghost} => ~apps'[a].isActive
  <2>1. CASE IsApp(a)
    <3>1. apps'[a] = [apps[a] EXCEPT !.isActive = FALSE]
      BY <1>1, <2>1 DEF TypeInv, TypeOK
    <3>. QED
      BY <1>1, <2>1, <3>1, HashTyped DEF App
  <2>2. CASE ~IsApp(a)
    BY <1>1, <2>2 DEF TypeInv, TypeOK
  <2>. QED
    BY <2>1, <2>2
<1>3. \A b \in AppId : b # a => apps'[b] = apps[b]
  BY <1>1 DEF TypeInv, TypeOK
<1>. QED
  BY <1>1, <1>2, <1>3 DEF Rests, RestUser, RestApp, IsUser, IsApp

\* Nor does an insertion or a removal.
LEMMA BirthAndDeathRest ==
    ASSUME TypeInv, IndexInv, NEW p \in Proc,
           AddUser(p) \/ DelUser(p) \/ AddApp(p) \/ \E r \in call[p].read : DelApp(p, r)
    PROVE  Rests
<1>1. CASE AddUser(p)
  <2>1. PICK v \in UserId \ born : users' = [users EXCEPT ![v] = [username |-> call[p].name, isActive |-> TRUE]]
    BY <1>1 DEF AddUser
  <2>2. users[v] = None /\ apps' = apps
    BY <1>1, <2>1 DEF AddUser, IndexInv, StoreInv, Unborn
  <2>. QED
    BY <2>1, <2>2 DEF Rests, RestUser, RestApp, IsUser, IsApp, TypeInv, TypeOK
<1>2. CASE DelUser(p)
  <2>1. users' = [users EXCEPT ![call[p].user] = None] /\ apps' = apps
    BY <1>2 DEF DelUser
  <2>. QED
    BY <2>1 DEF Rests, RestUser, RestApp, IsUser, IsApp, TypeInv, TypeOK
<1>3. CASE AddApp(p)
  <2>1. PICK b \in AppId \ born :
          apps' = [apps EXCEPT ![b] = [name |-> call[p].name, user |-> call[p].user, isActive |-> TRUE]]
    BY <1>3 DEF AddApp
  <2>2. apps[b] = None /\ users' = users
    BY <1>3, <2>1 DEF AddApp, IndexInv, StoreInv, Unborn
  <2>. QED
    BY <2>1, <2>2 DEF Rests, RestUser, RestApp, IsUser, IsApp, TypeInv, TypeOK
<1>4. ASSUME NEW r \in call[p].read, DelApp(p, r) PROVE Rests
  <2>1. apps' = [apps EXCEPT ![r[1]] = None] /\ users' = users
    BY <1>4 DEF DelApp
  <2>. QED
    BY <2>1 DEF Rests, RestUser, RestApp, IsUser, IsApp, TypeInv, TypeOK
<1>. QED
  BY <1>1, <1>2, <1>3, <1>4

\* How far a call has come, others do not undo.
LEMMA DueKept ==
    ASSUME NEW c \in Call, NEW o, NEW s, s \subseteq o, Due(c, o), Keeps,
           \A u \in s \cap UserId : RestUser(u), \A a \in s \cap AppId : RestApp(a)
    PROVE  Due(c, s)'
<1>1. s \subseteq born /\ s \subseteq born'
  BY DEF Due, Keeps
<1>2. ASSUME NEW u \in s \cap UserId, IsUser(u)' PROVE IsUser(u) /\ (users'[u].isActive => users[u].isActive)
  BY <1>1, <1>2 DEF Keeps, RestUser
<1>3. ASSUME NEW a \in s \cap AppId, IsApp(a)'
      PROVE  /\ IsApp(a) /\ apps'[a].user = apps[a].user
             /\ apps'[a].isActive => apps[a].isActive
  BY <1>1, <1>3 DEF Keeps, RestApp
<1>4. c.pc = "writeUser" => \A u \in s \cap UserId : u = c.user
  BY DEF Due
<1>5. c.pc \in {"writeUser", "listApps"} => \A a \in s \cap AppId : IsApp(a)' => apps'[a].user = c.user
  BY <1>3 DEF Due
<1>6. c.op = "remove" /\ c.pc \in {"listApps", "cascade"} => \A u \in s \cap UserId : ~IsUser(u)'
  BY <1>2 DEF Due
<1>7. c.op = "deactivate" /\ c.pc \in {"listApps", "cascade"} =>
        \A u \in s \cap UserId : IsUser(u)' => ~users'[u].isActive
  BY <1>2 DEF Due
<1>8. c.op = "remove" /\ c.pc = "cascade" =>
        \A a \in s \cap AppId : IsApp(a)' => a \in c.todo \/ \E r \in c.read : r[1] = a
  BY <1>3 DEF Due
<1>9. c.op = "deactivate" /\ c.pc = "cascade" =>
        \A a \in s \cap AppId : IsApp(a)' => a \in c.todo \/ ~apps'[a].isActive
  BY <1>3 DEF Due
<1>. QED
  BY <1>1, <1>4, <1>5, <1>6, <1>7, <1>8, <1>9 DEF Due

\* A step of one call that keeps what it owes itself.
LEMMA StepDue ==
    ASSUME TypeInv, DueInv, Keeps, Rests, NEW p \in Proc, Due(call[p], owed[p])',
           \A q \in Proc : q # p => call'[q] = call[q] /\ owed'[q] \subseteq owed[q]
    PROVE  DueInv'
<1>. SUFFICES ASSUME NEW q \in Proc, q # p PROVE Due(call[q], owed[q])'
  BY DEF DueInv
<1>1. ASSUME NEW x \in Call, NEW s, NEW o, s \subseteq o, Due(x, o), x = call'[q], s = owed'[q]
      PROVE  Due(call[q], owed[q])'
  <2>1. Due(x, s)'
    BY <1>1, DueKept DEF Rests
  <2>. QED
    BY <1>1, <2>1 DEF Due
<1>. QED
  BY <1>1 DEF DueInv, TypeInv, TypeOK

\* A call that is neither removing nor deactivating owes nothing.
LEMMA NothingDue ==
    ASSUME TypeInv', NEW p \in Proc, call'[p].op \notin {"remove", "deactivate"} \/ owed'[p] = {}
    PROVE  Due(call[p], owed[p])'
<1>1. owed'[p] = {}
  BY DEF TypeInv, Sound
<1>. QED
  BY <1>1 DEF Due

\* A call that starts to remove or deactivate a user owes the user and its applications.
LEMMA UserOpDue ==
    ASSUME TypeInv, TypeInv', IndexInv, NEW p \in Proc, NEW op \in {"remove", "activate", "deactivate", "update"},
           NEW u \in UserId, UserOp(p, op, u)
    PROVE  Due(call[p], owed[p])'
<1>1. call'[p].pc = "writeUser" /\ call'[p].op = op /\ call'[p].user = u
  BY DEF UserOp, Idle, TypeInv, TypeOK
<1>2. CASE op \in {"remove", "deactivate"}
  <2>1. owed'[p] = {u} \cup userApps[u] /\ IsUser(u) /\ UNCHANGED <<store, born>>
    BY <1>2 DEF UserOp, TypeInv, TypeOK
  <2>2. userApps[u] \subseteq AppId /\ {u} \cup userApps[u] \subseteq born
    BY <2>1, ThereBorn DEF TypeInv, TypeOK
  <2>3. \A v \in owed'[p] \cap UserId : v = u
    BY <2>1, <2>2, ConsumersAssumption
  <2>4. \A a \in owed'[p] \cap AppId : a \in userApps[u]
    BY <2>1, ConsumersAssumption
  <2>5. \A a \in owed'[p] \cap AppId : apps'[a].user = u
    BY <2>1, <2>4 DEF IndexInv, StoreInv, IndexesFollow, store
  <2>. QED
    BY <1>1, <2>1, <2>2, <2>3, <2>5 DEF Due
<1>3. CASE op \notin {"remove", "deactivate"}
  BY <1>1, <1>3, NothingDue
<1>. QED
  BY <1>2, <1>3

\* The user has been deactivated; its applications are still to be.
LEMMA WriteUserDue ==
    ASSUME TypeInv, TypeInv', DueInv, NEW p \in Proc, WriteUser(p)
    PROVE  Due(call[p], owed[p])'
<1>. DEFINE u == call[p].user  op == call[p].op
<1>1. /\ u \in UserId /\ op \in {"activate", "deactivate", "update"} /\ call[p].pc = "writeUser"
      /\ call[p] \in Call /\ Due(call[p], owed[p])
  BY DEF WriteUser, At, TypeInv, TypeOK, Sound, DueInv
<1>2. CASE op # "deactivate"
  <2>1. call'[p] = Idle
    BY <1>2 DEF WriteUser, TypeInv, TypeOK
  <2>. QED
    BY <2>1, NothingDue, ConsumersAssumption DEF Idle
<1>3. CASE op = "deactivate"
  <2>1. call'[p] = [call[p] EXCEPT !.pc = "listApps"] /\ owed' = owed /\ UNCHANGED <<apps, born>>
    BY <1>3 DEF WriteUser, TypeInv, TypeOK
  <2>2. call'[p].pc = "listApps" /\ call'[p].op = "deactivate" /\ call'[p].user = u
    BY <1>1, <1>3, <2>1 DEF Call
  <2>3. users'[u] \notin {None, Ghost} => ~users'[u].isActive
    <3>1. CASE IsUser(u)
      <4>1. users'[u] = [users[u] EXCEPT !.isActive = FALSE]
        BY <1>1, <1>3, <3>1 DEF WriteUser, TypeInv, TypeOK
      <4>. QED
        BY <1>1, <3>1, <4>1, HashTyped DEF User
    <3>2. CASE ~IsUser(u)
      BY <1>1, <3>2 DEF WriteUser, TypeInv, TypeOK
    <3>. QED
      BY <3>1, <3>2
  <2>. QED
    BY <1>1, <2>1, <2>2, <2>3 DEF Due, IsUser, IsApp
<1>. QED
  BY <1>2, <1>3

\* The user has been removed; its applications are still to be.
LEMMA DelUserDue ==
    ASSUME TypeInv, DueInv, NEW p \in Proc, DelUser(p)
    PROVE  Due(call[p], owed[p])'
<1>. DEFINE u == call[p].user
<1>1. /\ u \in UserId /\ call[p].pc = "writeUser" /\ call[p].op = "remove"
      /\ call[p] \in Call /\ Due(call[p], owed[p])
  BY DEF DelUser, At, TypeInv, TypeOK, Sound, DueInv
<1>2. UNCHANGED <<apps, born, owed>> /\ users' = [users EXCEPT ![u] = None]
  BY DEF DelUser
<1>3. call'[p].pc = "listApps" /\ call'[p].op = "remove" /\ call'[p].user = u
  BY <1>1 DEF DelUser, TypeInv, TypeOK, Call
<1>4. users'[u] = None
  BY <1>1, <1>2 DEF TypeInv, TypeOK
<1>. QED
  BY <1>1, <1>2, <1>3, <1>4 DEF Due, IsUser, IsApp

\* All that the user still has is listed.
LEMMA ListAppsDue ==
    ASSUME TypeInv, IndexInv, DueInv, NEW p \in Proc, ListApps(p)
    PROVE  Due(call[p], owed[p])'
<1>. DEFINE u == call[p].user  op == call[p].op
<1>1. /\ u \in UserId /\ call[p].pc = "listApps" /\ op \in {"remove", "deactivate"}
      /\ Due(call[p], owed[p])
  BY DEF ListApps, At, TypeInv, TypeOK, Sound, DueInv
<1>2. UNCHANGED <<users, apps, born, owed>>
  BY DEF ListApps, Become, store
<1>3. call'[p].pc = "cascade" /\ call'[p].op = op /\ call'[p].todo = userApps[u]
  BY DEF ListApps, Become, Listed, Idle, TypeInv, TypeOK
<1>4. \A a \in owed[p] \cap AppId : IsApp(a) => a \in userApps[u]
  BY <1>1 DEF Due, IndexInv, StoreInv, IndexesFollow
<1>. QED
  BY <1>1, <1>2, <1>3, <1>4 DEF Due, IsUser, IsApp

\* One application has been deactivated.
LEMMA DeactivateAppDue ==
    ASSUME TypeInv, DueInv, NEW p \in Proc, NEW a, DeactivateApp(p, a)
    PROVE  Due(call[p], owed[p])'
<1>1. /\ call[p] \in Call /\ call[p].pc = "cascade" /\ call[p].op = "deactivate" /\ a \in AppId
      /\ Due(call[p], owed[p])
  BY DEF DeactivateApp, At, TypeInv, TypeOK, Call, DueInv
<1>2. /\ UNCHANGED <<users, born, owed>>
      /\ apps' = [apps EXCEPT ![a] = IF IsApp(a) THEN [@ EXCEPT !.isActive = FALSE] ELSE Ghost]
      /\ call'[p] = [call[p] EXCEPT !.todo = @ \ {a}]
  BY DEF DeactivateApp, Become, TypeInv, TypeOK
<1>3. call'[p].pc = "cascade" /\ call'[p].op = "deactivate" /\ call'[p].todo = call[p].todo \ {a}
  BY <1>1, <1>2 DEF Call
<1>4. apps'[a] \notin {None, Ghost} => ~apps'[a].isActive
  <2>1. CASE IsApp(a)
    <3>1. apps'[a] = [apps[a] EXCEPT !.isActive = FALSE]
      BY <1>1, <1>2, <2>1 DEF TypeInv, TypeOK
    <3>. QED
      BY <1>1, <2>1, <3>1, HashTyped DEF App
  <2>2. CASE ~IsApp(a)
    BY <1>1, <1>2, <2>2 DEF TypeInv, TypeOK
  <2>. QED
    BY <2>1, <2>2
<1>5. \A b \in AppId : b # a => apps'[b] = apps[b]
  BY <1>2 DEF TypeInv, TypeOK
<1>. QED
  BY <1>1, <1>2, <1>3, <1>4, <1>5 DEF Due, IsUser, IsApp

\* One application has been read.
LEMMA ReadListedDue ==
    ASSUME TypeInv, DueInv, NEW p \in Proc, NEW a, ReadListed(p, a)
    PROVE  Due(call[p], owed[p])'
<1>. DEFINE r == IF IsApp(a) THEN call[p].read \cup {Fields(a)} ELSE call[p].read
<1>1. /\ call[p] \in Call /\ call[p].pc = "cascade" /\ call[p].op = "remove"
      /\ Due(call[p], owed[p])
  BY DEF ReadListed, At, TypeInv, TypeOK, DueInv
<1>2. /\ UNCHANGED <<users, apps, born, owed>>
      /\ call'[p] = [call[p] EXCEPT !.todo = @ \ {a}, !.read = r]
  BY DEF ReadListed, Become, TypeInv, TypeOK, store
<1>3. call'[p].pc = "cascade" /\ call'[p].op = "remove" /\ call'[p].todo = call[p].todo \ {a} /\ call'[p].read = r
  BY <1>1, <1>2 DEF Call
<1>4. IsApp(a) => \E t \in r : t[1] = a
  <2>1. IsApp(a) => Fields(a) \in r
    OBVIOUS
  <2>2. Fields(a)[1] = a
    BY DEF Fields
  <2>. QED
    BY <2>1, <2>2
<1>5. call[p].read \subseteq r
  OBVIOUS
<1>. HIDE DEF r
<1>6. \A b \in owed[p] \cap AppId : IsApp(b) => b \in call'[p].todo \/ \E t \in call'[p].read : t[1] = b
  BY <1>1, <1>3, <1>4, <1>5 DEF Due
<1>. QED
  BY <1>1, <1>2, <1>3, <1>6 DEF Due, IsUser, IsApp

\* One application has been removed.
LEMMA DelAppDue ==
    ASSUME TypeInv, TypeInv', DueInv, NEW p \in Proc, NEW r \in call[p].read, DelApp(p, r)
    PROVE  Due(call[p], owed[p])'
<1>1. /\ call[p] \in Call /\ call[p].pc = "cascade" /\ r[1] \in AppId
      /\ Due(call[p], owed[p])
  BY DEF DelApp, At, TypeInv, TypeOK, Call, DueInv
<1>2. /\ UNCHANGED <<users, born, owed>>
      /\ apps' = [apps EXCEPT ![r[1]] = None]
      /\ call'[p] = [call[p] EXCEPT !.read = @ \ {r}]
  BY DEF DelApp, Become, TypeInv, TypeOK
<1>3. /\ call'[p].pc = "cascade" /\ call'[p].op = call[p].op /\ call'[p].todo = call[p].todo
      /\ call'[p].read = call[p].read \ {r}
  BY <1>1, <1>2 DEF Call
<1>4. apps'[r[1]] = None /\ \A b \in AppId : b # r[1] => apps'[b] = apps[b]
  BY <1>1, <1>2 DEF TypeInv, TypeOK
<1>5. \A b \in owed[p] \cap AppId : call[p].op = "remove" /\ apps'[b] \notin {None, Ghost} =>
        b \in call'[p].todo \/ \E t \in call'[p].read : t[1] = b
  BY <1>1, <1>3, <1>4 DEF Due, IsApp
<1>6. \A b \in owed[p] \cap AppId : call[p].op = "deactivate" /\ apps'[b] \notin {None, Ghost} =>
        b \in call'[p].todo \/ ~apps'[b].isActive
  BY <1>1, <1>3, <1>4 DEF Due, IsApp
<1>. QED
  BY <1>1, <1>2, <1>3, <1>5, <1>6 DEF Due, IsUser, IsApp

\* A call that is over owes nothing.
LEMMA QuitDue ==
    ASSUME TypeInv, TypeInv', NEW p \in Proc, Quit(p)
    PROVE  /\ Due(call[p], owed[p])'
           /\ \A q \in Proc : q # p => call'[q] = call[q] /\ owed'[q] \subseteq owed[q]
<1>1. owed'[p] = {}
  BY DEF Quit, TypeInv, TypeOK
<1>2. \A q \in Proc : q # p => call'[q] = call[q] /\ owed'[q] \subseteq owed[q]
  BY DEF Quit, TypeInv, TypeOK
<1>. QED
  BY <1>1, <1>2, NothingDue

\* No step forgets what a call owes.
LEMMA NextDue == TypeInv /\ TypeInv' /\ IndexInv /\ Keeps /\ DueInv /\ [Next]_vars => DueInv'
<1>. SUFFICES ASSUME TypeInv, TypeInv', IndexInv, Keeps, DueInv, [Next]_vars PROVE DueInv'
  OBVIOUS
<1>1. CASE UNCHANGED vars
  BY <1>1 DEF DueInv, Due, IsUser, IsApp, vars, store, hist
<1>2. ASSUME NEW p \in Proc, Request(p) PROVE DueInv'
  <2>. DEFINE Rest == \A q \in Proc : q # p => call'[q] = call[q] /\ owed'[q] \subseteq owed[q]
  <2>1. ASSUME NEW n \in Username, InsertUser(p, n) PROVE DueInv'
    <3>1. Rest /\ Rests
      BY <2>1, SameRests DEF InsertUser, TypeInv, TypeOK, store
    <3>2. owed'[p] = {}
      BY <2>1, IdleOwesNothing DEF InsertUser
    <3>. QED
      BY <3>1, <3>2, NothingDue, StepDue
  <2>2. ASSUME NEW u \in UserId, NEW op \in {"remove", "activate", "deactivate", "update"}, UserOp(p, op, u)
        PROVE  DueInv'
    <3>1. Rest /\ Rests
      BY <2>2, SameRests DEF UserOp, TypeInv, TypeOK, store
    <3>. QED
      BY <2>2, <3>1, UserOpDue, StepDue
  <2>3. ASSUME NEW u \in UserId, NEW n \in NewName, InsertApp(p, u, n) PROVE DueInv'
    <3>1. Rest /\ Rests
      BY <2>3, SameRests DEF InsertApp, TypeInv, TypeOK, store
    <3>2. owed'[p] = {}
      BY <2>3, IdleOwesNothing DEF InsertApp
    <3>. QED
      BY <3>1, <3>2, NothingDue, StepDue
  <2>4. ASSUME NEW a \in AppId, NEW op \in {"remove", "activate", "deactivate", "update"},
               NEW n \in AppName \cup {None}, AppOp(p, op, a, n)
        PROVE  DueInv'
    <3>1. call' = [call EXCEPT ![p] = AppCall(op, a, n)] /\ owed' = owed /\ UNCHANGED <<users, apps>>
      BY <2>4 DEF AppOp, AppCall, hist, store
    <3>2. Rest /\ Rests
      BY <3>1, SameRests DEF TypeInv, TypeOK
    <3>3. owed'[p] = {}
      BY <2>4, <3>1, IdleOwesNothing DEF AppOp
    <3>. QED
      BY <3>2, <3>3, NothingDue, StepDue
  <2>. QED
    BY <1>2, <2>1, <2>2, <2>3, <2>4 DEF Request
<1>3. ASSUME NEW p \in Proc, Quit(p), Rests PROVE DueInv'
  BY <1>3, QuitDue, StepDue
<1>5. ASSUME NEW p \in Proc, NEW c, c.op = "insert", Become(p, c), Rests PROVE DueInv'
  <2>1. call'[p] = c /\ \A q \in Proc : q # p => call'[q] = call[q] /\ owed'[q] \subseteq owed[q]
    BY <1>5 DEF Become, TypeInv, TypeOK
  <2>. QED
    BY <1>5, <2>1, NothingDue, StepDue
<1>6. ASSUME NEW p \in Proc, UserStep(p) PROVE DueInv'
  <2>1. CASE FindUser(p)
    <3>1. Rests
      BY <2>1, SameRests DEF FindUser, store
    <3>2. call[p] \in Call /\ call[p].op = "insert"
      BY <2>1 DEF FindUser, At, TypeInv, TypeOK, Sound
    <3>3. [call[p] EXCEPT !.pc = "addUser", !.user = None].op = "insert"
      BY <3>2 DEF Call
    <3>. QED
      BY <1>3, <1>5, <2>1, <3>1, <3>3 DEF FindUser
  <2>2. CASE AddUser(p)
    BY <1>3, <2>2, BirthAndDeathRest DEF AddUser
  <2>3. CASE WriteUser(p)
    <3>1. \A q \in Proc : q # p => call'[q] = call[q] /\ owed'[q] \subseteq owed[q]
      BY <2>3 DEF WriteUser, TypeInv, TypeOK
    <3>. QED
      BY <2>3, <3>1, WriteUserDue, WriteUserRests, StepDue
  <2>4. CASE DelUser(p)
    <3>1. \A q \in Proc : q # p => call'[q] = call[q] /\ owed'[q] \subseteq owed[q]
      BY <2>4 DEF DelUser, TypeInv, TypeOK
    <3>. QED
      BY <2>4, <3>1, DelUserDue, BirthAndDeathRest, StepDue
  <2>5. CASE ListApps(p)
    <3>1. \A q \in Proc : q # p => call'[q] = call[q] /\ owed'[q] \subseteq owed[q]
      BY <2>5 DEF ListApps, Become, TypeInv, TypeOK
    <3>2. Rests
      BY <2>5, SameRests DEF ListApps, store
    <3>. QED
      BY <2>5, <3>1, <3>2, ListAppsDue, StepDue
  <2>. QED
    BY <1>6, <2>1, <2>2, <2>3, <2>4, <2>5 DEF UserStep
<1>7. ASSUME NEW p \in Proc, AppStep(p) PROVE DueInv'
  <2>1. CASE FindAppName(p)
    <3>1. Rests
      BY <2>1, SameRests DEF FindAppName, store
    <3>2. call[p] \in Call /\ call[p].op = "insert"
      BY <2>1 DEF FindAppName, At, TypeInv, TypeOK, Sound
    <3>3. /\ [call[p] EXCEPT !.pc = "addApp"].op = "insert"
          /\ \A a : [call[p] EXCEPT !.pc = "findApp", !.app = a].op = "insert"
      BY <3>2 DEF Call
    <3>. QED
      BY <1>3, <1>5, <2>1, <3>1, <3>3 DEF FindAppName, Goto
  <2>2. CASE FindApp(p)
    <3>1. Rests
      BY <2>2, SameRests DEF FindApp, store
    <3>2. call[p] \in Call /\ call[p].op = "insert"
      BY <2>2 DEF FindApp, At, TypeInv, TypeOK, Sound
    <3>3. [call[p] EXCEPT !.pc = "addApp", !.app = None].op = "insert"
      BY <3>2 DEF Call
    <3>. QED
      BY <1>3, <1>5, <2>2, <3>1, <3>3 DEF FindApp
  <2>3. CASE AddApp(p)
    BY <1>3, <2>3, BirthAndDeathRest DEF AddApp
  <2>4. CASE WriteApp(p)
    <3>1. call' = [call EXCEPT ![p] = Idle]
          /\ (owed' = owed \/ owed' = [q \in Proc |-> owed[q] \ {call[p].app}])
      BY <2>4 DEF WriteApp
    <3>2. call'[p].op \notin {"remove", "deactivate"}
      BY <3>1, ConsumersAssumption DEF Idle, TypeInv, TypeOK
    <3>3. \A q \in Proc : q # p => call'[q] = call[q] /\ owed'[q] \subseteq owed[q]
      BY <3>1 DEF TypeInv, TypeOK
    <3>. QED
      BY <2>4, <3>2, <3>3, NothingDue, WriteAppRests, StepDue
  <2>5. ASSUME NEW a, DeactivateApp(p, a) PROVE DueInv'
    <3>1. \A q \in Proc : q # p => call'[q] = call[q] /\ owed'[q] \subseteq owed[q]
      BY <2>5 DEF DeactivateApp, Become, TypeInv, TypeOK
    <3>. QED
      BY <2>5, <3>1, DeactivateAppDue, DeactivateAppRests, StepDue
  <2>6. ASSUME NEW a, ReadListed(p, a) PROVE DueInv'
    <3>1. UNCHANGED <<users, apps, owed>>
      BY <2>6 DEF ReadListed, Become, store
    <3>2. \A q \in Proc : q # p => call'[q] = call[q]
      BY <2>6 DEF ReadListed, Become, TypeInv, TypeOK
    <3>. QED
      BY <2>6, <3>1, <3>2, ReadListedDue, SameRests, StepDue
  <2>7. ASSUME NEW r \in call[p].read, DelApp(p, r) PROVE DueInv'
    <3>1. \A q \in Proc : q # p => call'[q] = call[q] /\ owed'[q] \subseteq owed[q]
      BY <2>7 DEF DelApp, Become, TypeInv, TypeOK
    <3>. QED
      BY <2>7, <3>1, DelAppDue, BirthAndDeathRest, StepDue
  <2>8. CASE Answer(p)
    BY <1>3, <2>8, SameRests DEF Answer, store
  <2>. QED
    BY <1>7, <2>1, <2>2, <2>3, <2>4, <2>5, <2>6, <2>7, <2>8 DEF AppStep
<1>8. ASSUME NEW p \in Proc, Crash(p) PROVE DueInv'
  BY <1>3, <1>8, SameRests DEF Crash, store
<1>. QED
  BY <1>1, <1>2, <1>6, <1>7, <1>8 DEF Next

\* What is still owed throughout.
LEMMA DueAlways == Spec => []DueInv
<1>1. Init => DueInv
  BY DEF Init, DueInv, Due
<1>. QED
  BY <1>1, NextDue, NextIndexed, TypeAlways, IndexAlways, PTL DEF Spec

\* A removal that has answered leaves neither the user nor an application the user had when it
\* was called, whatever other calls did meanwhile.
THEOREM RemovalIsComplete == Spec => []CascadeRemoves
<1>1. TypeInv /\ DueInv => CascadeRemoves
  <2>. SUFFICES ASSUME TypeInv, DueInv, NEW p \in Proc, Finished(p), call[p].op = "remove", NEW i \in owed[p]
                PROVE  IF i \in UserId THEN ~IsUser(i) ELSE ~IsApp(i)
    BY DEF CascadeRemoves
  <2>1. Due(call[p], owed[p]) /\ call[p].pc = "cascade" /\ call[p].todo = {} /\ call[p].read = {}
    BY DEF DueInv, Finished, At
  <2>2. i \in UserId \cup AppId
    BY DEF TypeInv, TypeOK
  <2>. QED
    BY <2>1, <2>2 DEF Due
<1>. QED
  BY <1>1, TypeAlways, DueAlways, PTL

\* A deactivation that has answered leaves the user inactive, and every application the user had
\* when it was called, but for what was activated meanwhile.
THEOREM DeactivationIsComplete == Spec => []CascadeDeactivates
<1>1. TypeInv /\ DueInv => CascadeDeactivates
  <2>. SUFFICES ASSUME TypeInv, DueInv, NEW p \in Proc, Finished(p), call[p].op = "deactivate", NEW i \in owed[p]
                PROVE  IF i \in UserId THEN IsUser(i) => ~users[i].isActive ELSE IsApp(i) => ~apps[i].isActive
    BY DEF CascadeDeactivates
  <2>1. Due(call[p], owed[p]) /\ call[p].pc = "cascade" /\ call[p].todo = {}
    BY DEF DueInv, Finished, At
  <2>2. i \in UserId \cup AppId
    BY DEF TypeInv, TypeOK
  <2>. QED
    BY <2>1, <2>2 DEF Due
<1>. QED
  BY <1>1, TypeAlways, DueAlways, PTL

-----------------------------------------------------------------------------
(* Orphans.                                                                 *)

\* Who gets an application is a user still, or was removed meanwhile.
InsertsKnown == \A p \in Proc, u \in UserId : Inserting(p, u) => IsUser(u) \/ u \in loose

OrphanInv == OrphansExplained /\ InsertsKnown

\* A step in which no user goes: an application it adds is of one who is known, and p goes on with
\* what it was about to remove.
LEMMA StepExplained ==
    ASSUME TypeInv, TypeInv', OrphanInv, NEW p \in Proc, loose \subseteq loose',
           \A q \in Proc \ {p} : call'[q] = call[q],
           \A u \in UserId : IsUser(u) => IsUser(u)',
           \A a \in AppId : IsApp(a)' => \/ IsApp(a) /\ apps'[a].user = apps[a].user
                                         \/ IsUser(apps'[a].user) \/ apps'[a].user \in loose,
           \A a \in AppId, u \in UserId : IsApp(a)' /\ a \in userApps[u] => a \in userApps'[u],
           \A a \in AppId : IsApp(a)' /\ Orphan(a) /\ Removing(p, a) =>
               Removing(p, a)' \/ apps[a].user \in loose',
           \A u \in UserId : Inserting(p, u)' => IsUser(u) \/ u \in loose
    PROVE  OrphanInv'
<1>1. InsertsKnown'
  <2>. SUFFICES ASSUME NEW q \in Proc, NEW u \in UserId, Inserting(q, u)' PROVE IsUser(u)' \/ u \in loose'
    BY DEF InsertsKnown
  <2>1. CASE q = p
    BY <2>1
  <2>2. CASE q # p
    <3>1. Inserting(q, u)
      BY <2>2 DEF Inserting, At
    <3>. QED
      BY <3>1 DEF OrphanInv, InsertsKnown
  <2>. QED
    BY <2>1, <2>2
<1>2. OrphansExplained'
  <2>. SUFFICES ASSUME NEW a \in AppId, Orphan(a)'
                PROVE  apps'[a].user \in loose' \/ \E q \in Proc : Removing(q, a)'
    BY DEF OrphansExplained
  <2>1. IsApp(a)' /\ users'[apps'[a].user] \in {None, Ghost} /\ apps'[a].user \in UserId
    <3>1. IsApp(a)' /\ users'[apps'[a].user] \in {None, Ghost}
      BY DEF Orphan, IsUser
    <3>2. apps'[a] \in App
      BY <3>1 DEF IsApp, TypeInv, TypeOK
    <3>. QED
      BY <3>1, <3>2 DEF App
  <2>2. CASE apps'[a].user \in loose
    BY <2>2
  <2>3. CASE apps'[a].user \notin loose
    <3>1. IsApp(a) /\ apps'[a].user = apps[a].user /\ Orphan(a)
      BY <2>1, <2>3 DEF Orphan, IsUser
    <3>2. PICK q \in Proc : Removing(q, a)
      BY <2>3, <3>1 DEF OrphanInv, OrphansExplained
    <3>3. CASE q = p
      BY <2>1, <3>1, <3>2, <3>3
    <3>4. CASE q # p
      <4>1. call'[q] = call[q] /\ (call[q].pc = "listApps" => call[q].user \in UserId)
        BY <3>4 DEF TypeInv, Sound
      <4>2. Removing(q, a)'
        BY <2>1, <3>2, <4>1 DEF Removing, At
      <4>. QED
        BY <4>2
    <3>. QED
      BY <3>3, <3>4
  <2>. QED
    BY <2>2, <2>3
<1>. QED
  BY <1>1, <1>2 DEF OrphanInv

\* A step that writes no hash and no index of users.
LEMMA ReadExplained ==
    ASSUME TypeInv, TypeInv', OrphanInv, NEW p \in Proc, \A q \in Proc \ {p} : call'[q] = call[q],
           loose \subseteq loose', UNCHANGED <<users, apps, userApps>>,
           \A a \in AppId : Orphan(a) /\ Removing(p, a) => Removing(p, a)' \/ apps[a].user \in loose',
           \A u \in UserId : Inserting(p, u)' => IsUser(u) \/ u \in loose
    PROVE  OrphanInv'
<1>1. /\ \A u \in UserId : IsUser(u) => IsUser(u)'
      /\ \A a \in AppId : IsApp(a)' => IsApp(a) /\ apps'[a].user = apps[a].user
  BY DEF IsUser, IsApp
<1>. QED
  BY <1>1, StepExplained

\* A call that removes nothing has nothing before it.
LEMMA RemovesNothing ==
    ASSUME NEW p \in Proc, call[p].op # "remove"
    PROVE  \A a \in AppId : ~Removing(p, a)
  BY DEF Removing

\* An idle call inserts and removes nothing.
LEMMA IdleAway == Idle.op # "insert" /\ Idle.op # "remove"
  BY ConsumersAssumption DEF Idle

\* An insertion, once it has seen its user, goes on with that user or with none.
LEMMA InsertExplained ==
    ASSUME TypeInv, TypeInv', OrphanInv, NEW p \in Proc, \A q \in Proc \ {p} : call'[q] = call[q],
           UNCHANGED <<users, apps, userApps, loose>>, call[p].op # "remove",
           \A u \in UserId : call'[p].user = u => Inserting(p, u) \/ IsUser(u)
    PROVE  OrphanInv'
<1>1. \A u \in UserId : Inserting(p, u)' => IsUser(u) \/ u \in loose
  BY DEF Inserting, OrphanInv, InsertsKnown
<1>. QED
  BY <1>1, RemovesNothing, ReadExplained

\* A call that is over, if it had nothing left to remove.
LEMMA QuitExplained ==
    ASSUME TypeInv, TypeInv', OrphanInv, NEW p \in Proc, Quit(p), loose \subseteq loose',
           UNCHANGED <<users, apps, userApps>>,
           \A a \in AppId : Orphan(a) /\ Removing(p, a) => apps[a].user \in loose'
    PROVE  OrphanInv'
<1>1. call'[p] = Idle /\ \A q \in Proc \ {p} : call'[q] = call[q]
  BY DEF Quit, TypeInv, TypeOK
<1>2. \A u \in UserId : ~Inserting(p, u)'
  BY <1>1, IdleAway DEF Inserting
<1>. QED
  BY <1>1, <1>2, ReadExplained

\* A request arrives: one that inserts an application has just found its user.
LEMMA RequestExplained ==
    ASSUME TypeInv, TypeInv', OrphanInv, NEW p \in Proc, Request(p)
    PROVE  OrphanInv'
<1>1. call[p] = Idle
  BY DEF Request, InsertUser, UserOp, InsertApp, AppOp
<1>2. \A a \in AppId : ~Removing(p, a)
  BY <1>1, IdleAway, RemovesNothing
<1>3. ASSUME NEW n \in Username, InsertUser(p, n) PROVE OrphanInv'
  <2>1. UNCHANGED <<users, apps, userApps, loose>>
    BY <1>3 DEF InsertUser, store
  <2>2. /\ \A q \in Proc \ {p} : call'[q] = call[q]
        /\ call'[p].pc = "findUser" \/ call'[p].user = None
    <3>. DEFINE c == [Idle EXCEPT !.op = "insert", !.name = n]
    <3>1. PICK d \in Call : call' = [call EXCEPT ![p] = d] /\ (d.pc = "findUser" \/ d.user = None)
      <4>1. CASE call' = [call EXCEPT ![p] = [c EXCEPT !.pc = "addUser"]]
        <5>1. [c EXCEPT !.pc = "addUser"] \in Call /\ [c EXCEPT !.pc = "addUser"].user = None
          BY DEF Idle, Call
        <5>. QED
          BY <4>1, <5>1
      <4>2. ASSUME NEW u \in usernames[n],
                   call' = [call EXCEPT ![p] = [c EXCEPT !.pc = "findUser", !.user = u]]
            PROVE  \E d \in Call : call' = [call EXCEPT ![p] = d] /\ (d.pc = "findUser" \/ d.user = None)
        <5>1. u \in UserId
          BY DEF TypeInv, TypeOK
        <5>2. /\ [c EXCEPT !.pc = "findUser", !.user = u] \in Call
              /\ [c EXCEPT !.pc = "findUser", !.user = u].pc = "findUser"
          BY <5>1 DEF Idle, Call
        <5>. QED
          BY <4>2, <5>2
      <4>. QED
        BY <1>3, <4>1, <4>2 DEF InsertUser
    <3>. QED
      BY <3>1 DEF TypeInv, TypeOK
  <2>3. \A u \in UserId : ~Inserting(p, u)'
    BY <2>2, ConsumersAssumption DEF Inserting, At
  <2>. QED
    BY <1>2, <2>1, <2>2, <2>3, ReadExplained
<1>4. ASSUME NEW u \in UserId, NEW op \in {"remove", "activate", "deactivate", "update"}, UserOp(p, op, u)
      PROVE  OrphanInv'
  <2>1. UNCHANGED <<users, apps, userApps, loose>>
    BY <1>4 DEF UserOp, store
  <2>2. (\A q \in Proc \ {p} : call'[q] = call[q]) /\ call'[p].op = op
    BY <1>4 DEF UserOp, Idle, TypeInv, TypeOK
  <2>3. \A v \in UserId : ~Inserting(p, v)'
    BY <2>2 DEF Inserting
  <2>. QED
    BY <1>2, <2>1, <2>2, <2>3, ReadExplained
<1>5. ASSUME NEW u \in UserId, NEW n \in NewName, InsertApp(p, u, n) PROVE OrphanInv'
  <2>1. UNCHANGED <<users, apps, userApps, loose>> /\ IsUser(u)
    BY <1>5 DEF InsertApp, store
  <2>2. (\A q \in Proc \ {p} : call'[q] = call[q]) /\ call'[p].user = u
    BY <1>5 DEF InsertApp, Idle, TypeInv, TypeOK
  <2>. QED
    BY <1>1, <2>1, <2>2, IdleAway, InsertExplained
<1>6. ASSUME NEW op \in {"remove", "activate", "deactivate", "update"}, NEW a \in AppId,
             NEW n \in AppName \cup {None}, AppOp(p, op, a, n)
      PROVE  OrphanInv'
  <2>1. UNCHANGED <<users, apps, userApps, loose>>
    BY <1>6 DEF AppOp, store, hist
  <2>2. (\A q \in Proc \ {p} : call'[q] = call[q]) /\ call'[p].op = op
    BY <1>6 DEF AppOp, Idle, TypeInv, TypeOK
  <2>3. \A v \in UserId : ~Inserting(p, v)'
    BY <2>2 DEF Inserting
  <2>. QED
    BY <1>2, <2>1, <2>2, <2>3, ReadExplained
<1>. QED
  BY <1>3, <1>4, <1>5, <1>6 DEF Request

\* The look-ups of insertions.
LEMMA LookupExplained ==
    ASSUME TypeInv, TypeInv', OrphanInv, NEW p \in Proc, FindUser(p) \/ FindAppName(p) \/ FindApp(p)
    PROVE  OrphanInv'
<1>1. /\ UNCHANGED <<users, apps, userApps, loose>> /\ call[p].op = "insert" /\ call[p] \in Call
      /\ call[p].pc \in {"findUser", "findAppName", "findApp"}
  BY DEF FindUser, FindAppName, FindApp, At, store, TypeInv, TypeOK, Sound
<1>2. CASE Quit(p)
  BY <1>1, <1>2, RemovesNothing, QuitExplained
<1>3. ASSUME NEW c \in Call, call' = [call EXCEPT ![p] = c], c.user = None \/ c.user = call[p].user,
             c.user = call[p].user => call[p].pc # "findUser"
      PROVE  OrphanInv'
  <2>1. \A u \in UserId : c.user = u => Inserting(p, u)
    BY <1>1, <1>3, ConsumersAssumption DEF Inserting, At
  <2>2. call'[p] = c /\ \A q \in Proc \ {p} : call'[q] = call[q]
    BY <1>3 DEF TypeInv, TypeOK
  <2>. QED
    BY <1>1, <2>1, <2>2, InsertExplained
<1>4. CASE FindUser(p) /\ ~Quit(p)
  <2>. DEFINE c == [call[p] EXCEPT !.pc = "addUser", !.user = None]
  <2>1. c \in Call /\ c.user = None
    BY <1>1 DEF Call
  <2>2. call' = [call EXCEPT ![p] = c]
    BY <1>4 DEF FindUser, Become
  <2>3. call[p].user # None
    BY <1>4, ConsumersAssumption DEF FindUser, At, TypeInv, Sound
  <2>. HIDE DEF c
  <2>. QED
    BY <1>3, <2>1, <2>2, <2>3
<1>5. CASE (FindAppName(p) \/ FindApp(p)) /\ ~Quit(p)
  <2>0. call[p].pc # "findUser"
    BY <1>5 DEF FindAppName, FindApp, At
  <2>1. ASSUME NEW a \in AppId \cup {None}, NEW s \in {"addApp", "findApp"},
               call' = [call EXCEPT ![p] = [call[p] EXCEPT !.pc = s, !.app = a]]
        PROVE  OrphanInv'
    <3>. DEFINE c == [call[p] EXCEPT !.pc = s, !.app = a]
    <3>1. c \in Call /\ c.user = call[p].user
      BY <1>1 DEF Call
    <3>. QED
      BY <1>3, <2>0, <2>1, <3>1
  <2>2. ASSUME Goto(p, "addApp") PROVE OrphanInv'
    <3>. DEFINE c == [call[p] EXCEPT !.pc = "addApp"]
    <3>1. c \in Call /\ c.user = call[p].user
      BY <1>1 DEF Call
    <3>. QED
      BY <1>3, <2>0, <2>2, <3>1 DEF Goto, Become
  <2>3. call[p].name \in AppName => appNames[call[p].name] \subseteq AppId
    BY DEF TypeInv, TypeOK
  <2>4. FindAppName(p) => call[p].name \in AppName
    BY DEF FindAppName, At, TypeInv, Sound
  <2>. QED
    BY <1>5, <2>1, <2>2, <2>3, <2>4 DEF FindAppName, FindApp, Become
<1>. QED
  BY <1>2, <1>4, <1>5

\* A user is removed: its applications are about to be listed, and those still to come have been noted.
LEMMA DelUserExplained ==
    ASSUME TypeInv, TypeInv', IndexInv, OrphanInv, NEW p \in Proc, DelUser(p)
    PROVE  OrphanInv'
<1>. DEFINE u == call[p].user
            c == [call[p] EXCEPT !.pc = "listApps", !.name = None]
<1>1. /\ u \in UserId /\ call[p] \in Call /\ call[p].op = "remove"
      /\ users' = [users EXCEPT ![u] = None] /\ UNCHANGED <<apps, userApps>>
      /\ loose' = IF \E q \in Proc : Inserting(q, u) THEN loose \cup {u} ELSE loose
      /\ call' = [call EXCEPT ![p].pc = "listApps", ![p].name = None]
      /\ call[p].todo = {} /\ call[p].read = {} /\ ~At(p, "listApps")
  BY DEF DelUser, At, TypeInv, TypeOK, Sound
<1>2. /\ call'[p].pc = "listApps" /\ call'[p].op = "remove" /\ call'[p].user = u
      /\ \A q \in Proc \ {p} : call'[q] = call[q]
  BY <1>1 DEF TypeInv, TypeOK, Call
<1>3. \A v \in UserId : v # u => (IsUser(v)' <=> IsUser(v))
  BY <1>1 DEF IsUser, TypeInv, TypeOK
<1>4. \A q \in Proc, v \in UserId : Inserting(q, v)' => q # p /\ Inserting(q, v)
  BY <1>2 DEF Inserting, At
<1>5. InsertsKnown'
  BY <1>1, <1>3, <1>4 DEF OrphanInv, InsertsKnown
<1>6. OrphansExplained'
  <2>. SUFFICES ASSUME NEW a \in AppId, Orphan(a)'
                PROVE  apps'[a].user \in loose' \/ \E q \in Proc : Removing(q, a)'
    BY DEF OrphansExplained
  <2>1. IsApp(a) /\ apps'[a].user = apps[a].user /\ apps[a].user \in UserId
    <3>1. IsApp(a)
      BY <1>1 DEF Orphan, IsApp
    <3>. QED
      BY <1>1, <3>1, HashTyped DEF App
  <2>2. CASE apps[a].user = u
    <3>1. a \in userApps[u]
      BY <1>1, <2>1, <2>2 DEF IndexInv, StoreInv, IndexesFollow
    <3>2. Removing(p, a)'
      BY <1>1, <1>2, <3>1 DEF Removing, At
    <3>. QED
      BY <3>2
  <2>3. CASE apps[a].user # u
    <3>1. Orphan(a)
      BY <1>1, <1>3, <2>1, <2>3 DEF Orphan
    <3>2. CASE apps[a].user \in loose
      BY <1>1, <2>1, <3>2
    <3>3. ASSUME NEW q \in Proc, Removing(q, a) PROVE Removing(q, a)'
      <4>1. q # p
        BY <1>1, <3>3 DEF Removing
      <4>. QED
        BY <1>1, <1>2, <3>3, <4>1 DEF Removing, At
    <3>. QED
      BY <3>1, <3>2, <3>3 DEF OrphanInv, OrphansExplained
  <2>. QED
    BY <2>2, <2>3
<1>. QED
  BY <1>5, <1>6 DEF OrphanInv

\* A user is inserted, activated, deactivated or updated: whoever was a user still is.
LEMMA WriteUserExplained ==
    ASSUME TypeInv, TypeInv', IndexInv, Keeps, OrphanInv, NEW p \in Proc, AddUser(p) \/ WriteUser(p)
    PROVE  OrphanInv'
<1>1. /\ UNCHANGED <<apps, userApps, loose>>
      /\ call[p].op # "remove"
  BY DEF AddUser, WriteUser, At, TypeInv, Sound
<1>2. \A q \in Proc \ {p} : call'[q] = call[q]
  BY DEF AddUser, WriteUser, Quit, TypeInv, TypeOK
<1>3. call'[p].op # "insert"
  <2>1. CASE AddUser(p)
    BY <2>1, IdleAway DEF AddUser, Quit, TypeInv, TypeOK
  <2>2. CASE WriteUser(p)
    <3>1. call[p] \in Call /\ call[p].op # "insert"
      BY <2>2 DEF WriteUser, At, TypeInv, TypeOK, Sound
    <3>2. call'[p] = IF call[p].op = "deactivate" THEN [call[p] EXCEPT !.pc = "listApps"] ELSE Idle
      BY <2>2 DEF WriteUser, TypeInv, TypeOK
    <3>. QED
      BY <3>1, <3>2, IdleAway DEF Call
  <2>. QED
    BY <2>1, <2>2
<1>4. \A u \in UserId : IsUser(u) => IsUser(u)'
  <2>1. CASE AddUser(p)
    <3>1. PICK v \in UserId \ born :
             users' = [users EXCEPT ![v] = [username |-> call[p].name, isActive |-> TRUE]]
      BY <2>1 DEF AddUser
    <3>2. [username |-> call[p].name, isActive |-> TRUE] \in User
      BY <2>1 DEF AddUser, At, TypeInv, Sound, User
    <3>3. users'[v] \notin {None, Ghost}
      BY <3>1, <3>2, HashTyped DEF TypeInv, TypeOK
    <3>. QED
      BY <3>1, <3>3 DEF IsUser, TypeInv, TypeOK
  <2>2. CASE WriteUser(p)
    <3>. DEFINE u == call[p].user  h == users[u]
    <3>1. u \in UserId /\ call[p].op \in {"activate", "deactivate", "update"}
      BY <2>2 DEF WriteUser, At, TypeInv, TypeOK, Sound
    <3>2. ASSUME IsUser(u) PROVE users'[u] \notin {None, Ghost}
      <4>1. h \in User /\ [h EXCEPT !.isActive = TRUE] \in User /\ [h EXCEPT !.isActive = FALSE] \in User
        BY <3>1, <3>2, HashTyped DEF User
      <4>2. users'[u] \in User
        <5>1. CASE call[p].op = "activate"
          BY <2>2, <3>1, <3>2, <4>1, <5>1 DEF WriteUser, TypeInv, TypeOK
        <5>2. CASE call[p].op = "deactivate"
          BY <2>2, <3>1, <3>2, <4>1, <5>2 DEF WriteUser, TypeInv, TypeOK
        <5>3. CASE call[p].op = "update"
          BY <2>2, <3>1, <3>2, <4>1, <5>3 DEF WriteUser, TypeInv, TypeOK
        <5>. QED
          BY <3>1, <5>1, <5>2, <5>3
      <4>. QED
        BY <4>2, HashTyped
    <3>3. \A v \in UserId : v # u => users'[v] = users[v]
      BY <2>2 DEF WriteUser, TypeInv, TypeOK
    <3>. QED
      BY <3>2, <3>3 DEF IsUser
  <2>. QED
    BY <2>1, <2>2
<1>5. \A a \in AppId : IsApp(a)' => IsApp(a) /\ apps'[a].user = apps[a].user
  BY <1>1 DEF IsApp
<1>. QED
  BY <1>1, <1>2, <1>3, <1>4, <1>5, RemovesNothing, StepExplained DEF Inserting

\* The applications of the user are listed: those about to be listed are now to be dealt with.
LEMMA ListAppsExplained ==
    ASSUME TypeInv, TypeInv', OrphanInv, NEW p \in Proc, ListApps(p)
    PROVE  OrphanInv'
<1>. DEFINE c == [Idle EXCEPT !.pc = "cascade", !.op = call[p].op, !.todo = Listed(userApps[call[p].user])]
<1>1. /\ call[p].op \in {"remove", "deactivate"} /\ call[p].todo = {} /\ call[p].read = {}
      /\ UNCHANGED <<users, apps, userApps, loose>> /\ call' = [call EXCEPT ![p] = c]
  BY DEF ListApps, Become, At, store, TypeInv, Sound
<1>2. /\ call'[p] = c /\ c.op = call[p].op /\ c.todo = userApps[call[p].user]
      /\ \A q \in Proc \ {p} : call'[q] = call[q]
  BY <1>1 DEF TypeInv, TypeOK, Idle, Listed
<1>3. \A u \in UserId : ~Inserting(p, u)'
  BY <1>1, <1>2 DEF Inserting
<1>4. \A a \in AppId : Removing(p, a) => Removing(p, a)'
  BY <1>1, <1>2 DEF Removing
<1>. QED
  BY <1>1, <1>2, <1>3, <1>4, ReadExplained

\* A listed application is read: if it is there, it is now to be removed.
LEMMA ReadListedExplained ==
    ASSUME TypeInv, TypeInv', OrphanInv, NEW p \in Proc, NEW b, ReadListed(p, b)
    PROVE  OrphanInv'
<1>. DEFINE c == [call[p] EXCEPT !.todo = @ \ {b},
                                 !.read = IF IsApp(b) THEN @ \cup {Fields(b)} ELSE @]
<1>1. /\ call[p].op = "remove" /\ ~At(p, "listApps") /\ call[p] \in Call
      /\ UNCHANGED <<users, apps, userApps, loose>> /\ call' = [call EXCEPT ![p] = c]
  BY DEF ReadListed, Become, At, store, TypeInv, TypeOK
<1>2. /\ \A q \in Proc \ {p} : call'[q] = call[q]
      /\ call'[p] = c /\ c.op = "remove" /\ c.todo = call[p].todo \ {b}
      /\ c.read = IF IsApp(b) THEN call[p].read \cup {Fields(b)} ELSE call[p].read
  BY <1>1 DEF TypeInv, TypeOK, Call
<1>3. \A u \in UserId : ~Inserting(p, u)'
  BY <1>2 DEF Inserting
<1>4. ASSUME NEW a \in AppId, Orphan(a), Removing(p, a) PROVE Removing(p, a)'
  <2>1. a \in call[p].todo \/ \E r \in call[p].read : r[1] = a
    BY <1>1, <1>4 DEF Removing
  <2>2. IsApp(a) /\ Fields(a)[1] = a
    BY <1>4 DEF Orphan, Fields
  <2>3. a \in c.todo \/ \E r \in c.read : r[1] = a
    BY <1>2, <2>1, <2>2
  <2>. QED
    BY <1>2, <2>3 DEF Removing
<1>. QED
  BY <1>1, <1>2, <1>3, <1>4, ReadExplained

\* An application is inserted: its user is known.
LEMMA AddAppExplained ==
    ASSUME TypeInv, TypeInv', IndexInv, OrphanInv, NEW p \in Proc, AddApp(p)
    PROVE  OrphanInv'
<1>. DEFINE u == call[p].user  h == [name |-> call[p].name, user |-> u, isActive |-> TRUE]
<1>1. u \in UserId /\ call[p].op = "insert" /\ Inserting(p, u) /\ h.user = u
  BY DEF AddApp, At, Inserting, TypeInv, Sound
<1>. HIDE DEF h
<1>2. PICK a \in AppId \ born : /\ apps' = [apps EXCEPT ![a] = h]
                                /\ userApps' = [userApps EXCEPT ![u] = @ \cup {a}]
  BY DEF AddApp, h
<1>3. UNCHANGED <<users, loose>> /\ Quit(p)
  BY DEF AddApp
<1>4. IsUser(u) \/ u \in loose
  BY <1>1 DEF OrphanInv, InsertsKnown
<1>5. \A b \in AppId : IsApp(b)' => \/ IsApp(b) /\ apps'[b].user = apps[b].user
                                    \/ IsUser(apps'[b].user) \/ apps'[b].user \in loose
  BY <1>1, <1>2, <1>4 DEF IsApp, TypeInv, TypeOK
<1>6. /\ \A q \in Proc \ {p} : call'[q] = call[q]
      /\ \A v \in UserId : ~Inserting(p, v)'
  BY <1>3, IdleAway DEF Quit, Inserting, TypeInv, TypeOK
<1>7. \A b \in AppId, v \in UserId : b \in userApps[v] => b \in userApps'[v]
  BY <1>2 DEF TypeInv, TypeOK
<1>. QED
  BY <1>1, <1>3, <1>5, <1>6, <1>7, RemovesNothing, StepExplained DEF IsUser

\* An application is activated, updated or deactivated: it stays its user's, or is a Ghost.
LEMMA WriteAppExplained ==
    ASSUME TypeInv, TypeInv', IndexInv, Keeps, OrphanInv, NEW p \in Proc,
           WriteApp(p) \/ \E a \in call[p].todo : DeactivateApp(p, a)
    PROVE  OrphanInv'
<1>1. UNCHANGED <<users, userApps, loose>> /\ call[p].op \in {"activate", "update", "deactivate"}
  BY DEF WriteApp, DeactivateApp, At, TypeInv, Sound
<1>2. \A q \in Proc \ {p} : call'[q] = call[q]
  BY DEF WriteApp, DeactivateApp, Become, TypeInv, TypeOK
<1>3. call'[p].op # "insert"
  <2>1. CASE WriteApp(p)
    BY <2>1, IdleAway DEF WriteApp, TypeInv, TypeOK
  <2>2. ASSUME NEW a, DeactivateApp(p, a) PROVE call'[p].op # "insert"
    <3>1. call[p] \in Call /\ call'[p] = [call[p] EXCEPT !.todo = @ \ {a}]
      BY <2>2 DEF DeactivateApp, Become, TypeInv, TypeOK
    <3>. QED
      BY <1>1, <3>1 DEF Call
  <2>. QED
    BY <2>1, <2>2
<1>4. \A a \in AppId : IsApp(a)' => IsApp(a) /\ apps'[a].user = apps[a].user
  <2>1. born' = born
    BY DEF WriteApp, DeactivateApp
  <2>2. \A a \in AppId : apps'[a] # apps[a] => a \in born
    <3>1. CASE WriteApp(p)
      <4>1. call[p].app \in born
        BY <3>1 DEF WriteApp, At, IndexInv, Bound
      <4>2. \A a \in AppId : a # call[p].app => apps'[a] = apps[a]
        BY <3>1 DEF WriteApp, TypeInv, TypeOK
      <4>. QED
        BY <4>1, <4>2
    <3>2. ASSUME NEW b \in call[p].todo, DeactivateApp(p, b)
          PROVE  \A a \in AppId : apps'[a] # apps[a] => a \in born
      <4>1. b \in born
        BY <3>2 DEF IndexInv, Bound
      <4>2. \A a \in AppId : a # b => apps'[a] = apps[a]
        BY <3>2 DEF DeactivateApp, TypeInv, TypeOK
      <4>. QED
        BY <4>1, <4>2
    <3>. QED
      BY <3>1, <3>2
  <2>. QED
    BY <2>2 DEF Keeps, IsApp
<1>. QED
  BY <1>1, <1>2, <1>3, <1>4, RemovesNothing, StepExplained DEF IsUser, Inserting

\* An application is removed: what is left to remove is what was.
LEMMA DelAppExplained ==
    ASSUME TypeInv, TypeInv', IndexInv, OrphanInv, NEW p \in Proc, NEW r \in call[p].read, DelApp(p, r)
    PROVE  OrphanInv'
<1>. DEFINE c == [call[p] EXCEPT !.read = @ \ {r}]
<1>1. /\ call[p] \in Call /\ ~At(p, "listApps") /\ call' = [call EXCEPT ![p] = c]
      /\ apps' = [apps EXCEPT ![r[1]] = None] /\ userApps' = [userApps EXCEPT ![r[3]] = @ \ {r[1]}]
      /\ UNCHANGED <<users, loose>>
  BY DEF DelApp, Become, At, Disowned, TypeInv, TypeOK
<1>2. r[1] \in AppId /\ r[3] \in UserId /\ call[p].op # "insert"
  BY <1>1 DEF Call, DelApp, At, TypeInv, Sound
<1>3. call'[p] = c /\ c.op = call[p].op /\ c.todo = call[p].todo /\ c.read = call[p].read \ {r}
  BY <1>1 DEF Call, TypeInv, TypeOK
<1>4. \A a \in AppId : IsApp(a)' => a # r[1] /\ IsApp(a) /\ apps'[a].user = apps[a].user
  BY <1>1, <1>2 DEF IsApp, TypeInv, TypeOK
<1>5. \A a \in AppId, u \in UserId : IsApp(a)' /\ a \in userApps[u] => a \in userApps'[u]
  BY <1>1, <1>2, <1>4 DEF TypeInv, TypeOK
<1>6. \A a \in AppId : IsApp(a)' /\ Removing(p, a) => Removing(p, a)'
  <2>. SUFFICES ASSUME NEW a \in AppId, IsApp(a)', Removing(p, a) PROVE Removing(p, a)'
    OBVIOUS
  <2>1. a \in call[p].todo \/ \E s \in call[p].read : s[1] = a
    BY <1>1 DEF Removing
  <2>2. a \in c.todo \/ \E s \in c.read : s[1] = a
    BY <1>3, <1>4, <2>1
  <2>. QED
    BY <1>3, <2>2 DEF Removing
<1>7. \A q \in Proc \ {p} : call'[q] = call[q]
  BY <1>1 DEF TypeInv, TypeOK
<1>8. \A u \in UserId : ~Inserting(p, u)'
  BY <1>2, <1>3 DEF Inserting
<1>. QED
  BY <1>1, <1>4, <1>5, <1>6, <1>7, <1>8, StepExplained DEF IsUser

\* A call answers, with nothing left to remove, or dies, and what it leaves is noted.
LEMMA OverExplained ==
    ASSUME TypeInv, TypeInv', OrphanInv, NEW p \in Proc, Answer(p) \/ Crash(p)
    PROVE  OrphanInv'
<1>1. Quit(p) /\ UNCHANGED <<users, apps, userApps>>
  BY DEF Answer, Crash, store
<1>2. CASE Answer(p)
  <2>1. \A a \in AppId : ~Removing(p, a)
    BY <1>2 DEF Answer, Finished, Removing, At
  <2>. QED
    BY <1>1, <1>2, <2>1, QuitExplained DEF Answer
<1>3. CASE Crash(p)
  BY <1>1, <1>3, QuitExplained DEF Crash
<1>. QED
  BY <1>2, <1>3

\* No step leaves an orphan unexplained.
LEMMA NextExplained == TypeInv /\ TypeInv' /\ IndexInv /\ Keeps /\ OrphanInv /\ [Next]_vars => OrphanInv'
<1>. SUFFICES ASSUME TypeInv, TypeInv', IndexInv, Keeps, OrphanInv, [Next]_vars PROVE OrphanInv'
  OBVIOUS
<1>1. CASE UNCHANGED vars
  BY <1>1 DEF OrphanInv, OrphansExplained, InsertsKnown, Orphan, Removing, Inserting, At, IsUser, IsApp,
              vars, store, hist
<1>2. ASSUME NEW p \in Proc, UserStep(p) PROVE OrphanInv'
  BY <1>2, LookupExplained, WriteUserExplained, DelUserExplained, ListAppsExplained DEF UserStep
<1>3. ASSUME NEW p \in Proc, AppStep(p) PROVE OrphanInv'
  BY <1>3, LookupExplained, AddAppExplained, WriteAppExplained, ReadListedExplained, DelAppExplained,
     OverExplained DEF AppStep
<1>. QED
  BY <1>1, <1>2, <1>3, RequestExplained, OverExplained DEF Next

\* An application whose user is gone is about to be removed, or was inserted while its user was
\* removed, or its user's removal died: cascades and insertions that overlap leave no other behind.
THEOREM OrphansAreExplained == Spec => []OrphansExplained
<1>1. Init => OrphanInv
  BY IdleAway DEF Init, OrphanInv, OrphansExplained, InsertsKnown, Orphan, Inserting, IsApp
<1>2. OrphanInv => OrphansExplained
  BY DEF OrphanInv
<1>. QED
  BY <1>1, <1>2, NextExplained, NextIndexed, TypeAlways, IndexAlways, PTL DEF Spec
=============================================================================
