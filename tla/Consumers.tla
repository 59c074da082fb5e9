----------------------------- MODULE Consumers -----------------------------
(***************************************************************************)
(* Users and applications: lib/services/consumers, as the admin routes     *)
(* rest/routes/users.js and apps.js call them.                             *)
(*                                                                         *)
(* A user or application is one Redis hash; sets index user ids by         *)
(* username, application ids by user, and application ids by name.  A hash *)
(* and its indexes change in one MULTI, but every operation reads in       *)
(* earlier commands what it decides from, and commands of different calls  *)
(* interleave.  hmset on a deleted key creates a hash with nothing but the *)
(* fields written: a Ghost, without id, username or userId.                *)
(*                                                                         *)
(* Successive reads of one hash, in the route, the service and the dao,    *)
(* are one step: nothing is written between them, so the call goes on just *)
(* as if the first of them had been made last.  A request arrives at its   *)
(* first read, and one that this read refuses is not a step.               *)
(***************************************************************************)
EXTENDS Naturals, FiniteSets

CONSTANTS
    UserId, AppId,      \* ids; uuids, never drawn twice
    Username, AppName,
    NewName,            \* bound: the names that applications are inserted under
    Proc,               \* calls in progress, in any gateway process
    None,               \* nothing
    Ghost               \* a hash without username or userId

User == [username : Username, isActive : BOOLEAN]
App  == [name : AppName, user : UserId, isActive : BOOLEAN]

ASSUME ConsumersAssumption ==
    /\ NewName \subseteq AppName
    /\ None # Ghost
    /\ {None, Ghost} \cap (User \cup App) = {}
    /\ None \notin UserId \cup AppId \cup Username \cup AppName
    /\ None \notin {"insert", "remove", "activate", "deactivate", "update"}
    /\ UserId \cap AppId = {}
    /\ Username \cap AppName = {}

VARIABLES
    users,      \* users[u]: the hash of user u, or None
    usernames,  \* usernames[n]: the set of user ids under username n
    apps,       \* apps[a]: the hash of application a, or None
    userApps,   \* userApps[u]: the set of application ids of user u
    appNames,   \* appNames[n]: the set of application ids under name n
    call,       \* call[p]: the operation p is executing
    born,       \* history: every id ever inserted
    renamed,    \* history: applications whose name was ever written by update
    loose,      \* history: users removed during an insertion of theirs, or by a call that died
    taken,      \* history: taken[p], the users of the username p inserts, or those of the
                \* applications under the name p inserts that are the user's, when p began
    owed        \* history: owed[p], what p, removing or deactivating a user, must deal with

store == <<users, usernames, apps, userApps, appNames>>
hist  == <<born, renamed, loose, taken, owed>>
vars  == <<store, call, hist>>

\* A call in progress: where it is, what it does to whom, and what it has read.
\* todo: applications still to be dealt with; read: those read and to be removed.
Call == [pc : {"idle", "findUser", "addUser", "writeUser", "listApps",
               "writeApp", "cascade", "findAppName", "findApp", "addApp"},
         op : {None, "insert", "remove", "activate", "deactivate", "update"},
         user : UserId \cup {None}, app : AppId \cup {None},
         name : Username \cup AppName \cup {None},
         todo : SUBSET AppId, read : SUBSET (AppId \X AppName \X UserId)]
Idle == [pc |-> "idle", op |-> None, user |-> None, app |-> None, name |-> None,
         todo |-> {}, read |-> {}]

Init ==
    /\ users = [u \in UserId |-> None]
    /\ usernames = [n \in Username |-> {}]
    /\ apps = [a \in AppId |-> None]
    /\ userApps = [u \in UserId |-> {}]
    /\ appNames = [n \in AppName |-> {}]
    /\ call = [p \in Proc |-> Idle]
    /\ born = {} /\ renamed = {} /\ loose = {}
    /\ taken = [p \in Proc |-> {}]
    /\ owed = [p \in Proc |-> {}]

\* The hash has the fields its insertion gave it.  A route answered with a Ghost has no id
\* to go on with: for a user it fails, for an application it writes, at the most, status
\* and properties of the hash application:undefined, which is not modelled.
IsUser(u) == users[u] \notin {None, Ghost}
IsApp(a)  == apps[a] \notin {None, Ghost}

\* What applicationDao.remove takes of an application.
Fields(a) == <<a, apps[a].name, apps[a].user>>

At(p, pc) == call[p].pc = pc
Become(p, c) == call' = [call EXCEPT ![p] = c] /\ UNCHANGED <<taken, owed>>
Goto(p, pc) == Become(p, [call[p] EXCEPT !.pc = pc])

\* p is inserting an application for user u, which it has found.
Inserting(p, u) == call[p].op = "insert" /\ call[p].user = u /\ ~At(p, "findUser")

\* p, removing a user or an application, has application a still before it.
Removing(p, a) ==
    /\ call[p].op = "remove"
    /\ \/ At(p, "listApps") /\ a \in userApps[call[p].user]
       \/ a \in call[p].todo
       \/ \E r \in call[p].read : r[1] = a

\* An application whose user is gone.
Orphan(a) == IsApp(a) /\ ~IsUser(apps[a].user)

\* The call is over: done, refused, or with nothing to do.
Quit(p) ==
    /\ call' = [call EXCEPT ![p] = Idle]
    /\ taken' = [taken EXCEPT ![p] = {}]
    /\ owed' = [owed EXCEPT ![p] = {}]

-----------------------------------------------------------------------------
(* Users.                                                                   *)

\* s.find: smembers of the username; its first id may be any of them.
InsertUser(p, n) ==
    LET c == [Idle EXCEPT !.op = "insert", !.name = n]
    IN  /\ call[p] = Idle
        /\ \/ /\ usernames[n] = {}
              /\ call' = [call EXCEPT ![p] = [c EXCEPT !.pc = "addUser"]]
           \/ \E u \in usernames[n] :
                call' = [call EXCEPT ![p] = [c EXCEPT !.pc = "findUser", !.user = u]]
        /\ taken' = [taken EXCEPT ![p] = usernames[n]]
        /\ UNCHANGED <<store, born, renamed, loose, owed>>

\* Mutant: a username that is found is used all the same.
FindUser_Accepts(p) ==
    /\ At(p, "findUser")
    /\ Goto(p, "addUser")
    /\ UNCHANGED <<store, born, renamed, loose>>

\* The user behind that id; the username is refused if there is one.
FindUser(p) ==
    /\ At(p, "findUser")
    /\ IF users[call[p].user] # None THEN Quit(p)
       ELSE Become(p, [call[p] EXCEPT !.pc = "addUser", !.user = None])
    /\ UNCHANGED <<store, born, renamed, loose>>

\* userDao.insert, one MULTI.
AddUser(p) ==
    /\ At(p, "addUser")
    /\ \E u \in UserId \ born :
         /\ users' = [users EXCEPT ![u] = [username |-> call[p].name, isActive |-> TRUE]]
         /\ usernames' = [usernames EXCEPT ![call[p].name] = @ \cup {u}]
         /\ born' = born \cup {u}
    /\ Quit(p)
    /\ UNCHANGED <<apps, userApps, appNames, renamed, loose>>

\* The status asked for is the one it has: the route answers and stops.
Already(op, isActive) ==
    \/ op = "activate" /\ isActive
    \/ op = "deactivate" /\ ~isActive

\* An operation on a user that the route finds; a removal keeps the username it read.
UserOp(p, op, u) ==
    /\ call[p] = Idle
    /\ IsUser(u) /\ ~Already(op, users[u].isActive)
    /\ call' = [call EXCEPT ![p] =
         [Idle EXCEPT !.pc = "writeUser", !.op = op, !.user = u,
                      !.name = IF op = "remove" THEN users[u].username ELSE None]]
    /\ owed' = [owed EXCEPT ![p] = IF op \in {"remove", "deactivate"}
                                   THEN {u} \cup userApps[u] ELSE {}]
    /\ UNCHANGED <<store, born, renamed, loose, taken>>

\* dao.activate, dao.deactivate, dao.update: one hmset, over a hash or over nothing.
\* An update cannot write the username, and writes nothing else that is modelled.
WriteUser(p) ==
    LET u == call[p].user
        h == users[u]
        op == call[p].op
    IN  /\ At(p, "writeUser") /\ op # "remove"
        /\ users' = [users EXCEPT ![u] =
             CASE ~IsUser(u) -> Ghost
               [] IsUser(u) /\ op = "activate" -> [h EXCEPT !.isActive = TRUE]
               [] IsUser(u) /\ op = "deactivate" -> [h EXCEPT !.isActive = FALSE]
               [] IsUser(u) /\ op = "update" -> h]
        /\ call' = [call EXCEPT ![p] =
             IF op = "deactivate" THEN [@ EXCEPT !.pc = "listApps"] ELSE Idle]
        /\ owed' = IF op = "activate" THEN [q \in Proc |-> owed[q] \ {u}] ELSE owed
        /\ UNCHANGED <<usernames, apps, userApps, appNames, born, renamed, loose, taken>>

\* Mutant: the id stays under the username.
Released_Not(u, n) == usernames

\* srem of the id, from the set of the username that was read.
Released(u, n) == [usernames EXCEPT ![n] = @ \ {u}]

\* userDao.remove: del and srem in one MULTI.
DelUser(p) ==
    LET u == call[p].user
        n == call[p].name
    IN  /\ At(p, "writeUser") /\ call[p].op = "remove"
        /\ users' = [users EXCEPT ![u] = None]
        /\ usernames' = Released(u, n)
        /\ call' = [call EXCEPT ![p].pc = "listApps", ![p].name = None]
        /\ loose' = IF \E q \in Proc : Inserting(q, u) THEN loose \cup {u} ELSE loose
        /\ UNCHANGED <<apps, userApps, appNames, born, renamed, taken, owed>>

\* Mutants: no cascade; a cascade over one application at most.
Listed_None(s) == {}
Listed_One(s) == IF Cardinality(s) = 1 THEN s ELSE {}

\* The applications a cascade goes through: every one listed.
Listed(s) == s

\* deactivateAll and removeAll begin with smembers of the user's applications.
ListApps(p) ==
    /\ At(p, "listApps")
    /\ Become(p, [Idle EXCEPT !.pc = "cascade", !.op = call[p].op,
                              !.todo = Listed(userApps[call[p].user])])
    /\ UNCHANGED <<store, born, renamed, loose>>

-----------------------------------------------------------------------------
(* Applications.                                                            *)

\* Mutant: the user need not exist.
InsertApp_Any(p, u, n) ==
    /\ call[p] = Idle
    /\ call' = [call EXCEPT ![p] = [Idle EXCEPT !.pc = "findAppName", !.op = "insert",
                                                !.user = u, !.name = n]]
    /\ taken' = [taken EXCEPT ![p] = {a \in appNames[n] : IsApp(a) /\ apps[a].user = u}]
    /\ UNCHANGED <<store, born, renamed, loose, owed>>

\* validateAndCreateApp: the user must exist.
InsertApp(p, u, n) ==
    /\ call[p] = Idle
    /\ IsUser(u)
    /\ call' = [call EXCEPT ![p] = [Idle EXCEPT !.pc = "findAppName", !.op = "insert",
                                                !.user = u, !.name = n]]
    /\ taken' = [taken EXCEPT ![p] = {a \in appNames[n] : IsApp(a) /\ apps[a].user = u}]
    /\ UNCHANGED <<store, born, renamed, loose, owed>>

\* applicationDao.find: more than one application of that name is an error.
FindAppName(p) ==
    LET found == appNames[call[p].name]
    IN  /\ At(p, "findAppName")
        /\ \/ found = {} /\ Goto(p, "addApp")
           \/ \E a \in found : /\ found = {a}
                               /\ Become(p, [call[p] EXCEPT !.pc = "findApp", !.app = a])
           \/ Cardinality(found) > 1 /\ Quit(p)
        /\ UNCHANGED <<store, born, renamed, loose>>

\* Mutant: the application found belongs to the user only if it is active.
OwnedBy_Active(a, u) == IsApp(a) /\ apps[a].user = u /\ apps[a].isActive

\* possibleApp.userId === app.userId
OwnedBy(a, u) == IsApp(a) /\ apps[a].user = u

\* A user does not get a second application of a name; another user may.
FindApp(p) ==
    /\ At(p, "findApp")
    /\ IF OwnedBy(call[p].app, call[p].user)
       THEN Quit(p)
       ELSE Become(p, [call[p] EXCEPT !.pc = "addApp", !.app = None])
    /\ UNCHANGED <<store, born, renamed, loose>>

\* addApp, one MULTI.
AddApp(p) ==
    LET u == call[p].user
        n == call[p].name
    IN  /\ At(p, "addApp")
        /\ \E a \in AppId \ born :
             /\ apps' = [apps EXCEPT ![a] = [name |-> n, user |-> u, isActive |-> TRUE]]
             /\ userApps' = [userApps EXCEPT ![u] = @ \cup {a}]
             /\ appNames' = [appNames EXCEPT ![n] = @ \cup {a}]
             /\ born' = born \cup {a}
        /\ Quit(p)
        /\ UNCHANGED <<users, usernames, renamed, loose>>

\* An operation on an application that the route finds; an update names it n,
\* be it the name it has.
AppOp(p, op, a, n) ==
    LET c == [Idle EXCEPT !.op = op]
    IN  /\ call[p] = Idle
        /\ IsApp(a) /\ ~Already(op, apps[a].isActive)
        /\ call' = [call EXCEPT ![p] =
             CASE op = "remove" -> [c EXCEPT !.pc = "cascade", !.read = {Fields(a)}]
               [] op = "deactivate" -> [c EXCEPT !.pc = "cascade", !.todo = {a}]
               [] OTHER -> [c EXCEPT !.pc = "writeApp", !.app = a, !.name = n]]
        /\ UNCHANGED <<store, hist>>

\* dao.activate and dao.update: one hmset.  The name set is not touched.
WriteApp(p) ==
    LET a == call[p].app
        h == apps[a]
    IN  /\ At(p, "writeApp")
        /\ apps' = [apps EXCEPT ![a] =
             CASE ~IsApp(a) -> Ghost
               [] IsApp(a) /\ call[p].op = "activate" -> [h EXCEPT !.isActive = TRUE]
               [] IsApp(a) /\ call[p].op = "update" -> [h EXCEPT !.name = call[p].name]]
        /\ IF call[p].op = "activate"
           THEN owed' = [q \in Proc |-> owed[q] \ {a}] /\ UNCHANGED renamed
           ELSE renamed' = renamed \cup {a} /\ UNCHANGED owed
        /\ call' = [call EXCEPT ![p] = Idle]
        /\ UNCHANGED <<users, usernames, userApps, appNames, born, loose, taken>>

\* dao.deactivate of one application, alone or in a cascade: one hmset.
DeactivateApp(p, a) ==
    /\ At(p, "cascade") /\ call[p].op = "deactivate" /\ a \in call[p].todo
    /\ apps' = [apps EXCEPT ![a] = IF IsApp(a) THEN [@ EXCEPT !.isActive = FALSE] ELSE Ghost]
    /\ Become(p, [call[p] EXCEPT !.todo = @ \ {a}])
    /\ UNCHANGED <<users, usernames, userApps, appNames, born, renamed, loose>>

\* removeAll reads each application; one that is gone has no fields to remove by.
ReadListed(p, a) ==
    /\ At(p, "cascade") /\ call[p].op = "remove" /\ a \in call[p].todo
    /\ Become(p, [call[p] EXCEPT !.todo = @ \ {a},
                                 !.read = IF IsApp(a) THEN @ \cup {Fields(a)} ELSE @])
    /\ UNCHANGED <<store, born, renamed, loose>>

\* Mutant: the id stays under the name.
Unnamed_Not(a, n) == appNames

\* srem of the id, from the set of the name the application was read with.
Unnamed(a, n) == [appNames EXCEPT ![n] = @ \ {a}]

\* Mutant: the user's set keeps the id.
Disowned_Not(a, u) == userApps

\* srem of the id, from the set of the user it was read with.
Disowned(a, u) == [userApps EXCEPT ![u] = @ \ {a}]

\* applicationDao.remove: del and both srem in one MULTI.
DelApp(p, r) ==
    /\ At(p, "cascade") /\ r \in call[p].read
    /\ apps' = [apps EXCEPT ![r[1]] = None]
    /\ appNames' = Unnamed(r[1], r[2])
    /\ userApps' = Disowned(r[1], r[3])
    /\ Become(p, [call[p] EXCEPT !.read = @ \ {r}])
    /\ UNCHANGED <<users, usernames, born, renamed, loose>>

\* Every promise of the cascade has been kept: the call answers.
Finished(p) == At(p, "cascade") /\ call[p].todo = {} /\ call[p].read = {}
Answer(p) == Finished(p) /\ Quit(p) /\ UNCHANGED <<store, born, renamed, loose>>

-----------------------------------------------------------------------------

\* The process dies, or Redis refuses a command, in the middle of a cascade.  (A
\* call that stops before its first write is like one that was never made.)
Crash(p) ==
    /\ call[p].pc \in {"listApps", "cascade"}
    /\ Quit(p)
    /\ loose' = loose \cup {apps[a].user : a \in {b \in AppId : Orphan(b) /\ Removing(p, b)}}
    /\ UNCHANGED <<store, born, renamed>>

Request(p) ==
    \/ \E n \in Username : InsertUser(p, n)
    \/ \E u \in UserId, op \in {"remove", "activate", "deactivate", "update"} : UserOp(p, op, u)
    \/ \E u \in UserId, n \in NewName : InsertApp(p, u, n)
    \/ \E a \in AppId, op \in {"remove", "activate", "deactivate"} : AppOp(p, op, a, None)
    \/ \E a \in AppId, n \in AppName : AppOp(p, "update", a, n)

UserStep(p) == FindUser(p) \/ AddUser(p) \/ WriteUser(p) \/ DelUser(p) \/ ListApps(p)

AppStep(p) ==
    \/ FindAppName(p) \/ FindApp(p) \/ AddApp(p) \/ WriteApp(p)
    \/ \E a \in call[p].todo : DeactivateApp(p, a) \/ ReadListed(p, a)
    \/ \E r \in call[p].read : DelApp(p, r)
    \/ Answer(p)

Next == \E p \in Proc : Request(p) \/ UserStep(p) \/ AppStep(p) \/ Crash(p)

Spec == Init /\ [][Next]_vars

-----------------------------------------------------------------------------
(* Properties.                                                              *)

\* Every variable has its type, and a call holds what its next command needs.
TypeOK ==
    /\ users \in [UserId -> User \cup {None, Ghost}]
    /\ usernames \in [Username -> SUBSET UserId]
    /\ apps \in [AppId -> App \cup {None, Ghost}]
    /\ userApps \in [UserId -> SUBSET AppId]
    /\ appNames \in [AppName -> SUBSET AppId]
    /\ call \in [Proc -> Call]
    /\ born \in SUBSET (UserId \cup AppId)
    /\ renamed \in SUBSET AppId
    /\ loose \in SUBSET UserId
    /\ taken \in [Proc -> SUBSET (UserId \cup AppId)]
    /\ owed \in [Proc -> SUBSET (UserId \cup AppId)]
    /\ \A p \in Proc : call[p].pc \in {"findUser", "writeUser", "listApps"}
         => call[p].user # None

\* An id is under a username exactly if it is a user of that username, whatever
\* inserts, updates and removals overlap (user.dao.js 8-20, 57-63, 73-86).
\* An id is in a user's set exactly if it is an application of that user; ghosts
\* are in no set, so no cascade goes on to meet them (application.dao.js 23-28, 124-132).
\* Only an application that update has renamed can leave its id behind under a
\* name when it is removed (application.dao.js 45-54, 124-132).
IndexesFollow ==
    /\ \A u \in UserId, n \in Username :
         u \in usernames[n] <=> IsUser(u) /\ users[u].username = n
    /\ \A a \in AppId, u \in UserId : a \in userApps[u] <=> IsApp(a) /\ apps[a].user = u
    /\ \A n \in AppName : \A a \in appNames[n] : IsApp(a) \/ a \in renamed

\* An insert gets past its checks with a username that users had when it began only if
\* one of them is no user any more (user.service.js 143-149): find takes one of the ids,
\* so of two users of the name the other may be there still.  Nor does one get past them
\* while an application that was of the same user and indexed under the name when it
\* began still is an application (application.dao.js 30-42).  Of names that came into use,
\* and of applications renamed, after it began neither part says anything.
TakenNamesRefused == \A p \in Proc :
    /\ At(p, "addUser") => taken[p] = {} \/ \E u \in taken[p] : ~IsUser(u)
    /\ At(p, "addApp") => \A a \in taken[p] : ~IsApp(a)

\* A removal that has finished leaves nothing of what it was called for: not the
\* user, and none of the applications the user had when it was called (user.service.js 118-133).
CascadeRemoves ==
    \A p \in Proc : Finished(p) /\ call[p].op = "remove" =>
        \A i \in owed[p] : IF i \in UserId THEN ~IsUser(i) ELSE ~IsApp(i)

\* An application without its user is about to be removed by a call, or its user was
\* removed while it was being inserted, or the call that removed the user died. Nothing else
\* leaves one behind (application.service.js 155-178, user.service.js 118-133).
OrphansExplained ==
    \A a \in AppId : Orphan(a) =>
        apps[a].user \in loose \/ \E p \in Proc : Removing(p, a)

\* A deactivation that has finished leaves inactive the user and every application
\* the user had when it was called, but for those activated meanwhile (user.service.js 99-107).
CascadeDeactivates ==
    \A p \in Proc : Finished(p) /\ call[p].op = "deactivate" =>
        \A i \in owed[p] : IF i \in UserId THEN IsUser(i) => ~users[i].isActive
                                           ELSE IsApp(i) => ~apps[i].isActive
=============================================================================
