------------------------ MODULE GatewayConfigProofs ------------------------
(* Type correctness of GatewayConfig, and what reloads and requests keep    *)
(* true of the routing and of the file, for all sets of names, policies and *)
(* requests.                                                                *)
EXTENDS GatewayConfig, TLAPS

\* A change of a configuration that is not refused gives a configuration.
LEMMA ModifiedTyped ==
    ASSUME NEW op \in Writable, NEW c \in Cfg
    PROVE  Modified(op, c) \in Cfg
<1>1. op \in Op
  BY DEF Writable
<1>2. CASE op.kind = "putPipeline"
  <2>1. op.name \in Name /\ op.value \in Pipeline
    BY <1>1, <1>2 DEF Op, PolicyOp, Writable
  <2>. QED
    BY <1>2, <2>1 DEF Modified, Cfg
<1>3. CASE op.kind = "deletePipeline"
  BY <1>1, <1>3 DEF Op, PolicyOp, Modified, Cfg
<1>4. CASE op.kind = "putPolicy"
  <2>1. op.value \in Policy
    BY <1>1, <1>4 DEF Op, PolicyOp
  <2>. QED
    BY <1>4, <2>1 DEF Modified, Cfg
<1>5. CASE op.kind = "deletePolicy"
  BY <1>1, <1>5 DEF Op, PolicyOp, Modified, Cfg
<1>. QED
  BY <1>1, <1>2, <1>3, <1>4, <1>5 DEF Op, PolicyOp

\* A change that Read accepts was not to a body the schema refuses.
LEMMA AcceptedWritable ==
    ASSUME NEW op \in Op, NEW c \in Cfg, Accepted(Modified(op, c))
    PROVE  op \in Writable
<1>. SUFFICES ASSUME op.kind = "putPipeline", op.value = Bad PROVE FALSE
  BY DEF Writable
<1>1. op.name \in Name
  BY DEF Op, PolicyOp
<1>2. Modified(op, c).pipelines[op.name] = Bad
  BY <1>1 DEF Modified, Cfg
<1>3. Bad \in Pipelines(Modified(op, c))
  BY <1>1, <1>2, GatewayConfigAssumption DEF Pipelines
<1>. QED
  BY <1>3 DEF Accepted

\* What each stage of a request is, by its name.
LEMMA Stages ==
    ASSUME NEW r \in Request
    PROVE  /\ r.at = "reading" => r \in [at : {"reading"}, op : Op]
           /\ r.at \in {"truncating", "filling"} =>
                r \in [at : {"truncating", "filling"}, op : Writable, text : Cfg]
  BY DEF Request, Idle

\* And of an installation.
LEMMA InstallStages ==
    ASSUME NEW i \in Install
    PROVE  /\ i.at = "enabling" =>
                i \in [at : {"enabling"}, plugin : Extra, given : SUBSET Extra, declare : BOOLEAN]
           /\ i.at = "npm" => i \in [at : {"npm"}, plugin : Extra]
           /\ i.at = "reading" => i \in [at : {"reading"}, plugin : Extra]
           /\ i.at \in {"truncating", "filling"} =>
                i \in [at : {"truncating", "filling"}, plugin : Extra, text : Cfg]
  BY DEF Install, NoInstall

\* The installer declares policies of plugins, which makes a configuration of one.
LEMMA DeclaredTyped ==
    ASSUME NEW x \in Extra, NEW c \in Cfg
    PROVE  Declared(x, c) \in Cfg
  BY GatewayConfigAssumption DEF Declared, Cfg

-----------------------------------------------------------------------------
(* Types.                                                                   *)

\* A configuration that says nothing is one.
LEMMA BlankTyped == Blank \in Cfg
  BY DEF Blank, Cfg

\* The part of TypeOK that the process keeps in its memory.
MemoryOK ==
    /\ mem \in Cfg /\ router \in Cfg
    /\ plugins \subseteq Extra /\ registry \subseteq Core \cup Extra
    /\ request \in [Proc -> Request]
    /\ up \in BOOLEAN /\ disturbed \in BOOLEAN
    /\ ~up => \A p \in Proc : request[p] = Idle

\* A stop leaves the memory well typed.
LEMMA StopTyped ==
    ASSUME TypeOK, Stop
    PROVE  MemoryOK'
<1>1. disturbed' \in BOOLEAN
  BY DEF Stop, TypeOK
<1>2. request' \in [Proc -> Request] /\ \A p \in Proc : request'[p] = Idle
  BY DEF Stop, Request
<1>. QED
  BY <1>1, <1>2, BlankTyped DEF Stop, MemoryOK

\* So does a reload.
LEMMA ReloadTyped ==
    ASSUME TypeOK, NEW c \in Cfg, NEW given \in SUBSET Extra, Reload(c, given)
    PROVE  MemoryOK'
<1>1. CASE ~Bootstraps(c, given)
  BY <1>1, StopTyped DEF Reload
<1>2. CASE Bootstraps(c, given)
  BY <1>2 DEF Reload, Built, Bootstraps, TypeOK, MemoryOK
<1>. QED
  BY <1>1, <1>2

\* A step of an installation leaves the memory of the process.
LEMMA InstallTyped ==
    ASSUME TypeOK, Installing
    PROVE  TypeOK'
<1>. USE DEF TypeOK
<1>1. ASSUME NEW x \in Extra, StartInstall(x) PROVE TypeOK'
  BY <1>1, GatewayConfigAssumption DEF StartInstall, running, hist, Install
<1>2. ASSUME NEW enable \in BOOLEAN, NEW declare \in BOOLEAN, EndNpm(enable, declare) PROVE TypeOK'
  <2>1. install.plugin \in Extra
    BY <1>2, InstallStages DEF EndNpm
  <2>2. CASE enable
    <3>1. system \cup {install.plugin} \in SUBSET Extra
      BY <1>2, <2>1, <2>2 DEF EndNpm
    <3>2. install' \in Install
      BY <1>2, <2>1, <2>2, <3>1 DEF EndNpm, Install
    <3>. QED
      BY <1>2, <2>2, <3>2 DEF EndNpm, running
  <2>3. CASE ~enable
    <3>1. install' \in Install
      BY <1>2, <2>1, <2>3 DEF EndNpm, Turn, Install
    <3>2. disturbed' \in BOOLEAN
      BY <1>2, <2>3 DEF EndNpm, Turn
    <3>. QED
      BY <1>2, <2>3, <3>1, <3>2 DEF EndNpm, running
  <2>. QED
    BY <2>2, <2>3
<1>3. CASE Enable
  <2>1. install.plugin \in Extra /\ install.given \in SUBSET Extra
    BY <1>3, InstallStages DEF Enable
  <2>2. install' \in Install /\ disturbed' \in BOOLEAN
    BY <1>3, <2>1 DEF Enable, Turn, Install
  <2>. QED
    BY <1>3, <2>1, <2>2 DEF Enable, running
<1>4. CASE ReadDeclared
  <2>1. install.plugin \in Extra
    BY <1>4, InstallStages DEF ReadDeclared
  <2>2. install' \in Install
    BY <1>4, <2>1, BlankTyped, DeclaredTyped DEF ReadDeclared, Install
  <2>. QED
    BY <1>4, <2>2 DEF ReadDeclared, running, hist
<1>5. CASE TruncateDeclared
  <2>1. install' \in Install
    BY <1>5, InstallStages DEF TruncateDeclared, Install
  <2>. QED
    BY <1>5, <2>1 DEF TruncateDeclared, running, hist
<1>6. CASE FillDeclared
  <2>1. install.plugin \in Extra /\ install.text \in Cfg
    BY <1>6, InstallStages DEF FillDeclared
  <2>2. expected' \in Cfg
    BY <1>6, <2>1, DeclaredTyped DEF FillDeclared
  <2>3. install' \in Install
    BY <1>6 DEF FillDeclared, Install
  <2>. QED
    BY <1>6, <2>1, <2>2, <2>3 DEF FillDeclared, running
<1>7. CASE Abandon
  <2>1. install' \in Install /\ disturbed' \in BOOLEAN
    BY <1>7 DEF Abandon, Install
  <2>. QED
    BY <1>7, <2>1 DEF Abandon, running
<1>. QED
  BY <1>1, <1>2, <1>3, <1>4, <1>5, <1>6, <1>7 DEF Installing

\* Every variable has its type, and a process that is down serves no request.
THEOREM Typing == Spec => []TypeOK
<1>1. Init => TypeOK
  <2>. SUFFICES ASSUME Init PROVE TypeOK
    OBVIOUS
  <2>1. left \in [updates : 0..MaxUpdates, edits : 0..MaxEdits, crashes : 0..MaxCrashes]
    BY GatewayConfigAssumption DEF Init
  <2>2. file \in Cfg /\ file.policies \subseteq Core
    BY DEF Init
  <2>3. request \in [Proc -> Request] /\ install \in Install
    BY DEF Init, Request, Install
  <2>. QED
    BY <2>1, <2>2, <2>3 DEF Init, TypeOK
<1>2. TypeOK /\ [Next]_vars => TypeOK'
  <2>. SUFFICES ASSUME TypeOK, [Next]_vars PROVE TypeOK'
    OBVIOUS
  <2>. USE DEF TypeOK, MemoryOK
  <2>1. ASSUME NEW p \in Proc, NEW op \in Op, Begin(p, op) PROVE TypeOK'
    BY <2>1, GatewayConfigAssumption DEF Begin, running, installation, Request, Idle
  <2>2. ASSUME NEW p \in Proc, Read(p) PROVE TypeOK'
    <3>. DEFINE op == request[p].op
                c == Modified(op, Base)
    <3>1. op \in Op
      BY <2>2, Stages DEF Read
    <3>2. ASSUME Base \in Cfg, Accepted(c)
          PROVE  [at |-> "truncating", op |-> op, text |-> c] \in Request
      <4>1. op \in Writable
        BY <3>1, <3>2, AcceptedWritable
      <4>2. c \in Cfg
        BY <3>2, <4>1, ModifiedTyped
      <4>. QED
        BY <4>1, <4>2 DEF Request
    <3>3. Idle \in Request
      BY DEF Request
    <3>4. request' \in [Proc -> Request]
      BY <2>2, <3>2, <3>3 DEF Read
    <3>5. up
      BY <2>2 DEF Read, Idle
    <3>. QED
      BY <2>2, <3>4, <3>5 DEF Read, running, installation, hist
  <2>3. ASSUME NEW p \in Proc, Truncate(p) PROVE TypeOK'
    <3>1. [request[p] EXCEPT !.at = "filling"] \in Request
      BY <2>3, Stages DEF Truncate, Request
    <3>2. up
      BY <2>3 DEF Truncate, Idle
    <3>. QED
      BY <2>3, <3>1, <3>2 DEF Truncate, running, installation, hist
  <2>4. ASSUME NEW p \in Proc, Fill(p) PROVE TypeOK'
    <3>1. request[p].op \in Writable /\ request[p].text \in Cfg
      BY <2>4, Stages DEF Fill
    <3>2. expected' \in Cfg
      BY <2>4, <3>1, ModifiedTyped DEF Fill
    <3>3. up
      BY <2>4 DEF Fill, Idle
    <3>4. request' \in [Proc -> Request]
      BY <2>4 DEF Fill, Request
    <3>. QED
      BY <2>4, <3>1, <3>2, <3>3, <3>4 DEF Fill, running, installation
  <2>5. ASSUME Watch PROVE TypeOK'
    <3>1. CASE Loads(file)
      BY <2>5, <3>1, ReloadTyped DEF Watch, Loads, installation
    <3>2. CASE ~Loads(file)
      BY <2>5, <3>2 DEF Watch, running, installation
    <3>. QED
      BY <3>1, <3>2
  <2>6. CASE Edit
    BY <2>6, GatewayConfigAssumption DEF Edit, running, installation
  <2>7. CASE Crash
    <3>1. left' \in [updates : 0..MaxUpdates, edits : 0..MaxEdits, crashes : 0..MaxCrashes]
      BY <2>7, GatewayConfigAssumption DEF Crash
    <3>. QED
      BY <2>7, <3>1, StopTyped DEF Crash, installation
  <2>8. CASE Start
    BY <2>8 DEF Start, Routable, Bootstraps, hist
  <2>9. CASE WatchSystem
    <3>1. CASE system # Empty
      BY <2>9, <3>1, ReloadTyped DEF WatchSystem
    <3>2. CASE system = Empty
      BY <2>9, <3>2 DEF WatchSystem, running
    <3>. QED
      BY <3>1, <3>2
  <2>10. CASE Installing
    BY <2>10, InstallTyped
  <2>11. CASE UNCHANGED vars
    BY <2>11 DEF vars, running, installation, hist
  <2>. QED
    BY <2>1, <2>2, <2>3, <2>4, <2>5, <2>6, <2>7, <2>8, <2>9, <2>10, <2>11 DEF Next, Step
<1>. QED
  BY <1>1, <1>2, PTL DEF Spec

-----------------------------------------------------------------------------
(* Routing.                                                                 *)

\* A reload builds a router of loaded policies, keeps one, or ends the process.
LEMMA ReloadRoutes ==
    ASSUME RoutesOnlyLoaded, up, NEW c, NEW given, Reload(c, given)
    PROVE  RoutesOnlyLoaded'
<1>. USE DEF RoutesOnlyLoaded, Used, Pipelines
<1>1. CASE Bootstraps(c, given) /\ Routable(c)
  BY <1>1 DEF Reload, Built, Routable
<1>2. CASE Bootstraps(c, given) /\ ~Routable(c)
  BY <1>2 DEF Reload, Built
<1>3. CASE ~Bootstraps(c, given)
  BY <1>3 DEF Reload, Stop
<1>. QED
  BY <1>1, <1>2, <1>3

\* What the gateway routes by uses declared and loaded policies only, in every
\* reachable state: a failing reload keeps a router that was built when its
\* policies were loaded, and a running process forgets none.
THEOREM RoutesStayLoaded == Spec => []RoutesOnlyLoaded
<1>1. Init => RoutesOnlyLoaded
  BY DEF Init, RoutesOnlyLoaded, Routable
<1>2. RoutesOnlyLoaded /\ [Next]_vars => RoutesOnlyLoaded'
  <2>. SUFFICES ASSUME RoutesOnlyLoaded, [Next]_vars PROVE RoutesOnlyLoaded'
    OBVIOUS
  <2>. USE DEF RoutesOnlyLoaded, Used, Pipelines
  <2>1. ASSUME NEW p \in Proc, NEW op \in Op, Begin(p, op) PROVE RoutesOnlyLoaded'
    BY <2>1 DEF Begin, running
  <2>2. ASSUME NEW p \in Proc, Step(p) PROVE RoutesOnlyLoaded'
    BY <2>2 DEF Step, Read, Truncate, Fill, running
  <2>3. ASSUME Watch PROVE RoutesOnlyLoaded'
    BY <2>3, ReloadRoutes DEF Watch, running
  <2>4. CASE Edit
    BY <2>4 DEF Edit, running
  <2>5. CASE Crash
    BY <2>5 DEF Crash, Stop
  <2>6. CASE Start
    BY <2>6 DEF Start, Routable
  <2>7. CASE WatchSystem
    BY <2>7, ReloadRoutes DEF WatchSystem, running
  <2>8. CASE Installing
    BY <2>8 DEF Installing, StartInstall, EndNpm, Enable, ReadDeclared, TruncateDeclared, FillDeclared, Abandon, running
  <2>9. CASE UNCHANGED vars
    BY <2>9 DEF vars, running
  <2>. QED
    BY <2>1, <2>2, <2>3, <2>4, <2>5, <2>6, <2>7, <2>8, <2>9 DEF Next
<1>. QED
  BY <1>1, <1>2, PTL DEF Spec

-----------------------------------------------------------------------------
(* What admin requests write.                                               *)

\* The policies that a configuration gives steps to are loaded.
Known(c) == \A b \in Pipelines(c) : b.bare \/ b.policy \in registry

\* The text of a request was checked when it was read; that it still passes when it
\* is written is what makes AdminWritesLoaded inductive.
TextsKnown ==
    \A p \in Proc : request[p].at \in {"truncating", "filling"} => Known(request[p].text)

\* A reload forgets no policy, or no request is left.
LEMMA ReloadKeepsKnown ==
    ASSUME AdminWritesLoaded, TextsKnown, up, NEW c, NEW given, Reload(c, given),
           UNCHANGED <<file, edited>>
    PROVE  AdminWritesLoaded' /\ TextsKnown'
<1>1. CASE Bootstraps(c, given)
  BY <1>1 DEF Reload, AdminWritesLoaded, TextsKnown, Known, Pipelines
<1>2. CASE ~Bootstraps(c, given)
  BY <1>2 DEF Reload, Stop, AdminWritesLoaded, TextsKnown, Idle
<1>. QED
  BY <1>1, <1>2

\* Unless someone edits the file, it gives steps to loaded policies only, however
\* many requests are between their check and their write, across failing reloads
\* and restarts.
THEOREM WritesStayLoaded == Spec => []AdminWritesLoaded
<1>. DEFINE Inv == AdminWritesLoaded /\ TextsKnown
<1>1. Init => Inv
  BY DEF Init, Routable, AdminWritesLoaded, TextsKnown, Idle, Used
<1>2. TypeOK /\ Inv /\ [Next]_vars => Inv'
  <2>. SUFFICES ASSUME TypeOK, AdminWritesLoaded, TextsKnown, [Next]_vars
                PROVE  AdminWritesLoaded' /\ TextsKnown'
    OBVIOUS
  <2>1. ASSUME NEW p \in Proc, NEW op \in Op, Begin(p, op)
        PROVE  AdminWritesLoaded' /\ TextsKnown'
    BY <2>1 DEF Begin, running, TypeOK, AdminWritesLoaded, TextsKnown, Known, Pipelines
  <2>2. ASSUME NEW p \in Proc, Read(p) PROVE AdminWritesLoaded' /\ TextsKnown'
    <3>. DEFINE c == Modified(request[p].op, Base)
    <3>1. AdminWritesLoaded'
      BY <2>2 DEF Read, running, hist, AdminWritesLoaded, Pipelines
    <3>2. Accepted(c) => Known(c)
      BY DEF Accepted, Known
    <3>3. registry' = registry
      BY <2>2 DEF Read, running
    <3>4. ASSUME NEW q \in Proc, request'[q].at \in {"truncating", "filling"}
          PROVE  Known(request'[q].text)
      BY <2>2, <3>2, <3>4 DEF Read, TypeOK, TextsKnown, Idle
    <3>. QED
      BY <3>1, <3>3, <3>4 DEF TextsKnown, Known, Pipelines
  <2>3. ASSUME NEW p \in Proc, Truncate(p) PROVE AdminWritesLoaded' /\ TextsKnown'
    <3>1. AdminWritesLoaded'
      BY <2>3, GatewayConfigAssumption DEF Truncate, AdminWritesLoaded
    <3>2. ASSUME NEW q \in Proc
          PROVE  request'[q].at \in {"truncating", "filling"} =>
                     /\ request[q].at \in {"truncating", "filling"}
                     /\ request'[q].text = request[q].text
      BY <2>3 DEF Truncate, TypeOK
    <3>. QED
      BY <2>3, <3>1, <3>2 DEF Truncate, running, TextsKnown, Known, Pipelines
  <2>4. ASSUME NEW p \in Proc, Fill(p) PROVE AdminWritesLoaded' /\ TextsKnown'
    <3>1. Known(request[p].text)
      BY <2>4 DEF Fill, TextsKnown
    <3>2. registry' = registry
      BY <2>4 DEF Fill, running
    <3>3. AdminWritesLoaded'
      BY <2>4, <3>1, <3>2, GatewayConfigAssumption DEF Fill, AdminWritesLoaded, Known, Pipelines
    <3>4. ASSUME NEW q \in Proc
          PROVE  request'[q].at \in {"truncating", "filling"} => request'[q] = request[q]
      BY <2>4 DEF Fill, TypeOK, Idle
    <3>. QED
      BY <3>2, <3>3, <3>4 DEF TextsKnown, Known, Pipelines
  <2>5. ASSUME Watch PROVE AdminWritesLoaded' /\ TextsKnown'
    <3>1. CASE Loads(file)
      BY <2>5, <3>1, ReloadKeepsKnown DEF Watch
    <3>2. CASE ~Loads(file)
      BY <2>5, <3>2 DEF Watch, running, AdminWritesLoaded, TextsKnown, Known, Pipelines
    <3>. QED
      BY <3>1, <3>2
  <2>6. CASE Edit
    BY <2>6 DEF Edit, running, AdminWritesLoaded, TextsKnown, Known, Pipelines
  <2>7. CASE Crash
    BY <2>7 DEF Crash, Stop, AdminWritesLoaded, TextsKnown, Idle
  <2>8. CASE Start
    <3>1. AdminWritesLoaded'
      BY <2>8 DEF Start, Routable, Used, Pipelines, AdminWritesLoaded
    <3>2. \A p \in Proc : request'[p] = Idle
      BY <2>8 DEF Start, TypeOK
    <3>. QED
      BY <3>1, <3>2 DEF TextsKnown, Idle
  <2>9. CASE WatchSystem
    <3>1. CASE system # Empty
      BY <2>9, <3>1, ReloadKeepsKnown DEF WatchSystem
    <3>2. CASE system = Empty
      BY <2>9, <3>2 DEF WatchSystem, running, AdminWritesLoaded, TextsKnown, Known, Pipelines
    <3>. QED
      BY <3>1, <3>2
  <2>10. CASE TruncateDeclared
    BY <2>10, GatewayConfigAssumption
       DEF TruncateDeclared, running, hist, AdminWritesLoaded, TextsKnown, Known, Pipelines
  <2>11. CASE FillDeclared
    BY <2>11 DEF FillDeclared, running, AdminWritesLoaded, TextsKnown, Known, Pipelines
  <2>12. ASSUME Installing, ~TruncateDeclared, ~FillDeclared
         PROVE  AdminWritesLoaded' /\ TextsKnown'
    <3>1. UNCHANGED <<file, running, request, edited>>
      BY <2>12 DEF Installing, StartInstall, EndNpm, Enable, ReadDeclared, Abandon, hist
    <3>. QED
      BY <3>1 DEF running, AdminWritesLoaded, TextsKnown, Known, Pipelines
  <2>13. CASE UNCHANGED vars
    BY <2>13 DEF vars, running, hist, AdminWritesLoaded, TextsKnown, Known, Pipelines
  <2>. QED
    BY <2>1, <2>2, <2>3, <2>4, <2>5, <2>6, <2>7, <2>8, <2>9, <2>10, <2>11, <2>12, <2>13 DEF Next, Step
<1>3. Inv => AdminWritesLoaded
  OBVIOUS
<1>. QED
  BY <1>1, <1>2, <1>3, Typing, PTL DEF Spec

-----------------------------------------------------------------------------
(***************************************************************************)
(* Updates made one at a time.  Between updates the file is what the       *)
(* acknowledged ones add up to; that is kept because, as long as nothing   *)
(* was disturbed, whoever is at work on the file is alone, found it so,    *)
(* and holds the text that it will be once the work is acknowledged.       *)
(***************************************************************************)

\* No two are at work on the file.
AtWorkAlone ==
    /\ \A p, q \in Proc : request[p] # Idle /\ request[q] # Idle => p = q
    /\ Declaring => \A p \in Proc : request[p] = Idle

\* A file that its writer has yet to truncate is as it should be; one that it has
\* truncated is empty.
FileFor(stage) ==
    /\ stage \in {"reading", "truncating"} => file = expected
    /\ stage = "filling" => file = Empty

\* What is to be written is what the change makes of the file as it should be.
RequestFollows ==
    \A p \in Proc :
        /\ FileFor(request[p].at)
        /\ request[p].at \in {"truncating", "filling"} =>
               request[p].text = Modified(request[p].op, expected)

InstallFollows ==
    /\ FileFor(install.at)
    /\ install.at \in {"truncating", "filling"} =>
           install.text = Declared(install.plugin, expected)

SerialInv ==
    ~disturbed => AtWorkAlone /\ RequestFollows /\ InstallFollows /\ SerialUpdatesAdd

\* What a request that is under way is doing.
LEMMA UnderWay ==
    ASSUME NEW r \in Request, r # Idle
    PROVE  r.at \in {"reading", "truncating", "filling"}
  BY DEF Request

\* The invariant depends on these variables alone.
LEMMA SerialUnchanged ==
    ASSUME SerialInv, UNCHANGED <<file, request, install, expected>>, ~disturbed' => ~disturbed
    PROVE  SerialInv'
  BY DEF SerialInv, AtWorkAlone, RequestFollows, InstallFollows, FileFor, SerialUpdatesAdd, Declaring

\* Whatever the process was doing when it ends, the file is as it should be unless
\* it was being filled.
LEMMA StopSerial ==
    ASSUME TypeOK, SerialInv, Stop, UNCHANGED <<file, install, expected>>
    PROVE  SerialInv'
<1>. SUFFICES ASSUME ~disturbed'
              PROVE  AtWorkAlone' /\ RequestFollows' /\ InstallFollows' /\ SerialUpdatesAdd'
  BY DEF SerialInv
<1>1. ~disturbed /\ \A p \in Proc : request[p].at # "filling"
  BY DEF Stop
<1>2. AtWorkAlone /\ RequestFollows /\ InstallFollows /\ SerialUpdatesAdd
  BY <1>1 DEF SerialInv
<1>3. \A p \in Proc : request'[p] = Idle /\ Idle.at = "idle"
  BY DEF Stop, Idle
<1>4. AtWorkAlone' /\ RequestFollows' /\ InstallFollows'
  BY <1>2, <1>3 DEF AtWorkAlone, RequestFollows, InstallFollows, FileFor, Declaring
<1>5. SerialUpdatesAdd'
  <2>. SUFFICES ASSUME ~Declaring PROVE file = expected
    BY DEF SerialUpdatesAdd, Declaring
  <2>1. CASE \A p \in Proc : request[p] = Idle
    BY <1>1, <1>2, <2>1 DEF SerialUpdatesAdd
  <2>2. ASSUME NEW p \in Proc, request[p] # Idle PROVE file = expected
    <3>1. request[p].at \in {"reading", "truncating"}
      BY <1>1, <2>2, UnderWay DEF TypeOK
    <3>. QED
      BY <1>2, <3>1 DEF RequestFollows, FileFor
  <2>. QED
    BY <2>1, <2>2
<1>. QED
  BY <1>4, <1>5

\* A reload touches no file and keeps the requests, or ends the process.
LEMMA ReloadSerial ==
    ASSUME TypeOK, SerialInv, NEW c, NEW given, Reload(c, given),
           UNCHANGED <<file, install, expected>>
    PROVE  SerialInv'
<1>1. CASE Bootstraps(c, given)
  BY <1>1, SerialUnchanged DEF Reload
<1>2. CASE ~Bootstraps(c, given)
  BY <1>2, StopSerial DEF Reload
<1>. QED
  BY <1>1, <1>2

\* A request that begins alone finds the file as it should be.
LEMMA BeginSerial ==
    ASSUME TypeOK, SerialInv, NEW p \in Proc, NEW op \in Op, Begin(p, op)
    PROVE  SerialInv'
<1>. SUFFICES ASSUME ~disturbed'
              PROVE  AtWorkAlone' /\ RequestFollows' /\ InstallFollows' /\ SerialUpdatesAdd'
  BY DEF SerialInv
<1>1. ~disturbed /\ ~Declaring /\ \A q \in Proc : request[q] = Idle
  BY DEF Begin
<1>2. file = expected /\ InstallFollows
  BY <1>1 DEF SerialInv, SerialUpdatesAdd
<1>3. UNCHANGED <<file, install, expected>>
  BY DEF Begin, installation
<1>4. /\ request'[p] = [at |-> "reading", op |-> op]
      /\ \A q \in Proc : q # p => request'[q] = Idle
  BY <1>1 DEF Begin, TypeOK
<1>5. AtWorkAlone'
  BY <1>1, <1>3, <1>4 DEF AtWorkAlone, Declaring
<1>6. RequestFollows'
  BY <1>2, <1>3, <1>4 DEF RequestFollows, FileFor, Idle
<1>7. InstallFollows'
  BY <1>2, <1>3 DEF InstallFollows, FileFor
<1>8. SerialUpdatesAdd'
  BY <1>2, <1>3 DEF SerialUpdatesAdd
<1>. QED
  BY <1>5, <1>6, <1>7, <1>8

\* A step of a request that is alone.
LEMMA StepSerial ==
    ASSUME TypeOK, SerialInv, NEW p \in Proc, Step(p)
    PROVE  SerialInv'
<1>. SUFFICES ASSUME ~disturbed'
              PROVE  AtWorkAlone' /\ RequestFollows' /\ InstallFollows' /\ SerialUpdatesAdd'
  BY DEF SerialInv
<1>1. UNCHANGED <<install, disturbed>> /\ request[p] # Idle
  BY DEF Step, Read, Truncate, Fill, installation, hist, Idle
<1>2. AtWorkAlone /\ RequestFollows /\ InstallFollows
  BY <1>1 DEF SerialInv
<1>3. /\ ~Declaring
      /\ \A q \in Proc : q # p => request[q] = Idle
      /\ \A q \in Proc : q # p => request'[q] = request[q]
  BY <1>1, <1>2 DEF AtWorkAlone, Step, Read, Truncate, Fill, TypeOK
<1>4. AtWorkAlone'
  BY <1>1, <1>3 DEF AtWorkAlone, Declaring
<1>5. InstallFollows'
  BY <1>1, <1>3 DEF InstallFollows, FileFor, Declaring
<1>6. ASSUME /\ FileFor(request[p].at)'
             /\ request'[p].at \in {"truncating", "filling"} =>
                    request'[p].text = Modified(request'[p].op, expected')
             /\ request'[p] = Idle => file' = expected'
      PROVE  RequestFollows' /\ SerialUpdatesAdd'
  <2>1. RequestFollows'
    <3>. SUFFICES ASSUME NEW q \in Proc
                  PROVE  /\ FileFor(request[q].at)'
                         /\ request'[q].at \in {"truncating", "filling"} =>
                                request'[q].text = Modified(request'[q].op, expected')
      BY DEF RequestFollows, Modified
    <3>1. CASE q = p
      BY <1>6, <3>1
    <3>2. CASE q # p
      BY <1>3, <3>2 DEF FileFor, Idle
    <3>. QED
      BY <3>1, <3>2
  <2>2. SerialUpdatesAdd'
    BY <1>6 DEF SerialUpdatesAdd
  <2>. QED
    BY <2>1, <2>2
<1>7. FileFor(request[p].at) /\ (request[p].at \in {"truncating", "filling"} =>
          request[p].text = Modified(request[p].op, expected))
  BY <1>2 DEF RequestFollows
<1>8. CASE Read(p)
  <2>. DEFINE c == Modified(request[p].op, Base)
  <2>1. UNCHANGED <<file, expected>> /\ file = expected
    BY <1>7, <1>8 DEF Read, hist, FileFor
  <2>2. request'[p] \in {Idle, [at |-> "truncating", op |-> request[p].op, text |-> c]}
    BY <1>8 DEF Read, TypeOK
  <2>3. c = Modified(request[p].op, expected)
    BY <2>1 DEF Base
  <2>4. FileFor(request[p].at)'
    BY <2>1, <2>2 DEF FileFor, Idle
  <2>5. request'[p].at \in {"truncating", "filling"} =>
            request'[p].text = Modified(request'[p].op, expected')
    <3>. HIDE DEF c
    <3>1. CASE request'[p] = Idle
      BY <3>1 DEF Idle
    <3>2. CASE request'[p] = [at |-> "truncating", op |-> request[p].op, text |-> c]
      BY <2>1, <2>3, <3>2
    <3>. QED
      BY <2>2, <3>1, <3>2
  <2>. QED
    BY <1>4, <1>5, <1>6, <2>1, <2>4, <2>5
<1>9. CASE Truncate(p)
  <2>1. file' = Empty /\ expected' = expected
    BY <1>9 DEF Truncate, hist
  <2>2. request[p].at = "truncating" /\ request'[p] = [request[p] EXCEPT !.at = "filling"]
    BY <1>9 DEF Truncate, TypeOK
  <2>3. request'[p].at = "filling" /\ request'[p].op = request[p].op
        /\ request'[p].text = request[p].text
    BY <2>2, Stages DEF TypeOK
  <2>4. FileFor(request[p].at)' /\ request'[p] # Idle
    BY <2>1, <2>3 DEF FileFor, Idle
  <2>. QED
    BY <1>4, <1>5, <1>6, <1>7, <2>1, <2>2, <2>3, <2>4
<1>10. CASE Fill(p)
  <2>1. file = Empty /\ request[p].text = Modified(request[p].op, expected)
    BY <1>7, <1>10 DEF Fill, FileFor
  <2>2. file' = expected'
    BY <1>10, <2>1 DEF Fill
  <2>3. request'[p] = Idle
    BY <1>10 DEF Fill, TypeOK
  <2>4. FileFor(request[p].at)'
    BY <2>3 DEF FileFor, Idle
  <2>. QED
    BY <1>4, <1>5, <1>6, <2>2, <2>3, <2>4 DEF Idle
<1>. QED
  BY <1>8, <1>9, <1>10 DEF Step

\* An installation that turns to the configuration alone finds it as it should be.
LEMMA TurnSerial ==
    ASSUME TypeOK, SerialInv, NEW x, Turn(x), ~Declaring, UNCHANGED <<file, request, expected>>
    PROVE  SerialInv'
<1>. SUFFICES ASSUME ~disturbed'
              PROVE  AtWorkAlone' /\ RequestFollows' /\ InstallFollows' /\ SerialUpdatesAdd'
  BY DEF SerialInv
<1>1. ~disturbed /\ \A p \in Proc : request[p] = Idle
  BY DEF Turn
<1>2. file = expected /\ RequestFollows
  BY <1>1 DEF SerialInv, SerialUpdatesAdd
<1>3. install'.at = "reading"
  BY DEF Turn
<1>. QED
  BY <1>1, <1>2, <1>3
     DEF AtWorkAlone, RequestFollows, InstallFollows, FileFor, SerialUpdatesAdd, Declaring

\* An installation that begins, is enabled or is given up has nothing of its own in
\* the file.
LEMMA AwaySerial ==
    ASSUME SerialInv, UNCHANGED <<file, request, expected>>,
           install'.at \notin {"reading", "truncating", "filling"},
           ~disturbed' => ~disturbed /\ install.at # "filling"
    PROVE  SerialInv'
<1>. SUFFICES ASSUME ~disturbed'
              PROVE  AtWorkAlone' /\ RequestFollows' /\ InstallFollows' /\ SerialUpdatesAdd'
  BY DEF SerialInv
<1>1. ~disturbed /\ install.at # "filling"
  OBVIOUS
<1>2. AtWorkAlone /\ RequestFollows /\ InstallFollows /\ SerialUpdatesAdd
  BY <1>1 DEF SerialInv
<1>3. AtWorkAlone' /\ RequestFollows' /\ InstallFollows'
  BY <1>2 DEF AtWorkAlone, RequestFollows, InstallFollows, FileFor, Declaring
<1>4. SerialUpdatesAdd'
  BY <1>1, <1>2 DEF SerialUpdatesAdd, InstallFollows, FileFor, Declaring
<1>. QED
  BY <1>3, <1>4

\* The steps that declare the policies of a plugin, alone.
LEMMA DeclareSerial ==
    ASSUME TypeOK, SerialInv, ReadDeclared \/ TruncateDeclared \/ FillDeclared
    PROVE  SerialInv'
<1>. SUFFICES ASSUME ~disturbed'
              PROVE  AtWorkAlone' /\ RequestFollows' /\ InstallFollows' /\ SerialUpdatesAdd'
  BY DEF SerialInv
<1>1. UNCHANGED <<request, disturbed>> /\ Declaring
  BY DEF ReadDeclared, TruncateDeclared, FillDeclared, hist, Declaring
<1>2. AtWorkAlone /\ InstallFollows
  BY <1>1 DEF SerialInv
<1>3. \A p \in Proc : request[p] = Idle /\ Idle.at = "idle"
  BY <1>1, <1>2 DEF AtWorkAlone, Idle
<1>4. AtWorkAlone' /\ RequestFollows'
  BY <1>1, <1>3 DEF AtWorkAlone, RequestFollows, FileFor
<1>5. CASE ReadDeclared
  <2>1. file = expected /\ UNCHANGED <<file, expected>>
    BY <1>2, <1>5 DEF ReadDeclared, InstallFollows, FileFor, hist
  <2>2. file # Empty
    BY <2>1, GatewayConfigAssumption DEF TypeOK
  <2>3. install' = [at |-> "truncating", plugin |-> install.plugin,
                    text |-> Declared(install.plugin, file)]
    BY <1>5, <2>2 DEF ReadDeclared
  <2>4. InstallFollows'
    BY <2>1, <2>3 DEF InstallFollows, FileFor, Declared
  <2>5. SerialUpdatesAdd'
    BY <2>1 DEF SerialUpdatesAdd
  <2>. QED
    BY <1>4, <2>4, <2>5
<1>6. CASE TruncateDeclared
  <2>1. file' = Empty /\ expected' = expected
    BY <1>6 DEF TruncateDeclared, hist
  <2>2. install'.at = "filling" /\ install'.plugin = install.plugin /\ install'.text = install.text
    BY <1>6, InstallStages DEF TruncateDeclared, TypeOK
  <2>3. install.text = Declared(install.plugin, expected)
    BY <1>2, <1>6 DEF TruncateDeclared, InstallFollows
  <2>4. InstallFollows'
    BY <2>1, <2>2, <2>3 DEF InstallFollows, FileFor, Declared
  <2>5. SerialUpdatesAdd'
    BY <2>2 DEF SerialUpdatesAdd, Declaring
  <2>. QED
    BY <1>4, <2>4, <2>5
<1>7. CASE FillDeclared
  <2>1. file = Empty /\ install.text = Declared(install.plugin, expected)
    BY <1>2, <1>7 DEF FillDeclared, InstallFollows, FileFor
  <2>2. file' = expected'
    BY <1>7, <2>1 DEF FillDeclared
  <2>3. install'.at = "none"
    BY <1>7 DEF FillDeclared, NoInstall
  <2>4. InstallFollows'
    BY <2>3 DEF InstallFollows, FileFor
  <2>5. SerialUpdatesAdd'
    BY <2>2 DEF SerialUpdatesAdd
  <2>. QED
    BY <1>4, <2>4, <2>5
<1>. QED
  BY <1>5, <1>6, <1>7

\* A step of an installation.
LEMMA InstallSerial ==
    ASSUME TypeOK, SerialInv, Installing
    PROVE  SerialInv'
<1>1. ASSUME NEW x \in Extra, StartInstall(x) PROVE SerialInv'
  BY <1>1, AwaySerial DEF StartInstall, running, hist, NoInstall
<1>2. ASSUME NEW enable \in BOOLEAN, NEW declare \in BOOLEAN, EndNpm(enable, declare) PROVE SerialInv'
  <2>1. ~Declaring
    BY <1>2 DEF EndNpm, Declaring
  <2>2. CASE enable
    BY <1>2, <2>2, AwaySerial DEF EndNpm, running
  <2>3. CASE ~enable
    BY <1>2, <2>1, <2>3, TurnSerial DEF EndNpm, running
  <2>. QED
    BY <2>2, <2>3
<1>3. CASE Enable
  <2>1. ~Declaring
    BY <1>3 DEF Enable, Declaring
  <2>2. CASE install.declare
    BY <1>3, <2>1, <2>2, TurnSerial DEF Enable, running
  <2>3. CASE ~install.declare
    BY <1>3, <2>3, AwaySerial DEF Enable, running, NoInstall
  <2>. QED
    BY <2>2, <2>3
<1>4. CASE Abandon
  BY <1>4, AwaySerial DEF Abandon, running, NoInstall
<1>. QED
  BY <1>1, <1>2, <1>3, <1>4, DeclareSerial DEF Installing

\* Updates and installations made one at a time add up, in every reachable state:
\* neither reloads, nor requests that are refused, nor a process or an installation
\* that ends before it has truncated the file loses or adds one.
THEOREM SerialUpdatesStay == Spec => []SerialUpdatesAdd
<1>1. Init => SerialInv
  <2>. SUFFICES ASSUME Init PROVE SerialInv
    OBVIOUS
  <2>1. \A p \in Proc : request[p] = Idle
    BY DEF Init
  <2>. QED
    BY <2>1 DEF Init, SerialInv, AtWorkAlone, RequestFollows, InstallFollows, FileFor,
                SerialUpdatesAdd, Declaring, Idle, NoInstall
<1>2. TypeOK /\ SerialInv /\ [Next]_vars => SerialInv'
  <2>. SUFFICES ASSUME TypeOK, SerialInv, [Next]_vars PROVE SerialInv'
    OBVIOUS
  <2>1. ASSUME Watch PROVE SerialInv'
    <3>1. CASE Loads(file)
      BY <2>1, <3>1, ReloadSerial DEF Watch, installation
    <3>2. CASE ~Loads(file)
      BY <2>1, <3>2, SerialUnchanged DEF Watch, installation
    <3>. QED
      BY <3>1, <3>2
  <2>2. ASSUME WatchSystem PROVE SerialInv'
    <3>1. CASE system # Empty
      BY <2>2, <3>1, ReloadSerial DEF WatchSystem
    <3>2. CASE system = Empty
      BY <2>2, <3>2, SerialUnchanged DEF WatchSystem
    <3>. QED
      BY <3>1, <3>2
  <2>3. CASE Edit
    BY <2>3 DEF Edit, SerialInv
  <2>4. CASE Crash
    BY <2>4, StopSerial DEF Crash, installation
  <2>5. CASE Start
    BY <2>5, SerialUnchanged DEF Start, hist
  <2>6. CASE UNCHANGED vars
    BY <2>6, SerialUnchanged DEF vars, installation, hist
  <2>. QED
    BY <2>1, <2>2, <2>3, <2>4, <2>5, <2>6, BeginSerial, StepSerial, InstallSerial DEF Next
<1>3. SerialInv => SerialUpdatesAdd
  BY DEF SerialInv, SerialUpdatesAdd
<1>. QED
  BY <1>1, <1>2, <1>3, Typing, PTL DEF Spec
=============================================================================
