--------------------------- MODULE GatewayConfig ---------------------------
(***************************************************************************)
(* The gateway's configuration: lib/config/config.js, the admin routes     *)
(* that change it (rest/routes/pipelines.js, policies.js,                  *)
(* api-endpoints.js, service-endpoints.js), its hot reload                 *)
(* (gateway/index.js), and the installation of plugins                     *)
(* (plugin-installer.js), which changes the system configuration as well.  *)
(*                                                                         *)
(* An admin request reads the configuration file, changes what it read     *)
(* and writes the whole file back, which truncates it first; several       *)
(* requests may be between these steps.  A watcher loads the file when it  *)
(* has changed and emits hot-reload, on which the gateway builds its       *)
(* routing anew.  The reload runs to its end before the event loop turns.  *)
(***************************************************************************)
EXTENDS Naturals

CONSTANTS
    Name,       \* names of pipelines; endpoints have handlers of the same form
    Policy,     \* names of policies
    Core,       \* the policies the gateway comes with
    Extra,      \* those of plugins, each of a plugin of its own
    Proc,       \* admin requests in progress
    None,       \* no pipeline of that name
    Bad,        \* a body the schema refuses
    Empty,      \* what a file holds once truncated
    Mangled,    \* text that does not load: overlapping writes or an editor leave it
    MaxUpdates, MaxEdits, MaxCrashes    \* bounds of an instance

\* A pipeline is told by the policy it uses, bare if that is given no step though
\* its schema asks for parameters.
Pipeline == [policy : Policy, bare : BOOLEAN]
Cfg == [pipelines : [Name -> {None} \cup Pipeline], policies : SUBSET Policy]

ASSUME GatewayConfigAssumption ==
    /\ Core \subseteq Policy /\ Extra \subseteq Policy
    /\ None \notin Pipeline /\ Bad \notin Pipeline /\ None # Bad
    /\ Empty \notin Cfg /\ Mangled \notin Cfg /\ Empty # Mangled
    /\ {MaxUpdates, MaxEdits, MaxCrashes} \subseteq Nat

VARIABLES
    file,       \* what gateway.config.yml holds
    system,     \* what system.config.yml does: the plugins it enables
    mem,        \* config.gatewayConfig
    plugins,    \* config.systemConfig.plugins
    router,     \* the configuration that rootRouter was built from
    registry,   \* the policies loaded
    up,         \* the process runs
    dirty,      \* the file has changed since the watcher last reported it
    stale,      \* and the system configuration
    request,    \* request[p]: the admin request p
    install,    \* the eg command that installs a plugin
    left,       \* updates, edits and crashes still allowed
    expected,   \* history: the acknowledged updates, applied one after another
    disturbed,  \* history: updates overlapped, or the file was edited or torn
    edited      \* history: the file was edited

running == <<mem, plugins, router, registry, up>>
installation == <<system, stale, install>>
hist == <<expected, disturbed, edited>>
vars == <<file, running, dirty, request, installation, left, hist>>

PolicyOp == [kind : {"putPolicy", "deletePolicy"}, value : Policy]
Op == [kind : {"putPipeline"}, name : Name, value : {Bad} \cup Pipeline]
      \cup [kind : {"deletePipeline"}, name : Name]
      \cup PolicyOp

Writable == {op \in Op : op.kind = "putPipeline" => op.value # Bad}

Idle == [at |-> "idle"]
Request == {Idle} \cup [at : {"reading"}, op : Op]
           \cup [at : {"truncating", "filling"}, op : Writable, text : Cfg]

\* npm runs; the plugin is being enabled, to be declared as well or not; its policy is
\* being declared.
NoInstall == [at |-> "none"]
Install == {NoInstall}
           \cup [at : {"npm"}, plugin : Extra]
           \cup [at : {"enabling"}, plugin : Extra, given : SUBSET Extra, declare : BOOLEAN]
           \cup [at : {"reading"}, plugin : Extra]
           \cup [at : {"truncating", "filling"}, plugin : Extra, text : Cfg]

\* It is at work on the gateway configuration.
Declaring == install.at \in {"reading", "truncating", "filling"}

-----------------------------------------------------------------------------
(* What a configuration is checked for.                                     *)

Pipelines(c) == {c.pipelines[n] : n \in Name} \ {None}
Used(c) == {b.policy : b \in Pipelines(c)}

\* policies.resolve of every policy declared finds it: one that the gateway comes with,
\* of a plugin that is loaded now, or registered before.
Bootstraps(c, given) == c.policies \subseteq Core \cup given \cup registry

\* Mutant: pipelines are not checked for undeclared policies.
Routable_Undeclared(c) == \A b \in Pipelines(c) : ~b.bare

\* Every pipeline passes validatePipelinePolicies and the schemas of policies.
Routable(c) == Used(c) \subseteq c.policies /\ \A b \in Pipelines(c) : ~b.bare

Blank == [pipelines |-> [n \in Name |-> None], policies |-> {}]

Init ==
    /\ file \in {c \in Cfg : Routable(c) /\ c.policies \subseteq Core}
    /\ mem = file /\ router = file
    /\ system = {} /\ plugins = {} /\ registry = file.policies
    /\ up = TRUE /\ dirty = FALSE /\ stale = FALSE
    /\ request = [p \in Proc |-> Idle]
    /\ install = NoInstall
    /\ left = [updates |-> MaxUpdates, edits |-> MaxEdits, crashes |-> MaxCrashes]
    /\ expected = file
    /\ disturbed = FALSE /\ edited = FALSE

-----------------------------------------------------------------------------
(* An admin request.                                                        *)

\* The modifiers of the routes.
Modified(op, c) ==
    CASE op.kind = "putPipeline"    -> [c EXCEPT !.pipelines[op.name] = op.value]
      [] op.kind = "deletePipeline" -> [c EXCEPT !.pipelines[op.name] = None]
      [] op.kind = "putPolicy"      -> [c EXCEPT !.policies = @ \cup {op.value}]
      [] op.kind = "deletePolicy"   -> [c EXCEPT !.policies = @ \ {op.value}]

\* A pipeline that the running configuration does not have is answered 404.
Begin(p, op) ==
    /\ up /\ request[p] = Idle /\ left.updates > 0
    /\ op.kind = "deletePipeline" => mem.pipelines[op.name] # None
    /\ request' = [request EXCEPT ![p] = [at |-> "reading", op |-> op]]
    /\ left' = [left EXCEPT !.updates = @ - 1]
    /\ disturbed' = (disturbed \/ Declaring \/ \E q \in Proc : request[q] # Idle)
    /\ UNCHANGED <<file, running, dirty, installation, expected, edited>>

\* Mutant: the modifier is given the configuration in memory.
Base_Memory == mem

\* What the modifier is given.
Base == file

\* Mutants: a body is not looked at; the policies of pipelines are not looked up.
Accepted_AnyBody(c) == \A b \in Pipelines(c) : b = Bad \/ b.bare \/ b.policy \in registry
Accepted_Schema(c) == Bad \notin Pipelines(c)

\* The schema of the file, and of the policy of each step: policyDefinition.schema
\* of one that is not registered throws.  A policy without a step is not looked at.
Accepted(c) ==
    \A b \in Pipelines(c) : b # Bad /\ (b.bare \/ b.policy \in registry)

\* readFile and its continuation, up to the call of writeFile.  Text that does not
\* load, or loads as nothing, fails the request.
Read(p) ==
    /\ request[p].at = "reading"
    /\ LET c == Modified(request[p].op, Base) IN
         request' = [request EXCEPT ![p] =
             IF Base \in Cfg /\ Accepted(c)
             THEN [at |-> "truncating", op |-> @.op, text |-> c] ELSE Idle]
    /\ UNCHANGED <<file, running, dirty, installation, left, hist>>

\* writeFile opens the file.
Truncate(p) ==
    /\ request[p].at = "truncating"
    /\ request' = [request EXCEPT ![p].at = "filling"]
    /\ file' = Empty /\ dirty' = TRUE
    /\ UNCHANGED <<running, installation, left, hist>>

\* It writes the text and the request is answered.  If another has filled the file
\* since it was truncated, the end of that text may remain.
Fill(p) ==
    /\ request[p].at = "filling"
    /\ request' = [request EXCEPT ![p] = Idle]
    /\ file' \in {request[p].text} \cup (IF file = Empty THEN {} ELSE {Mangled})
    /\ expected' = Modified(request[p].op, expected)
    /\ dirty' = TRUE
    /\ UNCHANGED <<running, installation, left, disturbed, edited>>

-----------------------------------------------------------------------------
(* The watcher and the reload.                                              *)

\* loadConfig: text that does not load leaves the configuration as it was.
Loads(t) == t \in Cfg

\* What a process that ends leaves: nothing of its memory.
Stop ==
    /\ up' = FALSE
    /\ mem' = Blank /\ router' = Blank /\ registry' = {} /\ plugins' = {}
    /\ request' = [p \in Proc |-> Idle]
    /\ disturbed' = (disturbed \/ \E p \in Proc : request[p].at = "filling")

\* Mutant: the routing is built from the configuration replaced.
Built_Previous(c) == IF Routable(mem) THEN mem ELSE router

\* A router of c, or, from the catch block, the old one.
Built(c) == IF Routable(c) THEN c ELSE router

\* bootstrapPolicies registers the policies of plugins and of c, and throws of one that
\* does not exist, and again from the
\* catch block, which is given the same configuration: the rejection that nobody
\* handles ends the process.  A pipeline with an undeclared policy throws later,
\* from pipelines.bootstrap, as one does whose parameters are missing, and the catch
\* block keeps the router.
Reload(c, given) ==
    IF ~Bootstraps(c, given) THEN Stop ELSE
        /\ registry' = registry \cup given \cup c.policies
        /\ mem' = c /\ plugins' = given /\ router' = Built(c)
        /\ UNCHANGED <<up, request, disturbed>>

\* A change is reported, the file loaded, and if it loads hot-reload emitted.
Watch ==
    /\ up /\ dirty
    /\ dirty' = FALSE
    /\ IF Loads(file) THEN Reload(file, plugins) ELSE UNCHANGED <<running, request, disturbed>>
    /\ UNCHANGED <<file, installation, left, expected, edited>>

\* So it is with the system configuration: its plugins are loaded, and the routing built
\* anew from the configuration in memory.  Nothing orders the two reports.
WatchSystem ==
    /\ up /\ stale
    /\ stale' = FALSE
    /\ IF system # Empty THEN Reload(mem, system) ELSE UNCHANGED <<running, request, disturbed>>
    /\ UNCHANGED <<file, dirty, system, install, left, expected, edited>>

-----------------------------------------------------------------------------
(* The installation of a plugin by another process, eg plugin install.      *)

\* Bound: an installation counts as an edit.
StartInstall(x) ==
    /\ install = NoInstall /\ left.edits > 0
    /\ install' = [at |-> "npm", plugin |-> x]
    /\ left' = [left EXCEPT !.edits = @ - 1]
    /\ UNCHANGED <<file, running, dirty, request, system, stale, hist>>

\* The step at which it turns to the gateway configuration.
Turn(x) ==
    /\ install' = [at |-> "reading", plugin |-> x]
    /\ disturbed' = (disturbed \/ \E p \in Proc : request[p] # Idle)

\* npm is done and the answers given: the plugin is to be enabled, or its policies
\* declared, or both.  Nobody else writes the system configuration, so it is read and
\* truncated in one step.
EndNpm(enable, declare) ==
    /\ install.at = "npm" /\ (enable \/ declare)
    /\ IF enable
       THEN /\ system # Empty
            /\ install' = [at |-> "enabling", plugin |-> install.plugin, declare |-> declare,
                           given |-> system \cup {install.plugin}]
            /\ system' = Empty /\ stale' = TRUE
            /\ UNCHANGED disturbed
       ELSE Turn(install.plugin) /\ UNCHANGED <<system, stale>>
    /\ UNCHANGED <<file, running, dirty, request, left, expected, edited>>

\* The system configuration is written.
Enable ==
    /\ install.at = "enabling"
    /\ system' = install.given /\ stale' = TRUE
    /\ IF install.declare THEN Turn(install.plugin) ELSE install' = NoInstall /\ UNCHANGED disturbed
    /\ UNCHANGED <<file, running, dirty, request, left, expected, edited>>

\* The policies of the plugin that are not in the list are added to it.
Declared(x, c) == [c EXCEPT !.policies = @ \cup {x}]

\* The gateway configuration is read.  An empty file is nothing, or an error.
ReadDeclared ==
    /\ install.at = "reading" /\ file # Mangled
    /\ LET c == IF file = Empty THEN Blank ELSE file IN
         install' = [at |-> "truncating", plugin |-> install.plugin, text |-> Declared(install.plugin, c)]
    /\ UNCHANGED <<file, running, dirty, request, system, stale, left, hist>>

TruncateDeclared ==
    /\ install.at = "truncating"
    /\ install' = [install EXCEPT !.at = "filling"]
    /\ file' = Empty /\ dirty' = TRUE
    /\ UNCHANGED <<running, request, system, stale, left, hist>>

FillDeclared ==
    /\ install.at = "filling"
    /\ install' = NoInstall
    /\ file' \in {install.text} \cup (IF file = Empty THEN {} ELSE {Mangled})
    /\ expected' = Declared(install.plugin, expected)
    /\ dirty' = TRUE /\ edited' = TRUE
    /\ UNCHANGED <<running, request, system, stale, left, disturbed>>

\* It fails or is stopped: npm fails, or exits before its output has been read to the
\* end, which leaves a promise that is never settled; a file cannot be read or written.
Abandon ==
    /\ install # NoInstall
    /\ install' = NoInstall
    /\ disturbed' = (disturbed \/ install.at = "filling")
    /\ UNCHANGED <<file, running, dirty, request, system, stale, left, expected, edited>>

Installing ==
    \/ \E x \in Extra : StartInstall(x)
    \/ \E enable, declare \in BOOLEAN : EndNpm(enable, declare)
    \/ Enable \/ ReadDeclared \/ TruncateDeclared \/ FillDeclared \/ Abandon

-----------------------------------------------------------------------------
(* The surroundings: an editor, crashes and restarts.                       *)

Edit ==
    /\ left.edits > 0
    /\ file' \in Cfg \cup {Mangled}
    /\ left' = [left EXCEPT !.edits = @ - 1]
    /\ dirty' = TRUE /\ disturbed' = TRUE /\ edited' = TRUE
    /\ UNCHANGED <<running, request, installation, expected>>

Crash ==
    /\ up /\ left.crashes > 0
    /\ Stop
    /\ left' = [left EXCEPT !.crashes = @ - 1]
    /\ UNCHANGED <<file, dirty, installation, expected, edited>>

\* The process starts only with configurations that load and route.
Start ==
    /\ ~up /\ system # Empty /\ file \in Cfg
    /\ Bootstraps(file, system) /\ Routable(file)
    /\ up' = TRUE /\ dirty' = FALSE /\ stale' = FALSE
    /\ mem' = file /\ router' = file
    /\ plugins' = system /\ registry' = file.policies \cup system
    /\ UNCHANGED <<file, request, system, install, left, hist>>

Step(p) == Read(p) \/ Truncate(p) \/ Fill(p)

Next ==
    \/ \E p \in Proc, op \in Op : Begin(p, op)
    \/ \E p \in Proc : Step(p)
    \/ Watch \/ WatchSystem \/ Installing \/ Edit \/ Crash \/ Start

Spec == Init /\ [][Next]_vars

\* File operations complete, and the watcher reports what changed.
FairSpec == Spec /\ WF_vars(Watch) /\ WF_vars(WatchSystem) /\ \A p \in Proc : WF_vars(Step(p))

-----------------------------------------------------------------------------
(* Properties.                                                              *)

\* Every variable has its type, and only a running process serves requests.
TypeOK ==
    /\ file \in Cfg \cup {Empty, Mangled}
    /\ mem \in Cfg /\ router \in Cfg /\ expected \in Cfg
    /\ system \in {Empty} \cup SUBSET Extra /\ plugins \subseteq Extra
    /\ registry \subseteq Core \cup Extra
    /\ request \in [Proc -> Request] /\ install \in Install
    /\ left \in [updates : 0..MaxUpdates, edits : 0..MaxEdits, crashes : 0..MaxCrashes]
    /\ up \in BOOLEAN /\ dirty \in BOOLEAN /\ stale \in BOOLEAN
    /\ disturbed \in BOOLEAN /\ edited \in BOOLEAN
    /\ ~up => \A p \in Proc : request[p] = Idle

\* What the gateway routes by uses declared and loaded policies only, through
\* reloads that fail (gateway/index.js:94-108) and whatever the file has become.
RoutesOnlyLoaded == up => Used(router) \subseteq router.policies \cap registry

\* Unless someone edits the file, it never gives a step to a policy that the running
\* gateway has not loaded, whatever requests overlap, reloads fail or restarts
\* forget: config.js:129-149 checks a request against the policies loaded when it
\* reads, and its text is written later.  A policy without a step passes unchecked.
AdminWritesLoaded ==
    up /\ ~edited /\ file \in Cfg =>
        \A b \in Pipelines(file) : b.bare \/ b.policy \in registry

\* Updates and installations made one at a time add up: the file holds each that was
\* acknowledged, be there a reload or a restart between them or none (config.js:106-166,
\* plugin-installer.js:167-181, 252-294).
SerialUpdatesAdd ==
    ~disturbed /\ ~Declaring /\ (\A p \in Proc : request[p] = Idle) => file = expected

\* In the end the configuration is that of the file, and so is the routing if the
\* file can be routed by, and the policies of every plugin enabled are loaded: no
\* change of either file goes unnoticed, in whichever order they are reported
\* (config.js:75-99).
Converges ==
    <>[](up => /\ file \in Cfg => mem = file /\ (Routable(file) => router = file)
               /\ system # Empty => system = plugins /\ system \subseteq registry)

\* Only a crash stops the gateway; no configuration does.  The catch block of the
\* reload (gateway/index.js:103-107) restores the old one when the new is invalid.
OnlyCrashesStop == [][up /\ ~up' => left'.crashes < left.crashes]_vars
=============================================================================
