# Express Gateway in TLA+

A formal model of [Express Gateway](../src), an API gateway on Node: TLA+ modules
for the parts of it that keep state, TLC configurations that check them on small
instances, and TLAPS proofs of theorems about them for instances of every size. Paths below
are relative to the repository; every definition that stands for code names its
lines in `PROJECT.json` under `map`.

1. [The system](#the-system)
2. [The modules](#the-modules)
3. [What the runs check](#what-the-runs-check)
4. [What is proved](#what-is-proved)
5. [Where the code and its documentation part](#where-the-code-and-its-documentation-part)
6. [What is not modelled](#what-is-not-modelled)
7. [Plan](#plan)

## The system

A gateway process runs two HTTP servers in one event loop: the *gateway*, which sends
each request through the pipeline of policies of its API endpoint, and the *admin*
server, which changes users, applications, credentials, scopes, tokens and the
configuration. Entities live in Redis and are shared by any number of gateway processes; the
configuration is a file. There are no threads and no locks: a piece of
code runs undisturbed from one `await` or promise continuation to the next, and what
other requests, in this process or another, did in between has happened. A Redis
command, and a `MULTI`, is atomic. So the unit of interleaving is *one command and the
synchronous code that follows its reply*, and that is what an action is in every
module here.

| component | source | state | operations | calls |
|---|---|---|---|---|
| token store | `lib/services/tokens` | per token a hash; per consumer an index of active and one of expired tokens, for access and for refresh tokens | findOrSave, save, get, getTokenObject, revoke, getTokensByConsumer | Redis |
| authorization codes | `lib/services/authorization-codes` | one hash per code | save, find (redeem) | Redis |
| users and applications | `lib/services/consumers` | a hash each; sets by username, by owner, by application name | insert, update, activate, deactivate, remove, find, findAll | Redis; credentials |
| credentials and scopes | `lib/services/credentials` | a hash per credential, its scopes in it; a hash of credentials per scope; a set of keys per consumer | insert, add, remove and set scopes, activate, deactivate, remove all; insert and remove scopes | Redis |
| authentication service | `lib/services/auth.js` | none | authenticate and authorize tokens and credentials, validate consumers | the four above |
| OAuth2 server | `lib/policies/oauth2` | passport strategies, sessions | grants of codes and tokens; four exchanges | authentication, codes, tokens |
| configuration file, hot reload | `lib/config/config.js`, `lib/gateway/index.js`, four files of `lib/rest/routes` | two files; `config.gatewayConfig`, `config.systemConfig`; `rootRouter`; the registry of policies | PUT and DELETE of pipelines, policies and endpoints; load; watch; reload; start | file system, event bus, pipelines |
| pipelines and routing | `lib/gateway/pipelines.js`, `context.js` | Express routers, built once per reload | bootstrap, configurePipeline, match | policies, conditions |
| policies | `lib/policies/*` | round-robin index, rate counters and introspection cache (both in Redis) | one middleware each | authentication, upstream servers |
| conditions, schemas, policy registry | `lib/conditions`, `lib/schemas`, `lib/policies/index.js` | registries in memory | register, validate, resolve | Ajv |
| plugins, plugin installer | `lib/plugins.js`, `lib/plugin-installer.js` | both configuration files | load; install | packages outside the repository |
| admin server | `lib/rest` | none | routes | everything above |
| admin client, command line | `admin`, `bin` | none | one HTTP request per method | admin server |
| database, logger, event bus | `lib/db.js`, `lib/logger.js`, `lib/eventBus.js` | connection; listeners | | Redis |

**What is hard.** Nearly every service operation reads in one command and writes in a
later one what it concluded. Two overlapping inserts may pass the same check; an update
may write to a hash that was removed; a cascade works on a list made earlier. Indexes
are written beside the hashes they list, sometimes in one `MULTI` and sometimes in
commands sent side by side. Codes and tokens expire between two commands. The
configuration is read, changed and written back as a whole while others do the same, and a reload may
fail half way. The list, line by line, is `hazards` in `PROJECT.json`,
with the properties that watch over each.

**What makes each component correct.**

* *Tokens.* A token is listed as active exactly while it is not archived. No call
  returns a token that was dead when the call began. A new token is minted only if
  none matches. Listings are complete.
* *Authorization codes.* A code is answered once, before it expires, to the client and
  for the URI it was granted to; nothing else uses it up.
* *Users and applications.* Indexes and hashes agree; names are unique for whom they
  must be; removal and deactivation of a user reach its applications.
* *Credentials.* The scopes of a credential are known to the scopes; no scope appears
  that nobody gave; a hash without owner
  comes only of a deletion between a look-up and its write; a user that was removed while no call was about to write for it is given
  no single credential and no list of keys again. That its keys go too is what the code says of itself, and does not do (`credentials_keys`).
* *Authentication.* A consumer is let in only if it, and its credential or token, was
  active at some moment of the call, and scopes were those asked for.
* *Configuration.* What is routed can be routed; acknowledged changes stay; memory and
  routing catch up with the file; no configuration stops the gateway.
* *Pipelines.* A request passes the policies of its pipeline, all of them, in order.

## The modules

Each module's opening comment says what a step is; a comment over each action says
what in the code it abstracts. A definition named `X_Something` right above `X` is a
plausible bug in `X`, used by the `mutants` of `PROJECT.json`: with it in place of `X`
the property named there fails. It is no part of the model.

| module | models | state in the code → variables |
|---|---|---|
| `TokenLifecycle` | what the token store promises its callers: a token is issued once, dies once, and is answered to no call that began after its death | none of the code's |
| `OneTimeCodes` | what authorization codes promise: a code is granted once, and exchanged as it was granted, twice only by exchanges that overlap | none of the code's |
| `Tokens` | token store; implements `TokenLifecycle` | token hashes → `body`, field `archived` → `archived`, the two indexes → `active`, `expired`; promise chains → `call`, `lane` (one `find` and `save` per token type), `gets` (the parallel `dao.get`s) |
| `AuthCodes` | codes; grant and exchange of `oauth2-server.js` | code hashes → `codes`; `call`; the `del` of an expired code, sent and not awaited → `dropping` |
| `Consumers` | users and applications, with `rest/routes/users.js`, `apps.js` | hashes → `users`, `apps`; sets → `usernames`, `userApps`, `appNames`; `call` |
| `Credentials` | credentials and scopes, with `rest/routes/credentials.js`, `scopes.js` | hashes → `creds`; `scopes`; scope-credentials → `assoc`; key sets → `lists`; which users and applications are found → `there`; `call` |
| `Access` | `services/auth.js` and all that go through it: basic-auth, key-auth, jwt, oauth2, the log-in page, the authorization, decision and token endpoints | what is active and stored → `active`, `credential`, `doc` (tokens, codes, open transactions); promise chains → `request` |
| `GatewayConfig` | the configuration files, hot reload, and `eg plugin install` | the files → `file`, `system`; `config` → `mem`, `plugins`; `rootRouter` → `router`; loaded policies → `registry`; the process → `up`; the watchers → `dirty`, `stale`; admin requests → `request`; the installing process → `install` |
| `Pipelines` | building of routes and pipelines, conditions and their schemas, balancers, and a request's way through the layers | routers → `config`, `rank` (when a layer was mounted); `rootRouter` → `current`; ajv → `added`, `known`; `endpointIndex` → `turn`; requests → `request` |
| `Introspection` | the oauth2-introspect policy | Redis entries and their expiry → `cache`; the connection → `pipe`; requests → `request` |
| `TokensProofs`, `AuthCodesProofs`, `ConsumersProofs`, `CredentialsProofs`, `AccessProofs`, `GatewayConfigProofs`, `PipelinesProofs`, `IntrospectionProofs` | | theorems about the module of that name; `TokensProofs` and `AuthCodesProofs` also prove that it implements `TokenLifecycle`, or `OneTimeCodes` |
| `MC…` | | constants and symmetry for TLC |

The modules meet at the stores. `Access` takes each store as atomic, and lets
anything the others can do to it happen between two look-ups; `Tokens`, `AuthCodes`,
`Consumers` and `Credentials` take the stores apart into commands. `Pipelines`
takes a reload as given; `GatewayConfig` says when one happens and what it is given.

Conventions. `Proc` and `Req` are the calls or requests in progress, in whatever gateway
process; one makes one call after another. Variables called *history* in
their declaration only record what happened, for properties to refer to; no guard
reads them. Ids are uuids in the code and are never drawn twice. `Ghost`, in
`Consumers`, and a credential without owner, in `Credentials`, are what `HMSET` leaves
when the hash was deleted before: a hash with the fields written and no others.

Two merges of steps are made, both noted where they occur. In
`Consumers`, successive reads of one hash with nothing between them are one step: the call goes on
as if only the last had been made. In `GatewayConfig`, a reload is one step with the
event that causes it: `pipelines.bootstrap` is declared `async` but awaits nothing (a
router is not a promise, `pipelines.js:25`), so only promise continuations run before
`rootRouter` is replaced, and no file operation completes in between.

How operations map to actions:

* `Tokens`. `FindOrSave` starts a lane per token type wanted; `ReadIndex`,
  `ReadCandidate`, `ArchiveStale` are the commands of `dao.find`, `Decide` is the
  continuation of `Promise.all`, `SaveToken` is `dao.save`. `Get`, `Revoke`, `List`
  start `dao.get`s, which `ReadToken` answers; `RevokeExpired` and `RevokeToken` are the
  two ways into `dao.revoke`. `CandidateError`, `CommandError`, `GetError` are failing
  commands. `Return` settles the call's promise.
* `AuthCodes`. A grant saves; an exchange reads, checks client, URI and expiry, and
  deletes. `dropping` holds deletions nobody waits for.
* `Consumers`. Insertions look for the name, read what they find, and write; updates,
  status changes and removals read and write; those of a user then list and treat its
  applications. `Crash` ends a call half way, which is what a crash of its process does; `loose` remembers whom a removal left
  with an insertion under way, or with applications it died before removing.
* `Credentials`. An insertion has found the consumer (`Found`); that of a single credential
  looks for one in place (`LookUp`). It writes hash, associations and key list in any order
  (`Promise.all`). Changes of scopes read, then write hash and association in any
  order; `RemoveScope` reads the associated credentials one by one and writes them in one
  transaction. The removal of a user is `RemoveConsumer`, then `RemoveAll`, with the
  deletions the code queues too late left out as the code leaves them out; that of an application is the
  first alone. `Update` and `RemoveCredential` are operations of the service that no route calls.
* `Access`. `Plan` gives each kind of request its look-ups in order. `Advance` and `Refuse` are
  a look-up with what follows its reply; a chain of three handlers or more goes on after
  `done(null, false)`, as passport and oauth2orize let it. `Finish` is its end, with the documents it
  makes; `Reject` a look-up that fails, which ends the process where nothing catches
  it. `SetConsumer`, `SetCredential`, `Expire` are what everyone else does to the stores.
* `GatewayConfig`. An admin request is `Begin`, `Read` (with modification and checks),
  `Truncate`, `Fill`; `Watch` and `WatchSystem` load a file and reload; the installer runs npm,
  enables the plugin in one file and declares its policy in the other; `Edit`,
  `Crash`, `Start` are the surroundings.
* `Pipelines`. `Load` (a reload) and `Start` build a generation, with the layers that are mounted at once or by the
  promises that resolve before the event loop turns; `Fetched` completes a schema and mounts the layers
  that waited for it; `Unfetched`, and a schema that ajv refuses, end the process. A request tries the routes it matches in order, walks the layers
  mounted at the time it looks, and falls out of a pipeline into the next route.
* `Introspection`. `Exec` is Redis executing the next command of the connection, `FirstByte` the beginning of the answer
  of the authorization server or the time-out, `Introspect` the rest of that answer, `Store` what follows it. `Stop`, by a `Crash` or a command that is
  refused, loses the requests and what has been sent and not executed.

## What the runs check

`tlc -workers 2 -config <cfg> <module>` in this directory repeats a run. Deadlock is not checked where an
instance comes to rest by design (the clock or the supply of ids or of requests ends);
each such `.cfg` says so.

| run | instance | states | shows |
|---|---|---|---|
| `tokens` | 2 calls at once, 1 consumer, 2 ids, 1 attribute, clock 0..1, any command may fail | 398,148 | `IndexConsistent`, `SaveOnlyIfNoMatch`, `StraysNeverReturned`, `ListingComplete`, and the refinement `ImplementsLifecycle` |
| `tokens_live` | 2 findOrSave or get, no failures, fair replies | 104,145 | `CallsSettle`, `StaleArchived` |
| `codes` | 2 calls, 1 code that lives one tick, 2 clients, URIs and users | 56,763 | the refinement `KeepsPromise`, `AnswersTheGrant`, `NoLateExchange`, `OnlySpentCodesVanish`, `ExpiredRemoved` |
| `consumers` | any 2 calls, 2 users, 2 applications, 1 username, 2 application names | 3,383,463 | `OrphansExplained`, `IndexesFollow`, `TakenNamesRefused`, `CascadeRemoves`, `CascadeDeactivates` |
| `credentials` | any 2 calls, 1 consumer with its single credential, 1 key, 1 scope | 725,886 | `ScopesAgree`, `GhostsAreCut`, `RemovedStayClear`, `NoScopeUnasked` |
| `credentials_keys` | 1 call at a time, 1 consumer with 1 key, 1 scope | | `RemovedLoseKeys` is violated |
| `access` | 1 request of any of 9 kinds after another, 2 changes of the stores, 3 documents, 1 client, 1 user, 1 scope | 406,031 | `AdmittedWasValid`, `ScopesHeld`, `EveryRequestAnswered` |
| `gateway_config` | 2 requests, 1 edit or installation, 1 crash, 1 pipeline, a policy that exists and one that a plugin may bring | 1,213,229 | `RoutesOnlyLoaded`, `AdminWritesLoaded`, `SerialUpdatesAdd`, `Converges` |
| `gateway_config_stops` | 1 request at a time, no crash | | `OnlyCrashesStop` is violated |
| `pipelines` | 2 requests, 2 generations out of 4 configurations, 3 schemas of which one is fetched | 114,761 | `StepsInOrder`, `WholePass`, `EvenTurns`, `SchemasAreOwn`, `RequestsEnd` |
| `pipelines_sequence` | the same | | `InSequence` is violated |
| `introspection` | 3 requests with one token, 1 crash, ttl of two seconds, clock 0..2 s by half seconds | 271,044 | `CachedWithinTtl`, `EveryAnswered` |

Every passing run also checks `TypeOK`, except `tokens_live`, whose states are among those of `tokens`, and
`introspection`, `consumers` and `codes`, where only the theorem `Typing` speaks of it.

**Why the bounds are enough to be of use.** The hazards of the store modules arise between two calls,
or between one call and the clock, so two processes meet them; three would add only
that two others interfere with one, which two calls in succession of one other process do as well,
since a process goes on to further calls. Two ids allow one token (user, application) to be found, or
in the way, while another is minted. The clock needs one tick for something to expire
while a call is under way, and codes get two, so that an exchange may come late or
expire half way. One attribute makes a token match some criteria and not others. In
`consumers`, one username makes every insertion a conflict, and two application names
with one to insert under let an update rename. In `credentials` one scope, in a credential of each kind, is enough, as
calls on different scopes of one credential meet in its hash, which the property
exempts. `MCCredentials.cfg` does not explore beyond a state in which two calls that may write
the scopes of one credential overlapped, or a second credential was deleted under a call or had its scopes set as a whole (`FewExempt`):
all but `GhostsAreCut` and `RemovedStayClear` say nothing of such a credential from there
on, and the theorems hold without the restriction.

`credentials_keys` needs no overlap: it has one call at a time, and the shortest counterexample inserts a key and removes its user.

Two ids in `tokens` and `tokens_live` would leave a call with one candidate if a token had to be kept back for each
`findOrSave` that might save. One is kept back (`Room`) for each type asked for, unless a token is listed that matches and will not
expire (`Lasting`); so a find meets an expired token and a live match in one index, and archives the first whichever it reads first. In
`tokens_live` there is no attribute, so the first live candidate of a find is its match, and candidates that are alive and do
not match are met in `tokens` only.

In `access` requests touch each other only through the stores, and what another
request does to them - a token made, a code spent - is a change; two changes let what
a request rests on disappear and come back, and disappear where it no longer looks.
The kinds `basic`, `plain`, `login` and `jwt` are left out of the instance, not of the model: the first two are how the
exchanges begin, with a credential of another type, and the others are these and `key` with their last look-up left out; the theorems speak of them too. Three documents
leave room for a transaction, a code and two tokens in turn. A request that may make
documents arrives only while there is room for them (`Room`).

In `gateway_config` two updates are enough to overlap, to tear the file, and to follow
one another across a reload or a restart; an installation counts as an edit. Nobody but the
installer writes the system configuration, and the gateway starts with no plugin enabled.
In `pipelines` the four configurations are one each of what can happen at a bootstrap: everything
mounted at once; policies mounted late; a schema that has changed and kept its `$id`; parameters that are refused.
In `introspection` time is counted in half seconds, since what becomes of a fraction of a
second in `EXPIRE` lies between full ones; it does not pass while a command is on its way, so that a time means the same to
both ends of the connection.

**Fairness.** `Tokens`: `WF` of the replies of each call: Redis executes every command
it is sent, and a promise continuation runs. Time and new calls have none. `AuthCodes`:
the same, and a deletion that nobody awaits is executed all the same. `Access`: a look-up is
answered, one way or the other; changes, arrivals and failing look-ups have none, and a
request whose failure nobody catches ends with its process. `GatewayConfig`:
file operations complete, and chokidar reports a changed file in the end
(`awaitWriteFinish` waits until the size is stable, and the instance has finitely
many writes). Crashes, edits, installations, restarts and requests have none: `Converges` says
what holds *if* the process is up. `Pipelines`: a request goes on while it can; the
fetching of a schema has none, so `RequestsEnd` holds of a schema that never arrives. `Introspection`: Redis executes
what it is sent, and the answer of the authorization server begins or the policy's time-out passes. That an answer which has
begun ends is *not* assumed: the time-out limits the wait for the first byte only (`token-introspector.js:19`), so `EveryAnswered` says that
a request is answered, ends with its process, or waits for ever for the rest of such an answer.

## What is proved

`tlapm <module>.tla` checks the proofs of each of the eight proof modules, every step of them. The
theorems hold for all sets of consumers, ids, calls, requests, names and policies, all bounds
of the clock and all times to live, under the named assumptions on the constants, which say only that
`None` and the like are none of the values they stand beside, that sets meant as subsets are, and that numbers are numbers.

Each of these modules is typed (`Typing`: `Spec => []TypeOK`). Beyond that:

* `TokensProofs!IndexInvariant`: `Spec => []IndexInv`. `IndexConsistent` is not
  inductive: a find archives later what it saw expired earlier, and a save writes a
  token it decided on before. `IndexInv` adds what calls carry between commands:
  a token about to be saved has a fresh id (`MintedFresh`), what a find will archive is a token of
  its consumer (`StaleOwned`), what gets hold was saved (`GotSaved`), an idle call has no lanes or
  gets (`CallsClean`); and of the store, that an id is of one type (`IdsUnique`) and
  that whatever is listed as expired is archived (`ExpiredArchived`, `ArchivedKnown`).
* `TokensProofs!IndexesAgree`: `Spec => []IndexConsistent`.
* `TokensProofs!StraysStayHidden`: `Spec => []StraysNeverReturned`: the hashes that
  the revocation of an expired refresh token writes by mistake are returned to nobody.
* `TokensProofs!NoNeedlessSave`: `Spec => []SaveOnlyIfNoMatch`. `SearchInv` says along the search that every candidate a lane
  has listed is saved, and is still to be read or was read and did not match; it rests on
  the hash of a saved token never changing, which is where `IndexInv` comes in.
* `TokensProofs!ListingsComplete`: `Spec => []ListingComplete`. `OwedInv` says that what a listing owes is
  still to be read, or being archived by it, or among what it will return, unless a command of it has failed.
* `TokensProofs!StoreImplementsLifecycle`: `Spec => ImplementsLifecycle`, that is
  `Spec => Lifecycle!Spec` under the mapping at the end of `Tokens`. The mapping calls a token dead when
  it is archived *or past its expiry*, so that a tick of the clock is where tokens die, and archiving one that has expired is a
  stutter. What a call may not be answered with is what was dead when it began; that
  it is not needs, on top of `IndexInv`, the invariant `AnswerInv`: what was dead stays
  dead (`DeadStays`), the candidates of a find were saved and alive (`CandidatesGood`), a lane has found
  nothing before it has read (`NothingFoundYet`), an id about to be saved is in no other
  lane (`MintedAlone`), and what a get is about to put away has expired (`RevokingExpired`).
  One lemma per action then maps it to a step of `TokenLifecycle` or to a stutter.
* `AuthCodesProofs!CodesAgree`: `Spec => []CodeInv`, the invariant behind the next three:
  what a call has read stays the code as it was granted, and two calls never mint
  one id. `AnswersAreGrants`, `LateExchangesRefused`, `CodesVanishSpent` are
  `AnswersTheGrant`, `NoLateExchange` and `OnlySpentCodesVanish` for any number of overlapping
  calls.
* `AuthCodesProofs!CodesKeepPromise`: `Spec => KeepsPromise`, that is `Spec => Promise!Spec` under the mapping at the end of
  `AuthCodes`. There a code is over from its redemption or its expiry on, whatever becomes of its hash, so that `RemoveCode` is the step where an
  exchange is answered, and reading and dropping are stutters. It takes `CodeInv`, and that a call under way has a client and a URI (`Presents`).
* `AccessProofs!OnlyValidAdmitted`: `Spec => []AdmittedWasValid`, for any number of concurrent
  requests and changes. `unmet[r]` holds what request `r` rests on and has not been valid
  since it arrived. The invariant `AccessInv` says that none of it is valid now, and that
  each has a look-up still before it that will ask (`ShownLater`) - unless the request has been refused, and then
  it is not at its end. It rests on two lemmas: every claim of every kind of request has its
  look-up (`ClaimsShown`, from `HasStages`, which tabulates the plans), and a look-up that passes shows its claim valid
  (`CheckShows`). A new token may not make another request's claim true, which is why
  ids are drawn among those no request holds (`FreeUnclaimed`).
* `AccessProofs!ScopesStayHeld`: `Spec => []ScopesHeld`, from `OnlyValidAdmitted` and `HeldInv`: the scopes of a
  credential, a document, and a decision have been granted, and those a grant asks for have been or are still in `unmet`.
* `GatewayConfigProofs!RoutesStayLoaded`: `Spec => []RoutesOnlyLoaded`, inductive as it
  stands: a reload that fails keeps a router whose policies stay loaded. The lemmas `ModifiedTyped` and
  `AcceptedWritable` say that a request the checks let through writes a configuration.
* `GatewayConfigProofs!WritesStayLoaded`: `Spec => []AdminWritesLoaded`. The
  strengthening `TextsKnown` says that the text of a request or of an installation between its check and
  its write still passes the check, which holds since a running process forgets no
  policy and a process that ends takes its requests with it.
* `GatewayConfigProofs!SerialUpdatesStay`: `Spec => []SerialUpdatesAdd`. As stated it is about a file nobody is
  at work on. `SerialInv` adds, for as long as nothing was disturbed, that whoever is at work on it is
  alone (`AtWorkAlone`), found it as the acknowledged updates left it (`FileFor`), and holds the text that it will be
  once this update is acknowledged too (`RequestFollows`, `InstallFollows`).

* `ConsumersProofs!IndexesAgree`: `Spec => []IndexesFollow`. The index of a user's name
  follows its hash only if what a call carries from one command to the next is what it
  read: `IndexInv` binds every call (`Bound`) - the id it is about to write is
  its own and new, the name it will release is the one read - and adds of the
  store that nothing is under an id not yet drawn (`Unborn`), and that an application never
  renamed is under its name only (`NamesKept`).
* `ConsumersProofs!NamesAreRefused`: `Spec => []TakenNamesRefused`, from `FreeInv`. `taken` is what was under the name when the insert
  began. For an application `FreeInv` follows all of it through the look-ups: whichever is still one is about to be found. The look-up of a username takes one
  of the ids under it, so of users the theorem says that the name was free or that one of those who had it is gone; the others may be there still.
* `ConsumersProofs!RemovalIsComplete` and `DeactivationIsComplete`: `CascadeRemoves` and `CascadeDeactivates` for
  any number of overlapping cascades. `DueInv` says of every application still owed
  that the cascade has it before it (`todo` or `read`), or that it is gone or inactive already.
* `ConsumersProofs!OrphansAreExplained`: `Spec => []OrphansExplained`. To be inductive it needs
  that whoever an insertion has found is a user still, or is `loose`, having been removed meanwhile
  (`InsertsKnown`); and, where a user goes, `IndexesFollow`: what the removal is about to list is all of its applications.
* `CredentialsProofs!ScopesBacked`: `Spec => []ScopesAgree`. What is scattered over a hash and the associations
  agrees only when a call is over; `AgreeInv` says what holds on the way, by the kind of call. While scopes
  are given (`Giving`), a scope of the hash is associated, or its association is among the commands left; while
  one is taken (`Taking`), what is kept is associated, and the rest is gone once the hash is written;
  while a scope is removed (`Emptying`), a credential that has it was read or will be.
  It needs `SeenInv`: two calls that may write the scopes of one credential are in `raced`, and
  what a call read of a credential that is in neither `raced` nor `cut` is still true. Steps of other calls are then
  *calm* for a credential: they give it no scope and take no association from it.
* `CredentialsProofs!OnlyScopesAsked`: `Spec => NoScopeUnasked`, from `SeenInv`.
* `CredentialsProofs!Ghosts`: `Spec => []GhostsAreCut`, for overlapping calls as well: `GhostInv` says that what a call will write without
  inserting it is there, or was deleted under a call.
* `CredentialsProofs!ClearedStayClear`: `Spec => []RemovedStayClear`, which is about single credentials and key lists, not keys: `ClearedInv` says that no call begun later
  names a consumer that is gone, or has read a credential of it.
* `PipelinesProofs!StepsStayInOrder` and `PassesAreWhole`: `StepsInOrder` and `WholePass`, from `OrderInv`: a pipeline
  without schemas is mounted at once and in order (`PlainAtOnce`), and a request that found everything
  mounted has met exactly the layers mounted before the one it is at (`Kept`).
* `PipelinesProofs!TurnsStayEven`: `Spec => []EvenTurns`, from `TurnInv`: of the urls of a proxy, those before the
  index have had one request more than the others (`InTurn`), and the balancers of a
  generation that is still to come are unused.
* `PipelinesProofs!SchemasStayOwn`: `Spec => []SchemasAreOwn`, from `OwnInv`: the layers mounted, in every generation that
  a request is in or may come to be in, have had their schemas compiled, of which the process knows one per `$id`.
* `IntrospectionProofs!AdmittedWithinTtl`: `Spec => []CachedWithinTtl`. `CacheInv` says that a `SET` under way is of an answer of
  now and followed by its `EXPIRE` (`Paired`), and that an entry without
  expiry is the one whose `EXPIRE` comes next, or was lost with the process or refused (`Lasting`).

Only model-checked: liveness (`CallsSettle`, `StaleArchived`, `ExpiredRemoved`,
`Converges`, `EveryRequestAnswered`, `RequestsEnd`, `EveryAnswered`), which needs `ENABLED` and is out of the prover's reach.

## Where the code and its documentation part

Three runs check what a comment, a test or a document says, and find it violated; `findings` in
`PROJECT.json` quotes the lines.

* A failed reload is undone with the configuration that failed, since there is only
  one `Config` object; a declared policy that does not exist thus ends the process
  (`gateway/index.js:95`).
* Policies are mounted by one promise each, and nothing waits for them: a policy with a json-schema condition
  is met after policies listed behind it, or, until its schema has been fetched, not at all (`pipelines.js:171`).
* The removal of a user's credentials deletes the list of its keys, and neither the keys nor their associations with scopes: their
  deletion is queued on a transaction that has been executed (`credential.dao.js:164`, with the comments at 163 and 166).

Other behaviours of the code that a reader may not expect are behaviours of the models, and the
properties name them as exemptions (`disturbed`, `raced`, `cut`, `put`, `renamed`, `loose`, `torn`, and what is kept out of `cleared`): two `findOrSave` at once
save two tokens (`token.service.js:54`); two exchanges at once are both answered with one code
(`authorization-code.service.js:51`); a credential or an application inserted while its user is removed stays behind (`credentials.js:24`, `application.service.js:166`); two insertions of one username at once both succeed
(`user.service.js:143`); scopes set as a whole are not associated and survive the deletion of the scope
(`credential.service.js:254`); overlapping admin requests lose each other's update.

In `Introspection`, a token that expires before the `ttl` makes the policy ask for the expiry `exp - Date.now() / 1000`, nearly always
a fraction of seconds (`oauth2-introspect.js:37`). Redis refuses it, the rejection, which nothing handles, ends the process, and the entry that `SET` wrote
stays without expiry: the schema's 'Time, in seconds, in which the current token, if validated before, will be consider as valid' (`policies/oauth2-introspect/index.js:29`) does not hold of it.
`CachedWithinTtl` excepts such entries (`torn`).

## What is not modelled

* Signing, encryption and hashing of tokens and passwords, and JWT access tokens
  (`accessTokens.tokenType: jwt`); properties of entities
  beyond those that decide something; time zones and formats.
* Redis beyond atomic commands: persistence, failover, `SCAN` paging. Failing commands
  are modelled in `Tokens` and `Access` only.
* In `Access`: where a request carries its key or token; a jwt policy with `checkCredentialExistence: false`, which admits on the
  signature alone (`jwt.js:24`); log-out, the session store and a decision that is
  denied, which ends the transaction and grants nothing; the difference between a user's id and
  name, but for the one that keeps the tokens of the password grant apart (`via`).
* In `GatewayConfig`: endpoints, whose handlers have the form of those of pipelines; what
  plugins bring beside policies, and plugins that fail to load; a configuration without a `policies` section
  (it ends a reload like a policy that does not exist); environment
  variables in the file. Text left by overlapping writes is taken not to load.
* In `Pipelines`: which hosts, paths and methods match, what a policy does with a
  request, and what a condition tests are inputs. Forwarding is http-proxy's.
* In `Consumers`, an operation on a hash without id (`Ghost`) does nothing: the code finds such an application and goes on to write, or delete,
  `application:undefined` (`application.service.js:97`), a hash no look-up by id reaches and that is not in the model.
* The cascade of a user's removal into credentials is `RemoveAll` of `Credentials`, and
  `Consumers` leaves it out; the two are not composed, and a removal that ends before that cascade is one whose `RemoveAll` never comes. Listing by page (`findAll`) is left out.
* Rate limiting is express-rate-limit's and its Redis store's; the policy hands them
  parameters. CORS, headers, logging, request and response transformers, expressions, the
  admin client and the command line but for `plugin install` are functions of one request or command,
  or the work of libraries; the HTTP and TLS servers, the Redis client, the logger and the event emitter are Node's and
  their packages'.

## Plan

Done: the stores (`Tokens`, `AuthCodes`, `Consumers`, `Credentials`), what authenticates and grants over
them (`Access`, `Introspection`), what changes and builds the routing (`GatewayConfig`,
`Pipelines`), the abstract promises of the token store and of the codes with their refinements; proofs for all of them.

Left, in this order:

1. `Removal`: a user's removal across `Consumers` and `Credentials`, with the keys and
   credentials of its applications.
2. `Access` over the commands of the stores, at least of codes, where redeeming takes two.
3. Listing by page, and the conditions, routes and schemas that plugins register.
