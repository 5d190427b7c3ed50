# A TLA+ model of AuthGuard

AuthGuard puts authentication and authorization in front of workloads: an AuthN
service logs users in and issues JWTs, an AuthZ service answers Envoy's external
authorization call on every request and tells the workload which resources the
caller may see. This directory holds the TLA+ modules that model both services and
the filter of the Rust adapter, the TLC configurations that check them, and TLAPS
proofs of every invariant the configurations check.
Paths below are relative to the repository root; the Rust crates are under `src/`.

`PROJECT.json` maps every definition to the lines it models and lists all runs,
mutants, hazards, findings and theorems.

## 1. Inventory

| Component | State | Operations | Interacts with |
| --- | --- | --- | --- |
| Policy administration (`authz/src/handler/policy`) | served catalog and its revision in memory, `write_lock` | create, update, delete of actions, roles, bindings; replace; open | catalog storage, principals |
| Catalog storage (`common/src/storage/authz`) | actions, roles, role actions, bindings | `load`, `replace` | foreign keys to principals |
| Account linking (`authn/src/principal/jit.rs`) | none of its own | resolve, link | identity storage |
| Standalone, WebAuthn, OAuth, wallet handlers (`authn/src/handler`) | one future per request | register, login, enrol, challenge, verify, callback, exchange, link | linking, credential storage, challenge store, token issuer |
| Challenge store (`authn/src/authentication/challenge.rs`) | unconsumed challenges in the cache | issue, consume | memory or Redis cache |
| Identity and credential storage (`common/src/storage`) | principals, identities, credentials | keyed inserts, conditional updates, cascading deletes | everything in AuthN, SCIM, principal handler |
| Authorization check (`authz/src/handler/authorization.rs`) | one future per check | `check`, `resolve_scope` | evaluator, route matcher, principal handler, scope cache, Envoy |
| Evaluator, conditions (`handler/policy/mod.rs`, `common/src/utils/context.rs`) | immutable compiled catalog | authorize, authorization_scope | URN matcher |
| Scope cache (`common/src/cache`) | contexts by token, with expiry and recency | store, load | authorization check |
| URN matcher, SQL compiler (`common/src/utils`) | none | matches, compile_scope | evaluator, workload adapters |
| Principal handler, SCIM (`authz/src/handler/principal.rs`, `scim.rs`) | one future per request | create, replace, PATCH, delete, get, list; materialize, set status, delete | identity storage, directories |
| Directory discovery (`authz/src/principal`) | one cached service-account token for Keycloak | search, resolve | Keycloak, LDAP, custom HTTP directories |
| Adapters (`src/adapters`) | context of the current request | enter, redeem token, compile scope | authorization check, workload database |
| Configuration (`common/src/config`) | `APP_CONFIG` | load, override, resolve secrets, validate | every constructor |
| Servers (`authz/src/server.rs`, `authn/src/server.rs`, `cmd`) | listeners, shutdown channel | open, bind, serve, drain, join | signals, configuration |
| Providers, JWT, CLI client, telemetry, web | little or none | - | - |

Who touches what at the same time:

- Every handler is an async function on a tokio runtime. Nothing is locked across
  an await except `write_lock` in policy administration. What a handler read
  before an await may be stale after it.
- Requests end at any await: the API planes run under a timeout layer, and a
  closed connection drops the future. What was committed stays committed.
- AuthN and AuthZ, each in several processes, share one database. AuthZ serves
  decisions from memory, AuthN from the tables.
- A federated search asks all directories at once; the calls to Keycloak share one
  token behind a mutex that is held while a token is fetched.
- The gRPC listeners accept while the others are still being bound. Every listener
  can end at any moment, a signal can come at any moment.
- A JWT is checked by signature only, so it outlives changes to its principal. A
  scope token outlives changes to the catalog, up to its lifetime.

What makes each part correct:

- *Policy*: a conditional write applies to the catalog its client saw; memory and
  database agree; what is stored can be loaded and compiled at the next start.
- *AuthN*: one identity leads to one principal; a failed registration leaves
  nothing behind and harms nobody else; no proof of a second factor is accepted
  twice; links follow the configured permissions; challenges serve once.
- *Check*: what passes is allowed and not denied for a principal that was active
  while the check ran; the scope handed out contains the request.
- *Delivery*: a workload enters a request with the context decided for it, while
  that is valid, and refuses an allowed request only for a cause an operator can
  name.
- *Principals*: an external identity keeps its principal; a failed request leaves
  no row behind; a request changes no status it does not name; listings are
  complete.
- *Directories*: a walk through the pages ends and shows everybody once per page;
  what is shown can be resolved; the token is alive when used and not fetched twice.
- *Configuration*: variables override the file in whatever order they come; a
  service resolves only its own references to secrets; nothing listens on settings
  it cannot use.
- *Servers*: a clean exit status means a clean end, and a process told to stop
  ends.
- *Pushdown*: the SQL condition selects exactly the rows the matcher grants.

## 2. Modules and the code

### Policy catalog

`PolicyData` has the catalog (`IamPolicyInfo`: actions, roles, bindings), the
validation of `compile_policy` (`Compiles`), the schema's constraints
(`Storable`), and the effect of each administrative operation (`Apply`).

`PolicyCatalog` is `PolicyHandler` in one or more processes over one database.
A process is down, seeding its database from the bootstrap policy, or up. A
request goes through the points where the code awaits: the principal check that
precedes the lock, the lock, the principal look-ups of `replace`, the transaction,
and `install`. Revision check, `prepare` and `install` happen where the code has
them; each error path releases the lock and answers. `Drop` ends a request at an
await (before or after the commit took effect), `Crash` ends a process with all
its requests. Other handlers create, disable and delete principals in between.
The revision is not persisted: `load()` answers 1 (`role_sqlite.rs`,
`role_postgres.rs`), and so does the model.

`PolicyRegister` is what administrators may rely on: per process, a register that
changes only by compare-and-swap on its revision, with a reset at a restart.
`PolicyCatalog` refines it (`ImplementsRegister`).

### Authentication

`AccountStore` has the principal, identity and credential tables with what one
repository call does to them: keyed inserts that find or lose, updates
conditional on the stored counter, deletes that cascade.

`Authentication` has all handlers of `authn/src/handler` as requests with a
program counter; each step is the stretch up to the next await with at most one
repository or cache call in it. Passwords, codes, signatures and provider answers
are inputs that are right or wrong. Administrators disable, delete and provision
principals at any moment, and may provision a deleted one under its old id, which
they choose. Initial states are a service that starts on tables which already hold
an account. `orphaned` is history: links whose permission has gone since, with a
registration that was rolled back or with a principal that was deleted.

### Authorization

`ResourceUrn` is the URN grammar after parsing and the pattern matcher, with `*`
for one segment and `**` for a suffix. The head fields (partition, service,
region, tenant) are matched alike; `HeadFields` says how many an instance keeps.

`ScopeCache` is the scope part of the cache: the memory implementation with its
purge, bound, access stamps and eviction of the entry with the least stamp, and
Redis, which expires by itself and has no bound of its own.

`AccessCheck` extends the former: `check` reads its input (`Receive`), awaits the
principal (`ResolveRequest`), then evaluates route, decision and scope on one
snapshot of the catalog and refuses or issues a context (`Refuse`, `Allow`), with
the re-signed identity if that is on. `Clock`, `SetStatus` and `Publish` go on
around it.

`WorkloadAccess` extends the latter and begins where `AccessCheck` ends, at an
issued context: the signed header (`SendDirect`) or the stored token
(`PrepareToken`, `SendToken`, `StoreFails`), the header changes Envoy applies
(`Forward`), requests that come past Envoy with headers of another one (`Stray`),
and the adapter's `AccessFilter::enter` with its two resolvers (`Enter`, `LoadToken`,
`AnswerScope`, `Resolve`, `CallFails`). The workload has resolvers, a key and a
clock of its own, which may drift from AuthZ's.

`ScopePushdown` is `compile_scope`: patterns to conjunctions of clauses, OR of the
allows, AND NOT of each deny. Text and parameters are two flat sequences, as in
`SqlScope`: a clause only has places, and `Bound` hands the parameters out by
position, as a database does. `Query` evaluates the text on a row of the table.
`FirstStop` is where the loop of `compile_path` ends, so that a path pattern is one
segment after another and what is made of the place it stops at. `LikeAlso` says
what a prefix that goes into LIKE unescaped is true of beside the paths below it.

### Principals

`ScimResources` has Users and Groups, PATCH, and the way of a resource to the row
and claims stored for it and back.

`PrincipalRegistry` has the handlers on the principal tables, one step per
repository call; the transaction of `upsert_with_identity` is one step. A slot is a
request in flight, which keeps what it read until its next call. SCIM, the
materialization of directory entries, administrators and AuthN's first logins work
on the same rows. A listing reads a page of ids (`Page`, the rows after the cursor
in the order of their ids), then row and claims of each id of the page; what a
client gets of it is a slice of at most `MaxCount`. A materialization may name any
id a client can know, one that was deleted included. Only the first login of an
identity writes here: a later one reads the principal it finds (`resolve_login`);
links are in `Authentication`. `live`,
`revived` and `duplicated` are history the properties need, and so is `stable`: the
resources a listing has to show because nobody touched them since it began.

### Directories

`BearerTokens` is the token cache of the Keycloak connector: the mutex with its
queue, the fetch under it, the slack before expiry, failures and dropped callers.

`DirectorySearch` extends it: a search starts one call per directory and stream,
each call is answered with a page or fails the search, pages are merged without
duplicates, and the client sends the cursors back until none is left. `Resolve` is
the second look-up, at materialization. A directory answers by the kind it is asked
for (`found` for searches, `held` for look-ups): a custom one is asked for
workloads, and not for users, as soon as workloads are searched, and looks up as a
user whatever is no group; Keycloak has an exact search for workloads alone beside
the broad one. Pages and cursors are kept by the directory's id, so of directories
that share an id one page replaces the other (`Kept`).

### Configuration and servers

`ConfigurationSettings` lists the settings with their defaults and the classes of
values the code distinguishes; a duration below a second is a class of its own.
`Configuration` is `load`: it begins with defaults and file as the library has
merged them, writes the variables over them one by one in any order, replaces
`${NAME}` in the service's own part, decodes and validates.

`ServerLifecycle` extends it to a process from start to exit status, for both
commands: the constructors' own checks, gRPC listeners as tasks that bind by
themselves, the others bound in order, routes on which the router panics, failures,
signals, the drain with its timeout for authz, and the unbounded drain on SIGINT
only for authn. `UsableForAuthz` and `UsableForAuthn` are what the components behind
the listeners rely on, stated apart from the checks that are to ensure it.

The `MC*` modules give the constants their values.

## 3. Runs

| Run | Question |
| --- | --- |
| `policy_operations` | Does any sequence of operations, with principals coming and going, store a catalog that a restart would refuse, or that names a missing principal? |
| `policy_one_process` | Do lock, look-ups, commit and install act as one compare-and-swap with requests dropped at every await, and does every request end? |
| `authentication` | Do racing registrations, first logins and links agree on one principal, does a rollback take away only its own work, do tokens need an active principal, and is any challenge, TOTP code or assertion accepted twice, or a second factor skipped? |
| `access_decisions` | Is each allow entitled under deny-overrides at a moment of the check, does its scope contain it, and does a re-signed identity end with its source, for every catalog of up to two bindings and with statuses and catalogs changing meanwhile? |
| `workload_access` | Does a workload enter a request with what was decided for it, and refuse an allowed one only for a cause, with either cache, evictions, expiry, failures, foreign headers and clocks that drift? |
| `scope_pushdown` | Does the SQL condition select exactly the granted rows, but for what a pattern that ends at the remainder column and a prefix that LIKE reads more widely add? |
| `principal_registry` | Do SCIM, materialization, administrators and logins, overlapping at every repository call, keep identities with their principals, create nothing twice, leave nothing stray, keep statuses and list completely? |
| `directory_search` | Do walks end and show everybody, with failures and calls in any order, and is the shared token alive when used and fetched only when needed? |
| `server_lifecycle` | Do overrides and secrets end up where they belong, does an unusable setting keep the listeners down, does success mean an orderly end, does a stop end? |

All of them hold. Three further runs end in a counterexample, each against a
sentence of the repository:

- `authn_orphan_passkey`: a passkey is stored on a principal that did not step up,
  which a comment at that line rules out.
- `scope_pushdown_short`: a pattern that ends where the remainder column begins
  selects every row below it, although the compiler is documented to refuse what it
  cannot represent safely.
- `scim_disable_undone`: a PATCH of a display name that overlaps a disable writes
  the old status back. The comment held against it (`principal.rs:49-50`) has
  another race in mind, that of revoking cached credentials; its conclusion, that
  disabling takes effect, is what fails here.

Gaps of the same kind without a run of their own, because no text of the repository
decides them or because a property names them as its exception:

- A request dropped between commit and install leaves memory behind the database
  (`policy.rs`), and nothing makes a process read what another one published.
  `ServedIsDurable` and the theorem `ServedDurable` state the exception.
- Revisions restart at 1 with the process, so an old ETag can match a catalog its
  client never saw; `EtagIdentifiesCatalog` speaks of one life of a process.
- A prefix goes into LIKE unescaped (`sql.rs`), so that `_`, `%` and, on SQLite,
  the case of letters let it reach other rows. `LikeWildcards` is an instance of it
  in `scope_pushdown`; `ScopeIsExactButForGaps` names it as `LikeGap`.
- With `standalone` as a key of `allowLink`, as in the end-to-end deployment, the
  standalone identity that permits a link may be rolled back after `link_identity`
  has asked and before or after the link is stored; the link stays.
  `LinksFollowPolicy` names the case and the profile `Wallets` reaches it.
- Directories of different protocols may be configured with one id. The page of one
  then replaces that of the other and nobody is told; `WalkIsComplete` and
  `ShownIsResolved` speak of directories with an id of their own.
- A custom directory with an endpoint per kind finds workloads it then looks up
  among the users, and may answer with nobody or with another kind
  (`FoundAsOther`); and a search for users and workloads leaves out its users.
- A secret spelled out in a variable `AUTHGUARD__AUTHN__...` is written into the
  configuration of AuthZ as well when both pods have the variable, as with the Helm
  chart. `SecretsStayWithTheirService` is about references.
- `request_timeout` of Keycloak may exceed the slack of 30 seconds, and then a token
  may have expired when its answer arrives; `TokenAssumption` excludes it.
- A walk through a federated search shows an entry again when one stream is
  exhausted before another, because a stream without a cursor starts over.
- Two management routes with one path make the process panic when it builds its
  router, and so does, for authn, a path without its slash (`RouterPanics`).
- `open` stores the bootstrap policy without looking again, over a catalog another
  process may have committed meanwhile (`SeedDurable`).
- Materializing a directory entry onto a principal makes a resource SCIM deleted
  visible to SCIM again, and a PUT with another external id leaves the old identity
  beside the new one; `PrincipalRegistry` has both.
- A signal before the supervisor runs kills the process although the gRPC planes
  may already answer (`Kill`), and a taken API port aborts them (`BindFails`).
- The default path of a custom directory passes the validation and is refused by
  the connector; `secrets.env_file` in YAML is never read, only the variable is.
- A lifetime below one second passes the validation and becomes zero where seconds
  are counted: contexts expire as they are issued and Redis refuses the token.
  `UsableForAuthz` names this as its one exception.
- The message on `challengeTtl` asks for at least one second, the check for more
  than zero.
- `resolve_scope` has neither deadline nor retry on the workload's side, and a
  signed context without its resolver makes a request anonymous (`Enter`).
- A refused Keycloak token stays cached until it is due.

### Bounds

The races need two actors of one kind, so there are two clients or two requests,
and one principal or login for them to meet at. A third adds only queueing behind
the lock. `policy_operations` has one client with every operation and both a
colliding and an invalid value of each kind; `policy_one_process` has two clients
with operations that do not commute. Several processes over one database are left
to the proofs, which hold for any number. `MaxRevision` is the largest revision: it
stands for `u64::MAX`, so exhaustion is reached. `MaxEpoch` 2 allows one restart.

Authentication has deployment profiles: the account-linking settings, the tables at
the start, the handlers called, the last TOTP step, and the identifiers that may
still be drawn, as many as the requests can use. The run starts in each of them
(registration, the same with provisioning, wallets linked through a standalone
identity, federation, second factor, passkeys), which keeps apart handlers that share
no state. Administrators provision new and deleted principals in the second, and in
the third a deleted one. `MaxStep` and `MaxCount` bound TOTP steps and signature counters;
one step beyond the first tells reuse from progress.

In `access_decisions` one of two catalogs, which takes the grant away or puts a
denial in front of it, is published under the check; identities expire before or
after `MaxTime` 1, so some expire under it. `workload_access` has three requests
and tokens for two places, so the least recently used one is evicted both with and
without a use in between, and starts with each cache. `MaxTime` 2 equals the longer
lifetime: expiry before, at and after each step happens. With a tolerance of 1,
drifts of -2, 0 and 1 are beyond it, none, and ahead. The pushdown run has three
mappings (literal and column, two columns under a constant tenant, literal and
remainder), remainders of up to two segments, every pattern of up to three segments
and grants of up to three patterns that overlap, with one prefix that LIKE reads more
widely.

`principal_registry` has two requests at a time and three in all: a race needs two
requests, and the third sees or repeats their result. The tables start empty, with a
disabled or deleted User, with a login's principal, and with a User and a Group of
one external id. A page has one row, so every listing turns pages while others write;
`MaxCount` 2 is less than the listings a client may ask for.
In `directory_search` one client walks alone through each kind of query, and two
share the token; the directories hold more than a page, one user twice, one id as
user, workload and group, and a service account the broad search leaves out. Some
federations share an id between two directories or are empty, and one has a custom
directory without an attribute for the kind. `MaxClock` 3 passes the shortest lifetime and one failure is
enough to interrupt a walk and have it retried. `server_lifecycle` turns every
feature on and changes each setting to each other class of its value, one at a
time: the validation looks at settings one by one or in the pairs that appear among
the deployments. Secrets come from file, environment, both or neither, and, as in the
Helm chart, as variables that both commands have. Environments marked as followed go through the whole life of both
commands, the others until the listeners are up or refused; two signals tell the
first from a repetition.

Symmetry is used only for requests, tokens and fresh identifiers, never in a run
with a liveness property.

### Fairness

Three runs assume any.

`policy_one_process`, for `RequestsEnd`: a step of a handler that can be taken is
taken (weak fairness), since tokio polls a woken future and a database call returns
or fails. The step that acquires `write_lock` gets strong fairness: tokio's mutex is
FIFO and a waiter is not overtaken for ever.

`directory_search`, for `WalksEnd`: each client's tasks proceed and Keycloak answers
the fetch of a token. Both HTTP clients and the LDAP connection have timeouts, so a
call is answered or fails; failures are bounded by `MaxFailures`. The queue of the
mutex is part of the model.

`server_lifecycle`, for `StopsInTheEnd`: `run` goes on binding, the supervisor joins
a task that ended, the timer of the drain expires. Nothing is assumed of listeners
or requests, which may take for ever.

Clients, administrators, crashes, timeouts and principal changes owe nobody a step.

## 4. Proofs

Eight modules hold theorems, proved for all values of the constants that satisfy
the assumptions of the modules they extend: any number of requests, principals,
directories, tokens or settings, where the runs have two or three. Each rests on an
inductive invariant, `IInv`, that the run of the component was also given while the
proof was written. Its preservation has one lemma per action or per conjunct, with
one step for each part the action can disturb.

| Module | Theorem | Statement |
| --- | --- | --- |
| `PolicyCatalogProofs` | `TypeCorrect` | every variable keeps its type |
| | `LockProtectsReplacement` | only the holder of the lock is past it, and what it prepared is based on the catalog served now |
| | `EtagsAreFaithful` | within one life of a process an ETag identifies a catalog |
| | `DurableServable` | the stored catalog compiles and names existing principals only |
| | `ServedDurable` | with one process, memory equals the database unless a request was dropped past its commit |
| | `RevisionsAdvance` | a live process changes its catalog only to the next revision |
| | `CatalogIsRegister` | `Spec` implements `PolicyRegister` in every process |
| `AuthenticationProofs` | `TypeCorrect` | every table, request and challenge keeps its shape |
| | `ProofsAlwaysAdvance` | no TOTP code and no assertion is accepted twice |
| | `TokensAlwaysNeedAnActivePrincipal` | a token's principal was active at some moment of its request |
| | `SecondFactorAlwaysGuardsOwner` | a password alone opens no account that had a second factor when the login began |
| | `AnswersAlwaysStayTrue` | the principal named to a client stays the identity's owner while it exists |
| | `UndoneAlwaysLeavesNothing` | a registration that was rolled back leaves no row of its own |
| | `ChallengesAreAlwaysSingleUse` | no two requests go on from one challenge |
| | `RollbackAlwaysSparesOthers` | a rollback deletes no principal its registration did not create |
| | `LinksAlwaysFollowPolicy` | for every `allowLink`, a link is permitted by an identity the principal still has, or was when `link_identity` asked and that identity has gone since |
| `AccessCheckProofs` | `AuthorizeIsOrderFree` | the loop of `authorize` decides by deny-overrides, whatever the order of the bindings |
| | `AllowIsAlwaysJustified` | an allow is entitled by a catalog served during its check, and misses no denial of a group that was active throughout |
| | `DisabledAlwaysStaysOut` | and its principal was active at some moment of it |
| | `ScopeAlwaysCoversRequest` | the scope handed on contains what was allowed |
| | `ResignedAlwaysEndsWithSource` | a re-signed identity does not outlive its source |
| `WorkloadAccessProofs` | `EnteredWasAlwaysIssued` | a workload enters only with what was issued, for this request when it came through Envoy |
| | `AlwaysRefusedForCause` | an allowed request is refused only for a cause |
| `PrincipalRegistryProofs` | `NeverStrayPrincipals` | no request leaves a principal without an identity |
| | `NeverDuplicateCreation` | SCIM creates nothing twice that stays provisioned |
| | `UndisturbedPatchAlwaysKeepsStatus` | a PATCH that nothing overlaps keeps a status it does not name |
| | `ListingsAreAlwaysComplete` | a listing shows every resource that stayed, once, in order, and its pages add up to it |
| | `IdentityOwnersAreAlwaysStable` | no step moves an identity from a principal that exists to another |
| `DirectorySearchProofs` | `TokensAreHandedOutAlive` | a token that outlives the slack is handed out alive |
| | `FetchesAreNeverNeedless` | no token is fetched while a fresh one is cached |
| | `WalksAreAlwaysComplete` | a walk that ended has shown everybody whom the selected directories with an id of their own find when asked as the query asks them |
| | `PagesNeverHaveDuplicates` | a merged page holds an external identity once |
| | `ShownIsAlwaysResolved` | what was shown is what materialization finds, or was found as a workload by a custom directory and then is nobody with another reference, or is ambiguous in LDAP and refused |
| `ServerLifecycleProofs` | `SuccessIsAlwaysOrderly` | success means a signal, no failed listener, no aborted request |
| | `ListenersAlwaysNeedUsableConfiguration` | no listener of either command is bound on a configuration its components cannot use, but for lifetimes below a second |
| | `SecretsAlwaysStayWithTheirService` | each command resolves only its own references (under `PlainSecrets`) |
| | `OverridesAlwaysTakeEffect` | variables stand whole in the document, in whatever order they were written, and the rest of the file is kept |
| `ScopePushdownProofs` | `ScopeIsAlwaysExactButForGaps` | the SQL condition selects exactly the rows an allow pattern reaches and no deny pattern does; a pattern reaches what the matcher accepts and what the two gaps (`Widened`) add |
| | `ScopeIsExactWhereNothingWidens` | on a row on which no pattern is widened it decides as the matcher |

Each module but the last also has `InductiveInvariant`, `Spec => []IInv`. Three
theorems have an invariant of their own beside it: `ListInv`, `MergeInv` and
`QueryInv`, which the runs were given as well.

Induction over sequences and over the rows of a table is done by a least
counterexample: `LeastNatural` (a set of naturals that is not empty has a least
member, from the well-foundedness of `<`) is the only principle used, and the case
below the least is what an induction hypothesis would say.

### The invariants, and why they are needed

Policy. That the lock protects a replacement needs that requests are served only
by processes that are up (`RequestsAreServed`); that the database is servable needs
that what a request is about to store was compiled (`PreparedIsSound`,
`SeedCompiles`); that memory follows the database needs the moment between commit
and install (`CommitIsDurable`); that ETags are faithful needs that no client holds
one from the future (`ViewsAreOld`). The refinement maps each process's phase,
epoch and catalog to the register; every action but `Install`, the starts and the
crash is a stutter, and `Install` is a compare-and-swap because of
`HolderIsCurrent`. `DurableServable` rests on the transaction of `replace` being one
step. SQLite gives that with `BEGIN IMMEDIATE`. On PostgreSQL two processes can
overlap in READ COMMITTED; that is not modelled (see the hazards).

Authentication. A request that read the tables and then waits must not be wrong
when it goes on. So `IInv` says of every program counter what the request may still
assume: an identity it resolved belongs to that principal or the principal is gone
(`ResolvedStaysTrue`), whoever holds a session has an identity that no rollback
takes (`SessionsHoldTokens`, `TokensAreSettled`), a registered subject is its
principal's only one until something is bound to it (`SubjectsAreSole`,
`SoleIsUnbound`), and a rollback has either made its principal or been linked to it
(`MadeOrLinked`). That a code is not accepted twice needs only the conditional
update of the stored counter, whichever requests race.

Authorization. `AccessCheck` keeps which catalogs were served, which principals
were active at some moment since a check began, and which of its groups all the
time; the invariant says that what a waiting check holds
was among them (`ResolvedWasActive`, `AllowedIsSound`). The loop of `authorize` is
shown to be order-free first: the first binding that hits is the least element of a
set of naturals. Decision and scope agree because a binding that allows contributes
a pattern that matches. In `WorkloadAccess` an entry is the context of the one
check that drew its token, and the stamps of the memory cache order the tokens as
their uses did (`StampsInv`). An entry is evicted when its stamp is the least of
`MaxCapacity` others, which is why that many tokens were used since.

Principals. A slot that waits for its next call carries what it saw: an identity it
found deleted may have been revived, an id it adopts may be gone. `SlotOK` says
what of that a write may rely on, and the write checks the rest, since the upsert
binds only where no other owner stands. `NoDuplicateCreation` needs that
every live resource is in the tables (`LiveIsStored`).

A listing overlaps with writes, so its answer is no state the tables were in.
`ListInv` says of one under way that what it has shown comes before what it holds
in hand, and that before its cursor (`InOrder`), and that a resource nobody touched
is shown or in hand as soon as the cursor has passed it (`NothingSkipped`). A page
keeps this because it is an initial part of the rows behind the cursor: the n-th
row is the one with n - 1 before it, which exists for every n up to their number
(`Ranks`). A write only takes its own row out of what the listing has to show.
`PagesAddUp` is about the client's side: the slices of `list_page`, one after
another, are the listing.

Directories. `WalkOK` says of every walk, stream by stream, that all entries before
its cursor were shown, and that a stream without a cursor was shown to its end. A
page is an interval of the matching entries, so one more page moves that border by
its length; the merge keeps one of each identity because there is a first place at
which it occurs. For the token, `CacheOK` and `FetchOK` bound the real end of a
token's life from the moment its request was sent, since the clock goes on until
the answer arrives.

Servers. `RunInv` ties every listener's state to the phase, failures to the error
that is kept, and open requests to listeners that serve them. `ConfigInv` says that
the installed configuration is the one decoded and validated, which a listener then
uses. `ListenersAlwaysNeedUsableConfiguration` adds a case distinction over the
classes of each setting. `MergeInv` speaks of the document half-way through the
variables: one that was written and that no other disturbs stands there whole, with
containers of the right kind above it, and a node of the file that no variable
touches is still there. It rests on what one `set_yaml_path` does to any node, which
is a matter of how two paths can be related: equal, one above the other, or parting
at some segment.

Pushdown. Nothing overlaps here; `QueryInv` only says that the condition in use is
the compiled one. The argument is about the compiler. Parts that are compiled in
step (`InStep`: as many operands as places, and the second place of a clause behind
the first) stay in step when they are put together, since two sequences of
sequences with the same lengths have their members at the same offsets
(`UptoPlaced`, `SamePlaces`, `PartsAreLaidOut`). So the parameters a part is bound
to by position are its own (`BoundIs`), however many alternatives and exceptions
come before it. One part holds where the pattern reaches: `SegmentPiece` for a
field, `RemainderPiece` for the rest of a path in one column, `StopPiece` for the
four ways in which mapping and pattern can end, `PatternPiece` for the whole. The
two gaps enter in `RemainderPiece` (LIKE) and `StopPiece` (a pattern that ends at the
remainder), and nowhere else. A pattern that could not be compiled accepts nothing, but another part of it may have
ruled the table out first, which is why failure and mismatch are kept apart all the
way (`AllOfParts`).

### Assumptions

The modules that declare the constants name what is assumed of them, and the runs
evaluate it: the operations and the bootstrap policy are well-formed
(`PolicyAssumption`); inputs name principals, catalogs are vectors of routes and of
bindings with one of two effects (`InputAssumption`, `CatalogAssumption`); the
tables a deployment starts on satisfy the schema's keys and references, and their
links the policy in force (`TablesAssumption`, `SeedsAssumption`); directories have
positive page sizes, there is one of a protocol in a federation, walks begin without
cursors (`DirectoryAssumption`, `ScenarioAssumption`), and an entry that a directory
finds is looked up by its id where both ask one endpoint, with no other of that id
(`AnswerAssumption`); the token endpoint is called with a timeout within the slack
(`TokenAssumption`); sentinels are none of the values they
stand beside (`WorkloadAssumption`, `StoreAssumption`); a setting has a path and no
default is a reference (`DefaultsAssumption`); file and variables are trees with
string keys (`DocumentAssumption`, `PositionAssumption`); the tables SCIM starts on
hold finitely many principals, whose ids are positive and may be compared (part of
`SeedsAssumption`); a table mapping has its remainder last and in a column of its
own (`MappingAssumption`), patterns were parsed (`GrantAssumption`), and the head
fields are compiled in some order (`HeadAssumption`).

One theorem has a hypothesis of its own, because the code does not give the property
without it: `SecretsAlwaysStayWithTheirService` has `PlainSecrets`, no secret is
itself written `${NAME}`. The expansion is one pass, so such a value would be left as
a reference. The instances of the passing run satisfy it. Where the code fails a
property in a case one can name, the property has the case as an alternative instead,
and the run reaches it.

### Only model-checked

- Liveness (`RequestsEnd`, `WalksEnd`, `StopsInTheEnd`), which the prover does not
  reach.
- The three runs that end in a counterexample.

## 5. What the models leave out

Policy: the wording of errors, paging of the read operations, and the parsing of
URNs and matchers, which are valid or not.

Authentication:
- A failed statement has no effect; a commit whose reply is lost looks like the
  request ending after it.
- A registration that stops between the identity and the password leaves an
  identity without credentials. Nothing removes it, and the model keeps it too.
- A link to a disabled principal is refused after the binding is stored; the
  binding stays.
- A login or step-up that has checked its proof re-creates an identity deleted
  meanwhile; `authn_orphan_passkey` shows where this matters.
- Challenge expiry is a challenge disappearing at any moment.

Authorization:
- The size of a header is a choice: a context within the URN limit may still have
  to go by token.
- The principal row and the catalog need not have been current at one common
  moment. `AllowIsJustified` and `DisabledStaysOut` promise that each was current
  at some moment of the check, which is what the code gives. Of the groups
  it counts those read at one moment: every one that was active all the time, and
  perhaps some that were for a part of it.
- `AccessCheck` and `WorkloadAccess` meet at the issued context: the first says who
  gets one and what it says, the second that it arrives. No state is shared but the
  context, so they are checked apart.
- Restarts of the revision are in `PolicyCatalog`, not in `AccessCheck`. The memory
  cache belongs to one process; a token presented to another is simply unknown.
- Token collisions, headers of the answer other than the access headers, and NULL
  columns are left out. A condition on transport, MFA or claims is a fact of the
  request.
- The Rust adapter keeps the current access in a thread local (`CURRENT_ACCESS`),
  which a handler that awaits on a runtime of several threads may leave on another
  one. Applications bind it themselves, so the filter is modelled without it.
- The path templates of the route matcher are abstracted to which routes match and
  whether their resource can be expanded.

Principals and directories:
- SCIM filters, sorting and the attributes that are only stored and returned.
- A directory does not change while it is walked; the code gives no promise then.
- A call to Keycloak's admin interface succeeds with the token it was given; a
  token revoked meanwhile is a failure of the call.

Configuration and servers:
- Two spellings of one property in one YAML file are one property.
- Text formats (URLs, templates, durations, addresses) are classes: empty, blank,
  padded, well-formed. Type errors of the decoder are refusals like any other.
- The secrets file named by the environment is part of the environment.
- Which of two ready branches `select!` takes is a free choice.

Not modelled at all, with the reason in `PROJECT.json`: the Go, Java and Python
adapters, identity providers and wallet verifiers, JWT validation, telemetry, web
console, charts and examples. They repeat the Rust adapter, or are HTTP,
cryptography and observation without a state of their own.

## 6. Plan

1. `CatalogReplace`: the statements of the PostgreSQL `replace`, two writers in
   READ COMMITTED, against the atomic step of `PolicyCatalog`.
2. Path templates and precedence of the route matcher; parsing of the gateway
   identity.
