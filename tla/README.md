# Angel Cloud in TLA+

A verification development for Angel Cloud: TLA+ modules translated from the
source, TLC runs over small instances, and TLAPS proofs for every value of the
constants. Paths below are those of the repository under `src/`.

Check a run with `tlc -config <cfg> <module>.tla`, module and cfg as in section 4,
and the proofs with `tlapm <module>.tla` (each takes at most a few minutes).

## 1. The system

Angel Cloud publishes an *Angel* (a policy with tools, bound to Google
Connections) for agents to call. It is four Cloudflare Workers, a library, a
command line client and a web client.

| Part | State it keeps | Operations | What is hard | What makes it correct | Modules |
|---|---|---|---|---|---|
| **Management** (`src/src/management.ts`) inside the **AccountRegistry** Durable Object (`workers/account-registry.ts`) of the Control worker | Angels, Versions, Deployments, per environment the active and pending Deployment, the availability overlay, the pending change, the repair marker, the keys; replayed responses | ensure, publish, deploy preview/production, promote, change availability, create/rotate/revoke key, delete; Account reset | every command is a chain of awaits (storage puts, requests to gates in other Workers) that can stop between any two; requests are repeated, late or duplicated | an interrupted change is completed by repeating it and never leaves two things half done; the record and the gates agree; a repeated request has one effect | `Management`, `Availability`, `Mutations` |
| **Policy gates** (`gate.ts` in `workers/gate-object.ts`), one per environment in the Broker and one in the Gateway | installation, overlay, key hashes (Gateway), receipts | reset, install, change availability, reconcile keys, evaluate | two gates in two Workers, changed one after the other, called concurrently | Broker first, no fallback, pauses survive, a revoked key is rejected, one receipt per decision | `Management`, `Availability`, `ToolCall`, `Decision` |
| **Tool call** (`workers/gateway.ts`, `workers/broker.ts`, `mcp.ts`, `google-provider.ts`) | none of its own | authenticate, evaluate at the Gateway, evaluate and invoke at the Broker, compare receipt identities | both gates may move between the two evaluations | a call executes under one policy both gates had at one moment | `ToolCall`, `CallContract`, `Decision` |
| **Credential Vault** (`custody.ts`, `workers/credential-vault.ts`) and **OAuth state** (`oauth-state.ts`, registry) | Provider Apps, Connections with grants and health; single-use states; the registry's copies | authorize, exchange, store, reauthorize, lease, revoke, remove, mark revoked/error, list, reconcile | health updates race with revocation and reauthorization; callbacks come late, twice or after a removal; lists arrive out of order | nothing revoked stays usable, an identity never changes under a Connection, a state is used once, copies come to agree | `Custody` |
| **Handles** (`handles.ts`, registry, the Gateway's directory) | claims, bindings, display copies | claim, rename once, push, record, resolve | three requests to three owners | one name, one Account, forever; what was answered is served | `Handles` |
| **Sign-in** (`workers/auth.ts`, `login-throttle.ts`) | throttle windows; links in D1 | spend, alarm, clear, issue, click | windows and alarms, simultaneous requests | the number of links live at once is bounded | `SignIn` |
| **Views and web client** (`demo-view.ts`, `www/app.js`) | the page's module variables, what is painted | build and validate a view; load, navigate, key mutations, actions, the rows of Connections | answers come while something else is open; two copies of a validator | what is offered is accepted, a secret is shown where it belongs, a row stays locked while its action is under way | `DemoView`, `Dashboard`, `ConnectionsPage` |
| **Core library and CLI** (`packages/core`) | none | compile and compose, select consent, validate, decide; publish with derived keys | four pieces of code must agree about one artifact | what is built is accepted, what is accepted can be installed | `Compile`, `Decision`, `Mutations` |
| Sessions and request authorization; in-memory control, golden client, acceptance harnesses | none | parsing, checking; test programs | | | not modelled |

**Interaction.** Control's requests become commands of one AccountRegistry
object, which runs them one at a time (`exclusive`). A command restores
Management from storage, puts it back at checkpoints, and talks to the gates
through `ServiceGateFleet`, one request per operation. The Gateway asks its gate,
then the Broker, which asks its own gate and then the Vault. The Vault's health
reaches the registry by lists and summaries, against which deployments are
validated. The dashboard asks the registry for views and sends mutations.

The hazards of each part are listed at their lines in `PROJECT.json`, with the
properties that cover them.

## 2. The modules of the control plane and the call

| Module | Holds |
|---|---|
| `Availability` | The overlay (what is paused) as a value: what it says, both implementations of a change (`applyAvailability` in Management, `changeAvailability` in the gate), the migration an install makes. |
| `Management` | The control plane of one Angel: the record, the four gates, and the running command. |
| `DemoView` | Extends `Management`: the view of an Angel, both validators of it, what the dashboard offers from it and what the registry makes of the offer. |
| `Decision` | The decision on arguments and the provider request built from them, as operators. |
| `ToolCall` | Extends `Management` and `Decision`: a call through Gateway and Broker beside every command of Management. |
| `CallContract` | The abstract specification of a call: one decision, at one moment, under one policy. |
| `MCManagement`, `MCToolCall` | Small instances for TLC. |
| `AvailabilityProofs`, `ManagementProofs`, `ConvergenceProofs`, `DemoViewProofs`, `ToolCallProofs` | Theorems (section 6). |

### Management: state and steps

The record is what storage holds: `exists`, `published`, and per environment
`active`, `pending`, `availability`, `pendingAvailability`, `repair`,
`activeKeys`, `revokedKeys`. The gates are `installed`, `gateAvailability` and
`gatewayKeys`. `pc`, `on`, `index` and `draft` are the command the registry is
running: every step of it ends at one put or one gate request, which are the only
places where anything outside sees it.

| Code | Actions |
|---|---|
| `ensureAngel`, `publishVersion` | `EnsureAngel`, `PublishVersion` (one put each) |
| `deploy` from `deployPreview`, `deployProduction`, `promoteProduction` | `Deploy` (checks, mint, put), `InstallBroker`, `MarkBrokerInstalled`, `InstallGateway`, `Activate`, `Record` |
| `changeAvailability` | `ChangeAvailability`, `ChangeBroker`, `MarkBrokerChanged`, `ChangeGateway`, `Settle`, `Record` |
| `createKey`, `rotateKey`, `revokeKey` | the three commands, then `ReconcileKeys` (Gateway) and `RecordKeys` (put) |
| `deleteAngel` | `DeleteAngel` (revoke, put), `LockGateway`, `DeleteAtBroker`, `DeleteAtGateway` (each a loop over the environments), `DropAngel` |
| the registry's `reset` | `ResetAccount`, `ResetAtBroker`, `ResetAtGateway`, `ReplaceState` |
| a lost request or answer, a throw, a restart | `Interrupt` after any step: what was put or applied stays, what was in memory is gone |
| the Broker's report of Connection health | `ConnectionHealth`, at any time |

A request that the gate applied and whose answer was lost is the request's step
followed by `Interrupt`; one that never arrived is `Interrupt` before it. A check
that throws has no step but `Interrupt`. `mutate`'s last put, of the response
under its key, is the step `Record`; a replayed request changes nothing and is a
stutter.

Abstractions. One Angel and one Account. A Version's tools are all bound to all
the Connections a Deployment names (one binding requirement), so `ValidBindings`
asks for a non-empty set of healthy Connections; that a Connection grants what
the artifact needs is left out. A ref is the pair of the Deployment's number and
the Connection, as a ref is minted per Deployment and Connection. A key is a
number. The gates' runtime is named by the slug, so an Angel created again gets
the gates its predecessor left. The repair the constructor makes of stored
overlays is left out of the steps because `RestoreIsIdentity` shows, and a
theorem proves, that it never changes one. A request Management has stopped
waiting for is assumed not to be applied after a later command has started.

`torn` is a history variable: a gate was reset under an Angel that is still
recorded. The convergence properties and the contract of a call are about the
time before that; the runs that end in a violation show what happens after.

### ToolCall: state and steps

`phase` is the next step of the current call, `request` what it asks, `expected`
the identity of the Gateway's receipt, `found` that of the Broker's, `sent` the
arguments as the last gate let them through, `answer` what the agent was told,
`receipts` the receipt of the last call in each gate's state.

| Code | Actions |
|---|---|
| `handleGatewayRequest`: key snapshot, parse | `CallTool` |
| `PolicyGate.evaluate` in the Gateway | `GatewayDenies`, `GatewayAllows` |
| `handleBrokerRequest`: evaluate, compare receipts, prepare | `EvaluateBroker` |
| lease, provider request, refused refresh | `Lease`, `Invoke`, `RefreshRefused` |
| the Gateway's second comparison and answer | `Respond` |
| a throw, a lost request or answer, a restart | `Fail` |
| any command of Management; a reset takes the receipts along | `Control` |

Calls run one at a time: a gate evaluates one request at a time, and calls share
nothing but the receipts and the health of a Connection. The identity of a
receipt is its seven fields with a digest standing for what it is of. A JSON
argument is what the guards can see of it: the scalars below it, and the named
fields inside it. `CallContract` is instantiated with a policy that exists while
both gates agree; `OneDecision == Contract!Spec` is the refinement.

`LateDefaults` names the one place where provider and guards differ: a `null` path
argument is present for the guards (`decision.ts:33-34,64`), which fill in no default,
and absent for the template (`google-provider.ts:102`), which then takes its own.
`GuardsHoldAtProvider` is about everything else that is sent; `ForwardedIsGuarded` is what the
code says of this place too, and is violated.

`tools/list` is not modelled: it reads one gate and changes nothing, and what it lists is the
set of Connections the same gate selects from when the tool is called.

### DemoView

The view is built inside the registry's queue, so it is a function of a state with
no command running. Names, labels, times, receipts and the Connections of
superseded Deployments are left out. The registry's validator is a predicate, the
dashboard's a set of accepted shapes, as the two are written independently.

## 3. The modules of the services and the clients

These share no state with the control plane or with one another beyond what is
said here; each is a module of its own. `MCServices` and `MCClients` choose one in
the first state and let the others stand still, so that one run checks several. Their
theorems are in `CustodyProofs`, `AccountsProofs` (`Handles`, `SignIn`) and
`ClientsProofs` (`Compile`, `Mutations`, `Dashboard`, `ConnectionsPage`).

**`Custody`.** `vault` and `providerApps` are the Broker's; `states`, `copy`,
`managed`, `referenced` the registry's; `grants`, `live` Google's (external:
revoking a token withdraws every token of the same identity and app). Each vault
request and each registry command is one step (`blockConcurrencyWhile`,
`exclusive`); a user's request is a chain of such steps (`request[r]`), any number
interleave, and `Abandon` stops one anywhere. `BeginAuthorize`, `Authorize`,
`BeginCallback`, `Exchange`, `Store`, `SaveProviderConnection` are a consent;
`BeginList`, `Reconcile`, `BeginReauthorize` listing and asking again; `BeginDeploy`,
`Deploy` a deployment's own list, inside the registry's queue; `BeginRevoke`,
`BeginRemove`, `LeaseForRevocation`, `RevokeAtGoogle`, `MarkRevoked`, `RemoveAtVault`,
`RemoveProviderConnection` the two ways to end one; `BeginCall`, `Refresh`,
`MarkError` what a tool call does to it; `ExpireState` and `GrantLost` time and
Google. `raced` marks a Connection that was reauthorized while a revocation of it was
at work: nothing in the code orders the two, and the properties about revoked tokens
leave it out. When Google answers the revocation of a token it no longer honours
with an error, the request ends there, as in the code. An Account has one user, so the
check of a state's subject is no transition.

**`ConnectionLife`** is the abstract specification of what a Connection's id stands for: nothing
yet; what was asked for; the Google identity that consented; nothing any more. Deployments bind ids
and outlive Connections, so an id that came back would give what was deployed another account.
`LivesOnce == Life!Spec` is the refinement: an id is held while the vault has it, asked for while
its creating state waits for its callback or a callback of it is at work, and over after that.

**`Handles`.** `owner` and `naming` are the directory, `bindings` the Gateway's
replica, `display` what each Account shows; `task` the requests of Control, from
`BeginPut` or `BeginGet` through `ClaimHandle`, `PushHandleBinding` (the new name, then
the retired one) and `RecordHandle`; `GiveUp` stops one anywhere.

**`SignIn`.** `window` has a throttle per address and per source, `asking` the
requests at work, `links` the links of an address. `SpendSource`, `SpendEmail`,
`ClearOlder` and `Issue` are the awaits of one request; `ThrottleAlarm` comes at a
window's end or later; a request takes less than a tick.

**`Mutations`.** Management seen from outside, for one slug and its production:
`records` are the Idempotency-Key records, `Mutate` serves and records, `Replay`
answers from a record, `CutShort` leaves what a command has put and no record. The
keys are those the CLI derives (`DerivedKey`, `FreshKey` for a deletion), those the
registry derives for the dashboard (`DemoMutationKey`, `KeyActionKey`), and callers'
own. Any request may be served at any time and any number of times.

**`Dashboard`.** One page of `app.js`: `page` its module variables, `dom` what is
painted from them, `tasks` the async functions under way, `cloud` the hosted side. One
event handler, or one continuation of an await, is one step. Renderers are operators
from page and paint to page and paint, as they change both (`RenderKeys` consumes a
reveal).

**`ConnectionsPage`.** The list of Connections in the same file: `custody` is what the Broker has,
`rows` the rows that are painted and whether each is locked, `jobs` the async functions under way.
`PressRowButton`, `ServeMutation` and `MutationAnswered` or `MutationFails` are one press of a button
(`runConnectionAction`, `mutateConnection`); `SaveProviderApp` and the page's start ask for the list, as does
an answered mutation, and `ServeList`, `PaintList`, `ListFails` are that request
(`loadProviderCustody`). A job keeps the row its button was in, not the Connection the row shows: `Repaint`
replaces every row, and the row of a job is then no longer on the page. Requests are served in any order,
answers come in any order. Left out are what a row says (health, scopes, the message in it) and the moment
between the answer that sends the browser to Google and its leaving.

**`Compile`.** Files, the release of each side, and one published Version. `Build`
compiles with the client's registry of adapters, `AssertArtifact` validates with the
hosted one, `RuntimeBindingsFor` and `AssertBindings` are Management's bindings and the
gate's check of them. Other clients may send an artifact regrouped (`Regrouped`). The
error for colliding composed requirements (`domain.ts`) is never reached from Angels
that compose without sharing a tool. `Failed`, an exception, is the empty tuple, which no
file or artifact equals; a folder's file may also say both tools and Angels, and is refused.

## 4. The runs

| Run | Module, cfg | Instance | Shows |
|---|---|---|---|
| `control_plane` | `MCManagement`, `Management_safety` | 2 tools, 2 Versions of which one drops a tool, within `MCBounds`: 2 Connections, 2 production Deployments, 1 availability change and 1 key; or a Deployment in each environment of 1 Connection, promotions and 2 keys in production; or a production Deployment, 2 keys in each environment and an Angel created again | `TypeOK`, `GatesMatchRecord`, `BrokerLeads`, `RestoreIsIdentity`, `MigrationNeverConflicts`, `ChangeNeverDiverges`, `ChangesAreAccepted`, `RevokedKeysRejected`, `LockedWhileClosing`, `PromotionIsAccepted`, `ViewIsValid`, `NoFallback`, `PausesSurviveRedeploy`; 1,379,356 states |
| `repair` | `MCManagement`, `Management_repair` | 1 tool, 1 Connection, 1 Version, 2 production Deployments, 1 change, with fairness | `RepairCompletes`; 13,382 states |
| `tool_call` | `MCToolCall`, `ToolCall` | four scenarios, chosen by the first state: two Deployments of one Connection with a change; two Connections to select from; 8 arguments objects against one policy; an Angel deleted and created again under a call | `OneDecision` (the refinement), `PauseTakesEffect`, `SameArguments`, `GuardsHoldAtProvider`, `ReceiptsPair`; 663,911 states |
| `services_safety` | `MCServices`, `Services_safety` | custody: 2 Connections, 1 nickname, 1 app, 2 identities, 2 requests, 2 states, 2 tokens; handles: 2 Accounts, 3 names of which one cannot be claimed, 2 requests; sign-in: 1 address, 1 source, cap 2, window 3 ticks, link 2 ticks, 4 ticks, 4 requests | `OneExchange`, `RevokedIsDead`, `RemovalRevokes`, `LivesOnce` (the refinement), `SiblingsSurvive`, `ReplicaAgrees`, `AnsweredNamesServe`, `LinksBounded`; 1,040,170 states |
| `services_convergence` | `MCServices`, `Services_convergence` | as above with 1 Connection, with fairness | `CopiesFollowVault`, `DisplayConverges`; 130,474 states |
| `clients` | `MCClients`, `Clients` | mutations: 3 incarnations, 1 deployment and 2 changes in each, 3 keys; a page with 2 Angels, 2 panes, 1 secret, 1 change by others; the page of 2 Connections with 3 functions under way; compile: 3 folders, 2 providers with 4 operations, 2 releases | `OneKeyPerRequest`, `KeyHasItsAnswer`, `RightIncarnation`, `ChangeHolds`, `SecretInItsContext`, `ActionsDoNotOverlap`, `RowsLockTheirActions`, `BuildIsAccepted`, `AcceptedIsInstallable`, `LeastAuthority`; 2,130,186 states |
| `teardown_overlay` | `MCManagement`, `Management_teardown_overlay` | as `repair` | violates `RecordedAvailabilityEnforced` |
| `promotion_retry` | `MCManagement`, `Management_promotion_retry` | 2 Versions, 2 previews, 1 production Deployment | violates `PromotionCanBeRetried` |
| `teardown_keys` | `MCManagement`, `Management_teardown_keys` | 1 Deployment | violates `KeylessAngelIsLocked` |
| `rollback` | `MCClients`, `Clients_rollback` | 2 artifacts | violates `PublishedIsActive` |
| `secret_lost` | `MCClients`, `Clients_secret` | 1 Angel, 3 panes, 1 secret | violates `NoSecretLost` |
| `late_default` | `MCToolCall`, `ToolCall_late_default` | 2 Connections, the 8 arguments objects of `tool_call` | violates `ForwardedIsGuarded` |

**Bounds.** `MaxDeployments`, `MaxRevision` and `MaxKeys` bound what is minted.
Two Deployments are one install over another, which is where an overlay migrates;
one availability change before or between them is what there is to migrate; two
Connections and two tools let a pause concern one and not the other; a Version
that drops a tool lets a pause be pruned. Two keys are the least a rotation or a revocation needs.
`MCBounds`, a constraint on the states of `control_plane`, keeps a second Deployment, the second
environment and an Angel created again apart, which would multiply; so do the scenarios of
`tool_call`, in each of which a call meets one move of the gates. In custody two requests, two tokens and two states are
what a race, a reauthorization and a sibling need; one nickname makes two Connections
collide; the instance of liveness has one Connection, as each list is replaced whole. Two
windows fit into the ticks of the sign-in instance and twice its cap into its requests;
more links than the bound may be stored. On the page of Connections three functions are two rows
at work and a list on its way that takes both rows away. Three incarnations of a slug let an answer
about the first meet the second while a third deletion is under way. The proofs remove the
bounds for the properties of section 6.
Deadlock is checked in every run: an Angel can always be created or a Connection change its
health, an idle service always has a request to take, and a page can always be asked for something.

**Fairness.** `FairSpec` (`repair`): a command ends (weak fairness: the platform ends it by
its time limits, if not by an answer); the operator keeps repeating the request
that was cut short; and of a gate request or put that is made again and again one
gets through (strong fairness for each kind of step, as each attempt may be lost
but not all). `RepairCompletes` then asks that from some time on the environment
stays `Repairable`: its Connections healthy, a key to install at the Gateway, no
teardown, and for a promotion the same Version active in preview. Without the
last condition it fails, which is the finding of `promotion_retry`.

`FairServices` (`services_convergence`): a request that is not cut short runs to its end
(weak fairness of its next step); the registry's queue is fair, so a list that waits is
reconciled; dashboards go on asking for the list of Connections, as the page does whenever it is
opened and after every action. Both properties assume that from some time on nothing is cut short
any more, and `CopiesFollowVault` follows only because a list replaces the copy. No fairness is
assumed of handles beyond the end of a request that has begun: neither the page nor the CLI asks for
`GET /v1/accounts/<account>/handle` (`docs/user-manual.md:901`), which is the only thing that heals a display copy
whose push was lost (`control.ts:228`). `DisplayConverges` therefore says, Account by Account, that the copy
converges *if* that request keeps being made; without the hypothesis TLC finds the copy stale for good.

**Every property of a passing run has a mutant** of a definition (the overlay not
migrated on activation, the gates in the other order, the receipt left to the Broker, an
unused grant revoked, the retired name not pushed again, a key without the overlay's
revision...) under which TLC finds it violated.

## 5. What disagrees with the documentation

* *Interrupted teardown, then redeploy* (`RecordedAvailabilityEnforced`). When a
  reset or deletion stops after a gate was reset, the record still shows a pause;
  the next deployment installs at gates with the default overlay and activates.
  No marker is set, the record says paused, and the tool runs.
  `src/src/gate.ts:820-822` says the two copies stay identical.
* *A promotion cut short and a preview moved on* (`PromotionCanBeRetried`). The
  identical request answers 409, and so does everything else in production.
  `src/docs/user-manual.md:798-800` tells the operator to repeat it.
* *A deletion that does not reach the Gateway* (`KeylessAngelIsLocked`). The keys
  are shown revoked, and are accepted, until the deletion is repeated.
  `src/docs/user-manual.md:594-595,610-611` describes such an Angel as one with its
  keys revoked, under which nothing authenticates.
* *Publishing the old source again* (`PublishedIsActive`). The CLI's key for the second
  deployment of a Version is that of the first; Management answers it from the record
  without deploying, and the newer Version stays active. `src/docs/faq.md:352-353` gives
  this as the way to roll back.
* *A secret painted where nobody looks* (`NoSecretLost`). An answer that arrives while
  another pane or screen of the same Angel and environment is open is painted into the
  hidden Keys pane and cleared. `src/www/app.js:1886-1887,2018-2019` says it is held
  until it can be copied.

* *A default nobody examined* (`ForwardedIsGuarded`). A path argument sent as `null` is decided on
  as null, since defaults are filled in for absent arguments only (`packages/core/src/decision.ts:64`), and is
  forwarded as the template's default (`src/src/google-provider.ts:102`). `decision.ts:33-35` says the object
  that is guarded and the one that is forwarded are the same.

Smaller ones met on the way, which no run is about:

* `workers/auth.ts:106-110` says the cap bounds the links live at once. Requests allowed at the end of one
  window and at the start of the next can be between their clear and their write at one time, and leave
  up to twice the cap less one (`LinksBounded`).
* `www/app.js:678-681` says that locking a row keeps a second mutation of its Connection from being fired. Any
  answer to a request for the list replaces every row, also the locked one of a mutation that is still under
  way, and the new row takes another. `RowsLockTheirActions` is what the code does give: a lock belongs to
  the action that was pressed in the row.
* A promotion is sent from the page's newest view, which may offer a later stage than the one painted (the
  registry then promotes what it offers now).

## 6. What is proved

| Theorem | States |
|---|---|
| `GateAgreesWithManagement` | the gate and Management compute the same overlay from any overlay and any command |
| `TypeCorrect`, `OneRepairAlways` | `Spec => []TypeOK`, `Spec => []OneRepair` |
| `RevokedKeysAlwaysRejected`, `LockedWhileClosingAlways` | the two invariants about keys |
| `MigrationNeverConflictsAlways`, `RestoreIsAlwaysIdentity` | the two overlay invariants |
| `NeitherGateFallsBack`, `PausesAlwaysSurviveRedeploy` | the two action properties |
| `GatesAlwaysMatchRecord`, `BrokerAlwaysLeads`, `ChangesNeverDiverge` | convergence |
| `CallsLeaveManagementAlone` | `CallSpec => Spec`: all of the above holds with calls beside it |
| `CallsKeepTheContract` | `CallSpec => OneDecision`: the refinement of `CallContract` |
| `PausesAlwaysTakeEffect` | an answered pause holds for every call that has not passed the Broker |
| `ArgumentsStaySame` | the second gate allows what the first allowed and adds nothing |
| `GuardsAlwaysHold` | what reaches the provider satisfies every guard; nothing is lost or doubled |
| `ReceiptsAlwaysPair` | the receipts of the two gates fit together |
| `DirectoryAlwaysConsistent`, `ReplicaAlwaysAgrees`, `AnsweredNamesAlwaysServe`, `NamesAlwaysPermanent` | handles |
| `ChangesAreAlwaysAccepted`, `PromotionIsAlwaysAccepted`, `ViewIsAlwaysValid` | the view: what is offered is accepted, both validators pass it |
| `HandlersKnow` | the types of `Custody`, and what a request in the middle of its work still has |
| `StatesAreExchangedOnce`, `SiblingsAlwaysSurvive`, `RevokedIsAlwaysDead` | the three invariants of custody |
| `RemovalAlwaysRevokes`, `IdentityIsPreserved` | what leaves the vault is dead; what stays in it keeps its identity, and what enters it holds the token of a consent to create it |
| `ConnectionsLiveOnce` | `CustodySpec => LivesOnce`: the refinement of `ConnectionLife` |
| `LinksAreBounded` | fewer than twice the cap of links of one address are live |
| `MutationsInvariant` | the types of `Mutations`, and how keys, records and receipts of deletions fit |
| `OneKeyIsMinted`, `KeysHaveTheirAnswers`, `AnswersAreOfTheRightIncarnation`, `AnsweredChangeHolds` | repeated and late mutations |
| `SecretsStayInTheirContext`, `ActionsNeverOverlap` | the page |
| `RowsAlwaysLockTheirActions` | the page of Connections: a row is locked exactly while the one action pressed in it is under way |
| `AcceptedIsAlwaysInstallable` | no gate throws on the bindings of an accepted Version |
| `LeavesAreAccepted`, `CompositesAreAccepted` | the validator accepts what the compiler makes of tools, and of Angels it accepts |
| `BuildsAreAccepted` | Angels that build and share no tool compose; what builds, from any files, is published and deployed on the consent it asks for |
| `ConsentIsLeast` | no cover is narrower than the consent an artifact asks for |

Every safety property of a passing run is stated by one of them.

**Assumptions**, all of them on constants and evaluated by TLC on every run of their module:

* `VersionsAssumption` (each Version ships some tools), `ConnectionsAssumption` (finitely
  many), `NoneAssumption` and `RequestsAssumption` (null is no Deployment, change, pending
  change, number, request, receipt or ref); the bounds are numbers.
* `ArgumentsAssumption` (a key occurs once in an object), `PoliciesAssumption` (what the
  artifact's validation enforces: a pin has one value, no field is defaulted twice, a template
  has finitely many parameters).
* `HandleConstants` (no name is an Account id: the underscore is outside the grammar).
* `SignInAssumption`: the caps are positive; a window is longer than the two ticks one request
  can touch, as the code's windows are minutes and a request ends within one; a link lives no
  longer than a window; no address is a source, as throttles are named `email:` and `source:`.
* `MutationBounds` (null is no artifact or key), `DashboardAssumption` (the page's routes and
  panes are those `app.js` has; null is no Angel), `NoConnectionAssumption` (null is no Connection).
* `CompileAssumption`: finitely many folders and operations; a file lists tools and Angels; no
  folder is named as the requirement of one of two providers is, `source:provider`, since a
  name has no colon (`angelName`); there is a release, and every release's registry is
  `Complete`: it has a request template and a pin for each operation it has scopes for, and a
  ranking for its provider, as `deriveAdapter` returns them together. Nothing is assumed of
  which scopes a ranking has, nor of how folders name each other.

**Management** goes up in layers, each an inductive invariant that uses the one
below it.

1. `RecordInv` is the types, `OneRepair`, and what a running command may rely on
   (the target it is converging on is recorded). Types are not inductive alone:
   `Settle` reads the pending target, which must be there.
2. `KeyInv` adds that active and revoked keys are disjoint, are minted, and that
   the draft of a key command still holds every revoked key; without the draft
   `RevokedKeysRejected` is lost at the push. `LockInv` adds how far the loop has
   come, since the lock covers one environment per round.
3. `OverlayInv` says that each overlay, recorded or at a gate, only has entries
   about the Deployment it is kept for (`WellFormed`), one value per entry
   (`OneValue`), that Deployment ids grow, and that a pending change is the one
   computed from the current record. A migration then maps entries one to one,
   which is why it cannot conflict and keeps pauses; and an id is never reused,
   which is why no gate falls back.
4. `ClosedInv` says what the reset loops have reset, so that when the record is
   dropped the gates are all at nothing, as the new record says.
5. `ConvergeInv` is `GatesMatchRecord` and `BrokerLeads` with `Progress`: which
   gates have reached the target when the command is at a given step. Without it
   `Activate` could not be shown to move the record to where the gates are.

**The call** (`ToolCallProofs`). A step of a call leaves Management's variables as they are
or changes a Connection's health as Management's own action does; hence
`CallsLeaveManagementAlone`, and every invariant above is there to be used. `CallInv` says what
is known of a call at each phase: what the Gateway's receipt promises about the request
(`Admitted`), that the Broker's receipt is the same one once the call has passed it, and,
while it is on its way, that the Gateway *stands* where it gave the receipt or has *left*
(`Stands`, `Left`). A gate has left a receipt when it was reset, has a newer Deployment, or a
newer overlay on the same one. By `BrokerLeads` the Broker has gone ahead wherever the
Gateway leaves, by `NoFallback`'s invariant neither comes back, and by `ClosedInv` a reset
ends both; so a Broker whose receipt is equal finds the Gateway still there, and its
decision is the contract's `Decide`. The identity includes the overlay's revision for
this reason: the mutant without it breaks `OneDecision`.

`ReceiptInv` adds what the receipts have to say at each phase. The proof found a case that the
smaller instances had not: an Angel that is deleted and created again under a call can get a
denial at its Broker of which its Gateway has no receipt (`Gone`: the refs of a call belong
to its Deployment, so nothing is allowed). The property says so, and the scenario
"recreation" of `tool_call` has the case.

`GuardsAlwaysHold` needs that an argument occurs once under its exact name after defaults
are filled in (`MaterializeOneEach`); the parameters of the path are then in bijection with
its entries (`PathComplete`).

**The view** (`DemoViewProofs`) uses Management's invariants with no new one but
`PublishedInv`: a Deployment, active or pending, is of a published Version, so that a promotion
that is offered can be minted. `ChangesAreAccepted` needs `OverlayInv`, for the change a view offers to repeat is the pending one, and that one is about the active
Deployment. `ViewIsValid` is field by field, for every state `TypeOK` allows: no interrupted
command can leave a shape that one validator lacks.

**Custody** (`CustodyProofs`). `HandlersInv` is what a request that is stopped between two steps may
take for granted after anything the others did: its state was issued, what it found is in its
list, the token it exchanged is of its state. Over it:

* `TakenOnce`: a state that was exchanged, or is about to be, has status *taken*, and of the
  requests about to exchange no two hold the same; taking is the one step of the registry that
  tests and sets it.
* `TokensInv`: every token is honoured or was withdrawn by someone, and each Connection holds
  one that was minted; hence a failed consent withdraws nothing another Connection uses.
* `Undisturbed`: a revocation or removal of a Connection that was not reauthorized meanwhile
  has leased the token the Connection still holds and, once past Google, that token is dead. It
  is the reason why `raced` is in the property: with a reauthorization in between it is false.
* `LifeInv`, for the refinement: no two states may make one id a Connection, the callbacks at work
  have each taken a state of their own and are about its id, and the state that made a Connection
  is no longer open. A step then closes one state at most (`Closes`: the id is given up, or nothing
  happens), leaves them open (`Unmoved`), issues one (`PutStep`) or stores its consent
  (`CreatedStep`, `RenewedStep`). Removal ends at *over* rather than at *asked* only because of
  the last part: a callback still at work for the id of a Connection is there to renew it, and a
  renewal stores nothing that it does not find.

**Handles** (`AccountsProofs`). The directory's two kinds of entry are the inductive core: the name's
and the Account's entry are one put. A task that pushes holds a name the directory has given it;
an answer is only given after both names were pushed.

**Sign-in** (`AccountsProofs`). The requests at work are a bag, counted by its numbered copies. While a
window is open, the requests past the throttle of an address are at most its count and the
cap less one of the window before; those that arrived after its start are fewer than its count
(`ThrottleOK`). So whenever one request clears the older links, at most twice the cap less one are
stored or about to be (`LinksOK`); storing one moves it within that sum and adds nothing to it.
The bound does not depend on how long a link lives. The count of the window before is
bounded by the cap *less one* because its first request arrived a whole window earlier
and a request is brief (`RequestsAreBrief`), which is where the window's length enters.

**Mutations** (`ClientsProofs`). A key's Idempotency-Key is a function of the request it was minted for
(`KeyFor`), and its record is stored with it and purged only with the Angel: `MintedInv`. Every record but
a deletion's receipt is about the Angel that holds the slug, and the dashboard's
have a revision below the recorded one (`RecordsInv`), so the next pause has a key nobody used.
A deletion's key is fresh and its receipt is kept (`DeletionsInv`), so a late repetition is answered
and destroys nothing.

**The page** (`ClientsProofs`). `RevealOK`, `ShownOK` and `KeyTaskOK` follow a secret from the mutation that asks for it,
through the reveal that is held, to what is painted: each carries the context it was minted
for, and painting compares it with the one that is open. `Locked` says that the flags the page's
functions set and the controls that are painted agree at every await, including that an action
leaves no room for a load that would unlock what it has locked. On the page of Connections
(`ConnectionsPageInv`) the property is inductive with its types: a button is refused in a locked row, a job gives
up its row only together with the lock or when every row is replaced, and rows that are new belong to
no job (`NewRows`).

**Compile** (`ClientsProofs`). Every tool is claimed by exactly one requirement and every requirement
gets a non-empty choice of Connections, so that each tool has a binding and none has two
of one Connection; releases may change in between. `LeavesAreAccepted` and `CompositesAreAccepted` are the
base and the step of the second half of `BuildIsAccepted`: tools of different children differ in every spelling,
so claims never meet, and renaming a requirement (`RebasedRequirements`) leaves its tools and consent alone.

`BuildsAreAccepted` is the whole. `CompileSource` is a recursive function on paths of folders, of which
nothing is known until it is shown that its equation has a solution. It does because compiling ends:
each folder that is descended into takes a name that the path has not met (`ancestors`), so that the
room of names left, a number, shrinks (`RoomShrinks`). With a solution below each room
(`CompilesEverywhere`, where the least room without one is absurd) there is one on all paths, and
`CompileSourceCompiles` gives the equation. Along the same room, what is compiled on any path is
`Sound`: accepted, with each requirement being of one folder and all its tools of one provider
(`CompiledIsSound`). For the first half, what an Angel builds to by itself is what it is compiled to
below a folder that composes it (`SameBelow`): the ancestors differ by that folder, which cannot be
met again as a composite, since the Angel would then be below itself and would not build. And two
requirements that are rebased to one id are of one folder and one provider, hence list the same tools,
which no two children share (`CompositeMade`): the error of `domain.ts` for colliding requirements is
not reached.

`ConsentIsLeast`. The vector of a set of scopes lists its ranks broadest first, so that one vector comes
before another exactly when the broadest rank in which the sets differ is the other's
(`VectorsCompared`). That is a strict total order on covers, which are finitely many, and has a first
(`FirstOf`, from the library's well-foundedness of inclusion on finite sets). A cover that uses scopes
outside of the pool is compared by what it has inside.

**Only model-checked.** `RepairCompletes`, `CopiesFollowVault` and `DisplayConverges`, as liveness
under fairness and `ENABLED` are out of the prover's reach.
The library's induction theorems take an operator and cannot be cited; where an induction is needed
it is made from a least counterexample (`LeastNumber`, `SmallestSet`).

## 7. Not modelled, and the plan

Left for later, in this order:

1. The hash chain of receipts, `verifyChain`, and its restart at a reset.
2. A page that is reloaded or signed out.

Left out for good:

* Late application at a gate: `reconcile_keys` carries no revision (`gate.ts:606`), and an install
  is compared with what its own Deployment had, not with what is newer (`gate.ts:312-316`). The models
  assume that a request Management has given up on is not applied after a later command has
  started; nothing in the code enforces it.
* Encryption and key wrapping, digests and canonical JSON, the text of `ANGEL.yaml`, the
  derivation of adapters from Google's discovery documents: string and byte work without
  state. Digests are modelled as what they are of.
* The migrations of stored state from earlier releases, the replacement of a Provider App
  and the registry's copy of the apps.
* Sessions, request authorization, HTTP parsing, rendering, the CLI's configuration and files.
* Better Auth, D1 and the mail, and Google: external, modelled as the code uses them.
* `control.ts`, `golden-client.ts` and the acceptance programs, which tests use.
