# TheSocialWallet in TLA+

This directory models the parts of TheSocialWallet in which the order of things
matters: modules in TLA+, configurations that check them with TLC on small
instances, and proofs that TLAPS checks for instances of every size. The code
is the reference. Where a document or a comment of the repository says
something else, the model follows the code and the difference is a finding.

`tlc -config X.cfg M` checks one configuration; `tlapm StatusListProofs.tla`,
`tlapm KeyValueStoreProofs.tla`, `tlapm Oid4vciHolderProofs.tla`,
`tlapm Oid4vpExchangeProofs.tla`, `tlapm WalletAccessProofs.tla`,
`tlapm DigitalCredentialStoreProofs.tla`, `tlapm MachinePersistenceProofs.tla` and
`tlapm MachineStartProofs.tla` check the proofs.

## 1. The system

The repository is a wallet for verifiable credentials: `ssi-sdk` holds the
agent plugins, `mobile-wallet` and `web-wallet` are two user interfaces over
them. A plugin is a set of async methods on one shared agent. Nothing is locked:
a method runs up to its next `await`, other methods run meanwhile, and what it
read before may have changed. Data live in a SQL database behind TypeORM, one
`save` or `find` at a time, hardly ever two in one transaction. REST modules put
the same methods behind HTTP, so that the caller may be another process.

| component | state it keeps | operations | what is hard | what makes it correct |
|---|---|---|---|---|
| Status lists (`vc-status-list*`, `data-store/statusList`) | a table of positions given out, a published bitstring | give a position to a credential, change its status, create a list | two requests between the same reads and writes; a crash between the row and the list; position 0 | a position has one holder; the list shows what was answered; a revoked credential stays revoked when it is issued again |
| Machine persistence (`xstate-persistence`, `data-store/machineState`) | a row for each machine instance; the interpreter in memory; events under way | save on every transition, in the background; resume; clean up | handlers that overtake each other; a process that dies with saves under way; a delete racing a save | the row follows the machine forward; a finished machine leaves nothing to resume; a resumed machine is saved again |
| Machine start (`interpreterStartOrResume`) | the table of instances, the interpreters that run | start, resume, clean up the others | callers that overlap; rows deleted under a caller; machines that run without a row | one machine where one was asked for; clean-up spares the caller's own |
| OID4VCI holder (`oid4vci-holder`) | a state machine with its context; contacts, brandings, credentials | run through an offer: contact, selection, grant, request, review, store | services that fail half way; a restart in the middle; going back | no request without a grant; nothing stored that was not reviewed; every flow ends |
| OID4VP/SIOPv2 holder (`siopv2-oid4vp-op-auth`) | a state machine; sessions by id | answer an authorization request | sessions looked up, awaited and then stored | one session to an id; an answer only after consent |
| OID4VP/SIOPv2 relying party (`siopv2-oid4vp-rp-*`) | relying parties by definition; a session's request and response state | create, serve, verify, poll, delete | endpoints of one session that overlap; answers that come twice | a session's state moves forward; what is polled is what was verified |
| Key-value store (`kv-store`) | values with an expiry; two tiers | get, set, delete, has, clear | a read that writes the other tier; expiry seen late | what was set last is read; what was deleted stays so |
| OID4VCI issuer (`oid4vci-issuer*`) | issuer instances by name; sessions in the key-value store | create offers, issue | as the relying party | as the relying party |
| Digital credentials (`data-store/digitalCredential`, `credential-store`) | a table of credentials with their states, each perhaps with a parent | add, change the state, remove one or several | a state read before another is saved; removals that overlap or fail half way; a save that brings a row back | a revocation is not lost; a removal leaves no parent behind |
| Contacts, brandings, presentation definitions (`data-store`, `*-manager`) | relational tables | create, read, update, delete | check, then insert; read, then save whole | no lost update; no orphan |
| Mobile wallet: locking, links, onboarding (`mobile-wallet`) | users and a PIN in storage; the store's active user; the lock, the link held; the onboarding machine | onboard, log in, lock on idle, log out, delete, hold and hand on links | a lock in the middle of a login; a set-up or a deletion cut short; links that arrive while it is locked | the wallet is shown to its user; a link is handed on once |
| The rest: presentation exchange, link handlers, event log, EBSI, web3, formats, well-known DIDs, configuration, screens | little or none | calls to libraries and services | | |

How they meet: a link handler starts an OID4VCI or OID4VP machine by
`interpreterStartOrResume`; each transition of the machine is saved by machine
persistence; its services read and write contacts, brandings and credentials.
Issuing a credential asks the status list for a position; the status endpoint
changes it. The relying party and the issuer keep their sessions in the
key-value store or in maps of their own. `PROJECT.json` lists all components
with their sources, and the hazards, each at its line.

## 2. What is modelled

A handler is a sequence of awaited calls, and what the code does between two of
them is one step. Each call on the database is a step of its own where something
can come between it and the next that a property could tell. These pairs are one
step, because nothing that can come between them changes what they do: the find
with which `updateStatusListEntry` begins, whose result the upsert overrides; the
two finds of `getDefinitions` (2.5); TypeORM's `save`, a SELECT and then an INSERT
or UPDATE, for brandings, contacts and digital credentials (2.4, 2.8). For the
machine states (2.2) the two halves of `save` are steps. Formats, messages, tenants, HTTP and cryptography are
left out. Operators whose comment begins with "A slip" are not part of the
model: they are mistakes that could be made in the operator that follows, and
each property is known to fail when its slip is put in.

### 2.1 StatusRegistry, StatusList

`StatusRegistry` is the promise: a free position is given to a credential for
good, and a status change touches one held position.

`StatusList` is the code. `entries` is the table `StatusListEntry`, `bits` the
bitstring of the published credential; the other variables belong to the
requests, one handler each, `pc` being where it is.

| actions | code |
|---|---|
| `StartIssuance`, `FindGiven`, `FindNothing`, `CheckGiven`, `Upsert`, `Answer` | `handleCredentialStatus`, `vc-status-list-issuer/src/functions.ts:39-115` |
| `DrawFree`, `DrawUsed` | `getRandomNewStatusListIndex`, `vc-status-list-issuer-drivers/src/drivers.ts:222-250` |
| `StartUpdate`, `Lookup`, `ReadList`, `RefuseItem`, `WriteEntry`, `Publish` | `updateW3CStatusEndpoint`, `vc-status-list-issuer-rest-api/src/api-functions.ts:119-187` |
| `Crash` | the process dies: handlers are forgotten, the database stays |

Points in which the model follows the code and not what one might expect:

- `if (statusListIndex)` takes position 0 from the table for no position at all,
  but "0" given by a caller for a position. So `FindGiven` excludes 0 for a
  position that was found, and `FindNothing` takes it.
- One try of the draw compares twenty random positions with the table; all of
  them may be used as soon as one is. `DrawUsed` is therefore possible when any
  position is used, not only when the list is full.
- The upsert writes over the row that is there. A caller may give a status with an
  issuance (`credentialStatusOpts.value`, `functions.ts:106`; `Values`): it goes
  into the row and nothing publishes it. Without one the row keeps its value.
  `stated` records the positions where such a status came last, which
  `LastUpdateIsPublished` leaves out.
- After the upsert the row is read again before the credential is given its
  position (`StatusListStore.ts:76`). A process that dies there has written a row
  for an issuance that was never answered; if it is row 0, the credential takes
  another position next time (`ReissueKeepsIndex` speaks of the row, therefore).
- An update of several items makes every new list from the copy it read first.
- The list's purpose plays no part: an update with status "0" clears the bit of
  a revocation list, although `docs/agent.md:438` calls revocation "a one time
  action".

`Isolation` names the environment: `"none"` is the server as it is; `"serial"`
and `"issuances"` are servers that happen to get one request, or one issuance,
at a time. They say what part of a promise depends on overlap.

### 2.2 MachineDurability, MachinePersistence

`MachineDurability` is the promise: the saved state is one the machine was in,
it moves forward, and a machine that went down comes up in the saved state.

`MachinePersistence` is one instance. `ver` numbers the states of the machine by
the transitions that led to them and `count` is `_eventCounter`; `row` is the row
of `MachineState`; `queue` holds the database calls that were made and not yet
answered. A transition emits an event and does not wait for it; the handler of
the event is a chain of calls: `find`, `check`, the two halves of TypeORM's `save`,
which are a `select` and then an `insert` or an `update`, and `delete` in a final state.

| actions | code |
|---|---|
| `Transition`, `DeleteCall` | `machineStatePersistOnTransition`, `machineRegistration.ts:59-103` |
| `FindActive`, `Resume`, `ResumeGone` | `interpreterStartOrResume` and `interpreterResumeFromState`, `machineRegistration.ts:165-215, 321-328`; `machineStateInit`, `MachineStatePersistence.ts:122-134` |
| `Find`, `Check`, `Select`, `Insert`, `Update`, `Delete` | `onEvent`, `machineStatePersist`, `MachineStatePersistence.ts:68-91, 152-182`; `persistMachineState`, `deleteMachineState`, `MachineStateStore.ts:30-51, 102-116` |
| `Crash` | the process dies |

`deployment` is `"local"` when the agent has the database itself, by one
connection that answers calls in the order they are made; and `"remote"` when
the plugin is the client of a REST agent, whose handlers overlap and outlive
a crash of this process.

- The two halves matter even with one connection. Handlers that overlap while there
  is no row all `select` none and all `insert`; the first takes the key, and the others'
  calls reject. The row then holds an earlier state, and if the machine is over,
  its last handler has died before its late delete: the row stays, to be resumed.
  `refused` records that this happened to the present state. `QuietMeansSaved` says
  both, what holds without it and what is left with it.
- An `update` of a row that was deleted since writes nothing, and the handler goes on.
  A column that `save` is given no value for keeps its own: a completion date stays.

### 2.3 MachineStart

The calls of `interpreterStartOrResume` (`machineRegistration.ts:300-409`) over a
table of the instances of one machine and tenant, with the options `stateType`,
`instanceId`, `singletonCheck`, `cleanupAllOtherInstances` and `noRegistration`;
`cleanupOnFinalState` is the choice of how a machine ends. `rows` is what the table
says of each instance, `live` the machines that run and are registered, whatever
the table says. `Elsewhere` is what running machines do meanwhile: end, expire, and
put a row back that someone deleted under them.

- With `noRegistration` a new instance is initialised, and the others cleaned up, but
  its machine writes no row. An instance that is resumed is not initialised then
  (`machineRegistration.ts:185-196`): nothing is cleaned up, whatever
  `cleanupAllOtherInstances` says, and its row is updated no more.
  `CleanCallLeavesItsOwn` leaves that call out.

- `ResumeFound` throws for a row that has an expiry date: the rows of the query
  went through JSON (`MachineStateStore.ts:139-142`), `expiresAt` is text, and
  `assertNonExpired` calls `getTime` on it (`machineRegistration.ts:149`).
- A new machine emits its first event when it starts, and the call is answered 50 ms
  later; `Persist` is the handler of that event. It may come after the answer as well
  (the last case of `Elsewhere`), and a call that meets it then is not `alone`.
- `Persist` leaves the row of a reused id as it is: its count is higher, so that
  persisting is refused, and its completion date would be carried over. A machine
  started under the id of a finished one stays stored as finished.
- An id in the call narrows the query that the singleton check relies on, and the
  check looks at `"new"` and `"existing"` only: with another id, or `"auto"`, a
  call passes although other instances are active. `SingletonStartsAlone`
  therefore speaks of calls without an id that start a machine.
- A query is answered before another call stores its instance, and a machine
  whose row was deleted puts it back with its next transition. `alone` records
  the calls that neither happened to; both properties are about those, after
  whatever overlaps came before them.

### 2.4 CredentialIssuance, ContactStore, Oid4vciHolder

`CredentialIssuance` is the promise: credentials are asked for after the grant,
kept after they were accepted, once.

`Oid4vciHolder` is the machine with the services it invokes. A *run* is an
interpreter; `st` is the machine's state, `ctx` its context, `at` the place
inside a service that awaits a database between two steps. Links start runs: an
offer a fresh one, a redirect from an authorization server one that goes on from
the saved state in `rows`, whether or not the run that saved it still lives.
`ContactStore` is what the contact screens and the services do to parties and
identities, under the constraints of the database; `brands`, `branded` and
`stored` are the branding and credential tables.

| actions | code |
|---|---|
| `OpenOffer`, `OpenRedirect` | `oid4vci-holder/src/link-handler/index.ts:46-86` |
| `Start`, `CreateCredentialsToSelectFrom`, `GetContact`, `AfterSetup`, `SelectCredentials`, `Selected`, `InvokeAuthorization`, `EnterPin`, `GoBack`, `GetCredentials`, `AfterVerification` | states, transitions and guards of `oid4vciMachine.ts:109-560` |
| `LookForContact`, `ReadContact`, `CreateContact`, `RenameContact` | the contact screen, `SSIContactAddScreen/index.tsx:75-128` |
| `FindIssuerBranding`, `AddIssuerBranding`, `FindIdentityParty`, `SaveIdentity`, `StoreCredentialBranding`, `SendNotification`, `StoreCredential` | the services of `OID4VCIHolder.ts:660-982` with the stores they call |
| `Edit` (`ReadEdited`, `WriteRenamed`, `RemoveIdentity`, `RemoveParty`), `DeleteBranding`, `DeleteCredential` | the user's own edits, `ContactStore.ts:145-195, 639-673`, `credentialService.ts:48-50` |
| `SaveState`, `Crash` | what section 2.2 models in detail, seen from here: the saved state is some state of a run, some time later |

Points in which the model follows the code:

- `addIssuerBranding` has no transition for a failure: the run is `"stuck"`.
- A service that was under way when the state was saved is not started again by
  the run that is resumed from it: also `"stuck"`.
- A redirect resumes whatever run is saved; when that run does not wait for a
  code, the code is dropped and the run goes on without it.
- Of several selected credentials all get a branding and the first is stored.
- Going back and selecting again asks for a PIN first, and a PIN then stands for
  the authorization. `NoRequestWithoutGrant` states what is left.
- `StoreCredentialBranding` looks for the branding and saves it in one step: its hash
  is unique, so that a second one is refused whoever comes first.
- `updateParty` saves the whole contact with the identities it read, so that an
  identity which was added meanwhile loses its contact (`Orphan`).

### 2.5 CredentialPresentation, PresentationDefinitions, RelyingParty, Oid4vpExchange

`CredentialPresentation` is the promise: a request is answered after consent, the
verdict comes after the answer, a request that is gone stays gone.

Three modules are composed by `EXTENDS`, each with variables of its own:

| module | code |
|---|---|
| `PresentationDefinitions`: the rows of one definition and the callers that persist versions of it, a step for each call on the store | `pdmPersistDefinition`, `pd-manager/src/agent/PDManager.ts`; `PDStore.ts` |
| `RelyingParty`: the relying party in the verifier's memory, its sessions, the calls that pages and wallets make on the REST endpoints | `SIOPv2RP.ts`, `RPInstance.ts`, `siop-api-functions.ts`, `webapp-api-functions.ts` |
| `Oid4vpExchange`: the wallet's machine with its services, links, saved states, crashes of either process, editors | `siopv2-oid4vp-op-auth` (machine, services, link handler, session), `siopv2StateNavigation.ts` |

A call is in steps: it waits for the database, for a relying party to be built,
for a verification. The part of a call before its first wait is one step with its
arrival. The session manager of the external library `did-auth-siop` keeps one
request state and one response state for each correlation id, and is modelled
from how the relying party uses it.

Points in which the model follows the code:

- Calls that find no relying party build one each; the last to finish stays, with
  a session manager of its own: requests made on another one are gone.
- A request is marked as sent after the reply that hands it out.
- The definition that is asked for is the one read when the relying party was
  built, in the version that its options name, if they name one
  (`functions.ts:107-118`); the one an answer is verified against is read for each
  answer, in the highest version, as the path of the endpoint names none
  (`siop-api-functions.ts:20-26`). `scene.version` is that option. With a version
  that is not the highest honest answers are refused though nothing changed:
  `RefusedOnlyIfChanged` names the case (`Outdated`).
- A relying party without options for the definition asks for none; it is left out.
- `isPresentationDefinitionEqual` compares the definition's id, the tenant, name,
  purpose and contents (`MappingUtils.ts:36-52`): a payload stands for all of these.
- A link resumes the one saved run of the machine whatever request that run is
  for, also when it still runs (`link-handler/index.ts:51`).
- Adding the contact fails when one of that name is there; the machine is not
  told (`siopv2StateNavigation.tsx:208`).
- Versions are sorted as text (`PDStore.ts:72`), so that 9 is the latest of 9 and
  10. An import without a version is never "equal" to what is there, so that every
  start of an agent adds a version (`agent.ts:484`); AutoIncrement for a named
  version that is not there adds that version as it is.

### 2.6 KeyValueMap, KeyValueStore

`KeyValueMap` is the promise of the interface for one key: a value is there until
it is deleted or over, and readers are told what is there.

`KeyValueStore` is a `Keyv` over the tiered adapter with its two stores, a `Map`
and the TypeORM adapter. The tiered adapter wraps a store that has the methods of
a `Map` in a `Keyv` of its own (`tiered/index.ts:31`, `isMap`), and the TypeORM
adapter has them: a row is in a wrapper with an expiry of its own in `local` and
in `remote`. `call` is where each client's call is, `late` the deletions that a
bulk read leaves behind.

| actions | code |
|---|---|
| `Set`, `Get`, `GetMany`, `GetManyAsValueData`, `Delete`, `Has` | the methods of `keyv/keyv.ts` |
| `Write`, `Remove`, `ReadLocal`, `ReadRemote`, `Fill`, `AnswerHas` | their calls on the adapter, `store-adapters/tiered/index.ts` |
| `Evict`, `EvictRemote` | what the `Keyv` around a store does about a wrapper that is over: it deletes it, in a later step, and answers that there is none |
| `Judge`, `RemoveLate` | what a reader does about an expiry, `keyv.ts` |
| `Restart` | the process stops: the `Map` and the calls are gone |

Points in which the model follows the code:

- The `Keyv` around a store reckons the expiry of its wrapper from the lifetime,
  at some time between the start of the call and its write (`Deadlines`).
- A read that the remote store answers copies the row into the local one, without
  the lifetime (the row carries its own expiry). Only a raw bulk read is told the
  wrapper's expiry, and copies the row with what is left of it; where nothing is
  left, with none (`tiered/index.ts:53`).
- A row or a wrapper found to be over is deleted in later steps, whatever was set
  meanwhile: a set that overlaps such a read loses its value.
  The README of the package says a value stays "until deleted" (`README.md:96`).
- `has` of the tiered adapter takes a promise for an answer, which is always true,
  and never asks the remote store (`tiered/index.ts:120`).
- `getManyAsValueData` hands on the wrapper's text and looks at the wrapper's
  expiry, which is none in a copy another read made.
- The TypeORM adapter is given a time of expiry and its entity has no column for
  it: the expiries that count are those in the row and in its wrapper.

### 2.7 WalletAccess

The way into the mobile wallet. Only `stored`, the users, and `pin` outlive the
process. `app` is `"left"` when the activity is gone and the process is not: the
redux store and the handlers, which are singletons, stay. What the app shows is
`Onboards` and `Authenticated`, from `walletAuthLockState`.

| actions | code |
|---|---|
| `OpenApp`, `LeaveApp`, `EndProcess` | `App.tsx:61-100`, `enable` and `disable` of `IntentHandler/index.ts`; the process dies |
| `ReceiveLink`, `HandOn` | `deepLinkHandler`, `openDeepLink`, `IntentHandler/index.ts:125-169` |
| `LockWhenIdle` | `LockingHandler/index.ts` |
| `EnterPin`, `SetActiveUser`, `Unlock`, `LoginFails` | `SSILockScreen/index.tsx:28-36`, `login`, `user.actions.ts:85-126` |
| `Logout`, `DeleteUser`, `RemoveUser` | `user.actions.ts:128-161`, `userService.ts:52-54`, `storageService.ts:73-95` |
| `NextScreen`, `Accept`, `Decline`, `SetPersonalData`, `SetPin`, `VerifyPin`, `Previous`, `SetupWallet` | states and guards of `onboardingMachine.tsx:103-207` |
| `PersistPin`, `CreateUser`, `CreateUserFails`, `LoginNewUser`, `EndSetup` | `onboardingMachineService.ts:16-84`, `navigateDone`, `onboardingStateNavigation.tsx:132-137` |

Points in which the model follows the code:

- `removeListeners` leaves the fields set, and `handleLinksForRunningApp` adds a
  listener only where the field is empty: after the app was left once, links to
  the running app arrive nowhere, until the process ends (`IntentHandler:79, 87`).
- A link that opens an app which is not locked is held until the next login: only
  `login` and an arriving link look at what is held.
- `openDeepLink` takes the link out of its field before it looks at it, and throws
  for one with an `error` parameter, to a caller that does not wait
  (`IntentHandler:156-166, 137`): such a link (`ErrorLink`) is neither handed on
  nor held any longer, and nobody is told. `LinksWait` says so of these links.
- `EnterPin` is the right PIN. A wrong one is refused on the screen
  (`SSILockScreen/index.tsx:32`) and changes nothing of the modelled state.
- Logging out by hand, and deleting the wallet, empty the store and leave
  `isLocked` as it was, so links are handed on although nobody is in.
- The set-up ends with `LOGIN_SUCCESS` however its login ended; after one that
  failed the store has a login time and no user.
- A set-up that fails has no transition (`onboardingMachine.tsx:186`): the app
  stays there until it is started again.
- Login takes the first user of the map (`authenticationService.ts:26`), which
  after a set-up or a deletion that was cut short is not the one of the last
  set-up.

### 2.8 DigitalCredentialStore

The table of credentials: `rows` holds each row, or what it last was, by its id
and in the order of creation, and `present` the ids that are there. `at` is
where a call is; `update` is what `updateCredentialState` has read; `query`,
`chain` and `affected` are the recursion of `deleteTree`; `batch` is the loop of
`crsDeleteCredentials`. `saved`, `revived` and `robbed` are history variables,
read by properties only.

| actions | code |
|---|---|
| `AddCredential`, `NewRow` | `addCredential`, `DigitalCredentialStore.ts:37-47`, with the unique `hash` of the entity; the state and the dates of the arguments are in the row (`MappingUtils.ts`), `Added` says which there may be |
| `UpdateCredentialState`, `Save` | `updateCredentialState`, its `findOne` and its `save`, `DigitalCredentialStore.ts:131-168` |
| `RemoveCredential`, `DeleteTree`, `Delete`, `RemovalFails` | `removeCredential` and `deleteTree`, `DigitalCredentialStore.ts:80-118` |
| `DeleteCredentials`, `Finish` | `crsDeleteCredentials`, `CredentialStore.ts:107-117` |

Points in which the model follows the code:

- `deleteTree` goes from a credential to its parent: removing a credential
  removes the parents above it. Its children, and other children of those
  parents, stay and have a parent that is gone.
- `save` writes every column as it was read, and TypeORM inserts the row again
  when it is gone. Only the unique hash may stop that.
- A credential that is verified after it was revoked has the state `VERIFIED` and
  keeps the date of the revocation.
- A removal that fails answers `false`, whatever it has deleted before.

## 3. What is checked

| run | asks | answer |
|---|---|---|
| `MCStatusListSerial` | one request at a time, crashes anywhere | the table and the list implement `StatusRegistry`; an answered update is what the list shows, a crash and a retry before it included, unless an issuance has stored a status of its own since |
| `MCStatusListConcurrent` | no isolation, crashes, a list that fills up | a drawn position is fresh with respect to issuances that were over; a position nobody holds is clear, also when updates overlap |
| `MCStatusListOneIssuer` | issuances in turn, an update overlapping them | no position is issued twice; re-issuing keeps the position unless the credential has row 0 |
| `MCStatusListCollision` | overlapping issuances | finds two credentials with one position |
| `MCStatusListReissue` | re-issuing, one request at a time | finds a revoked credential that is not revoked after it was issued again, at position 0 |
| `MCMachinePersistence` | both deployments, every `cleanupOnFinalState`; crashes; with `"remote"`, handlers in any order that outlive a crash | with one connection it implements `MachineDurability`, saves do not go back, and once all is quiet the row of a live machine is its state and one that is over leaves nothing to resume, unless its insert was refused, which leaves an earlier state; in both, every event is handled in the end |
| `MCMachineStart` | two calls, overlapping or not, every option and table, machines that run on meanwhile | a call that cleans up, and meets no other, leaves its own instance active and none else; the singleton check starts a machine only alone |
| `MCOid4vciHolder` | two runs over three kinds of offer, a second offer or a redirect at any moment, and one crash, edit or deletion anywhere | implements `CredentialIssuance`; no request without a grant; the contact is known at review; brandings and credentials go together; the issuer is told once; no flow hangs but where no failure is handled |
| `MCOid4vpExchange` | editors of the definition; one request opened twice in a wallet that saves its machines; two requests at once while something goes wrong; a relying party for one version | implements `CredentialPresentation`; no more answers than the user consented to; the polled status goes forward; what was accepted is reported; an honest answer is refused only after a change, or for another version than the highest; AutoIncrement is served, up to version 9 |
| `MCKeyValueStore` | two clients with every call, in turn and at once, expiries and restarts | in turn the two tiers are one map; a lone write heals what overlapping calls did; what a lone set wrote stands, and is what reads are told, whatever reads meet, until a set or a delete begins or it is over |
| `MCWalletAccess` | three set-ups, two links, the app left or ended twice, a lock at any moment | who is shown the wallet agreed to the terms, is in storage and is the user of the last set-up with its PIN, unless one was cut short; a link is handed on once, one with an error never, and links wait while the wallet is locked; without a user or a PIN there is onboarding |
| `MCDigitalCredentialStore` | three calls over two documents that may be added again, in up to four rows | a revocation keeps its date unless an older reading is saved over it; no document is there twice; removals that overlap or fail half way leave no parent behind; removing several counts what was found |

The runs that find something check a sentence of the repository's own documents
or comments against the code; `PROJECT.json` quotes it under "findings".
More disagreements are visible in the models and have no run of their own:

- overlapping updates of two credentials lose a bit in the published list
  (`LastUpdateIsPublished` without `"serial"`);
- a status given with an issuance is stored and not published
  (`LastUpdateIsPublished` without `stated`);
- with a remote deployment the handler of an earlier event can save its state over
  that of a later one (`NewerStatesStay` speaks of `"local"`), and put the row of a
  finished machine back (`QuietMeansSaved` as well);
- also with one connection, of the first states of a machine that are saved at
  the same time one is stored and the others are lost, and a machine that finishes
  so stays in the table to be resumed (`refused` in `QuietMeansSaved`);
- two overlapping calls with `singletonCheck` both start a machine
  (`SingletonStartsAlone` for calls that are not `alone`);
- `cleanupAllOtherInstances` is ignored for an instance resumed with `noRegistration`
  (`CleanCallLeavesItsOwn` leaves it out);
- removing a credential removes its parents (2.8), while `ICredentialStore.ts:73`
  says "Delete a single credentials by primary key";
- past version 9 AutoIncrement makes version 10 again and again
  (`AutoIncrementIsServed` says up to where it holds);
- the persist endpoint of `pd-manager-rest-api` calls `pdmPersistDefinitionItem`
  (`api-functions.ts:72`), a method the plugin does not have;
- a relying party whose options name a version checks the answers against another,
  the highest, and refuses them (`RefusedOnlyIfChanged` excepts it);
- `has` and `getManyAsValueData` of a tiered store do not answer as `get` does
  (2.6);
- a value that is set while a read deletes the one before it, which is over, is lost
  (`LoneSetStands` is about sets that met no other call).

### Bounds, and why they are enough

- *Status list.* Two requests of a kind are what a race takes: one reads, the
  other reads and writes, the first writes; `MCStatusListConcurrent` has two of
  each. The third issuance of `OneIssuer`
  lets a position be found, lost to 0, and found again. Two positions have 0 and
  another; three leave one free when two are held. Two tries have a first and a
  last. Two items in an update have one applied before a malformed one. A
  status given with an issuance is "1" or none in `Serial`; the other runs look at
  no status but those of updates. What these runs find to hold is proved without
  these bounds.
- *Persistence.* For each deployment `MaxVersion` bounds the states the machine
  goes through and `MaxRun` its starts. With one connection, six states and three
  runs: one that is saved, a resumed run that saves more, and a third resumed from that
  one, with up to six handlers in the queue. With remote handlers, two states and three
  runs: two handlers that overtake each other are all that a wrong order takes, and the
  crashes let them outlive a run or two.
- *Start.* Two callers race, or one follows what the other left; each may start an
  instance, and two more ids let two rows be there before the first call. The id a
  caller gives may be that of any of them, or of none.
- *Holder.* Two runs: one that starts a flow and one that starts another or goes on
  with the first. Two configurations make a choice. The three offers of
  `MCOid4vciHolder` take every transition of the machine between them. `Incidents`
  is one, wherever it falls. A state is saved only while a run is left that may
  read it. `Party` bounds how often the contact can be created again.
- *Exchange.* Four scenes, chosen in the initial state, in place of their product:
  editors alone, in every mode; one request in two runs that are saved and resumed;
  two requests and one run with an editor, a crash or a lost call; the same with one
  request and a relying party for version 8, to which an import may add version 9. An honest wallet
  is modelled, whose answers fit the definition it was asked for. One definition;
  versions are majors, around the step from one digit to two.
- *Key-value store.* One key, as no call relates two. Two clients: one to stop
  between its steps, one to do anything meanwhile. Four calls and three ticks: a row
  is set, copied, over and set again. `"inTurn"` leaves out `has` and
  `getManyAsValueData`, which answer wrongly even then, and lets a call start only
  when no deletion is left behind either. Iterators, validators and errors of the
  stores are left out.
- *Wallet.* Three set-ups: the first, one after a deletion or one that was cut
  short, and one after that. Two PINs: the right one and another; two links: one
  held and one that replaces it, one of them with an error. Two incidents: one that leaves a set-up or a
  deletion half done, or takes the listener away, and one after it. The users are
  read into the store before the app is shown, which the code does not wait for;
  the app is not left during onboarding, a login or a deletion, and nobody logs
  out during a login. Reading and writing the map of users is one step.
- *Digital credentials.* Three calls: two updates and a removal meet over one row, or
  two removals and an update over a tree. Two documents make a parent and a child, or
  one that is added again; one is added as it comes, the other revoked at once; four
  rows, two generations of both. Trees of any depth are
  covered by the proofs. No two rows are created in the same millisecond, so that the
  order of creation is that of the ids. TypeORM's `save` is one step. A failing add or update changes
  nothing and is left out; a process that dies is a call that never goes on.
- Ids, callers and requests are interchangeable where a run has `SYMMETRY`; runs
  with a liveness property have none.
- Deadlock is not checked: requests and calls are finitely many, and a behaviour
  may end when all are served.

### Fairness, and why the code justifies it

Weak fairness of a handler's next step: persistence's `Serve`, a holder's
`Service(r)`, a wallet's `Service(w)` with the verifier's part of the call it
waits for, and the marks that follow a reply. A step is the continuation of an
`await` on the database; the database answers, with a result or an error, and
the event loop then runs it. No fairness for callers, transitions of a machine,
the user, saved states, crashes, restarts and clocks. None of the actions waits
for another handler, so that weak fairness is all that is needed.

## 4. What is proved

### 4.1 Status lists

`StatusListProofs` holds seven theorems about `StatusList`, for any number of
requests, credentials and positions. Their assumptions are those on the
constants, `StatusListAssumption`, which TLC evaluates in every run of the module.

| theorem | statement | under |
|---|---|---|
| `TypeCorrect` | `TypeOK` | |
| `UnheldClear` | `UnheldIsClear` | |
| `FreshIndex` | `FreshIndexIsFresh` | |
| `IssuancesInTurnAreExclusive` | `ExclusiveIndex` | `Isolation # "none"` |
| `SerialImplementsRegistry` | `ImplementsRegistry` | `Isolation = "serial"` |
| `ReissuesKeepTheirIndex` | `ReissueKeepsIndex` | `Isolation # "none"` |
| `LastUpdatesAreShown` | `LastUpdateIsPublished` | `Isolation = "serial"` |

The argument, in the order the invariants rest on each other:

1. `TypeInv` adds to `TypeOK` what a handler knows at each of its steps: a
   position at `check` and `upsert`, a non-empty list of items before `publish`.
   Without that, `entries[idx[r]]` and `Head(todo[r])` mean nothing.
2. `Backed`: rows are never removed, a bit that is set has a row, the same is true
   of every copy an update holds, and an update that is past its lookup works on
   a position that has a row. `UnheldIsClear` alone is not inductive: an update
   publishes the copy it read long ago, and the copy must be known to be backed.
   `UpsertWrites` says what an issuance does to its row, whatever status it gives.
3. `PriorEnded`: the requests in `prior` are over, and stay so. With it, a done
   issuance in `prior` has a row, which a draw does not take: `FreshIndexIsFresh`.
4. `OneIssuance`: at most one issuance is in flight unless `Isolation` is `"none"`.
   `Owned`: the row of an issuance that has written it bears its credential, whoever updates it,
   and an issuance about to upsert was told that the position is free or its own.
   What it was told still holds because nobody else issues: `ExclusiveIndex`.
5. `Serial` and `Current`: with one request in flight, the copy an update holds is
   the published list but for the position it works on. Then every step is a step
   of `StatusRegistry` or a stutter.
6. `ReissueInv`: a credential with two rows has one of them at position 0, the one the
   code takes for none. An issuance that is about to write knows the only other row
   its credential can have, also when an issuance before it died unanswered. An
   update changes no row's credential, so that `ReissueKeepsIndex` needs the
   issuances in turn and nothing of the updates.
7. `Written` joins the two halves of an update: what it is about to publish is what it
   wrote into the row. With `Serial` and `Current` the row and the bit agree when it
   answers, and no other update of that position comes between (`Latest`). An
   issuance that comes between keeps the status, or is in `stated` afterwards.

### 4.2 The key-value store

`KeyValueStoreProofs` holds five theorems about `KeyValueStore`, for any clients,
values, lifetimes, clock and number of calls, under `KeyValueAssumption`.

| theorem | statement |
|---|---|
| `TypeAlways` | `TypeOK` |
| `InductiveInvariant` | `IInv`, on which the others rest |
| `LoneWriteHealsAlways` | `LoneWriteHeals` |
| `LoneSetStandsAlways` | `LoneSetStands` |
| `InTurnIsAMapAlways` | `InTurnIsAMap` |

That two stores agree when nothing is under way is not inductive: while a call is
under way they do not. `IInv` says what each step of a call leaves for the next:
`TypeInv` what a step has in hand; `Wrapped` that a wrapper is not over before the
row in it; `Solo` and `Lone` that a call marked `alone` is
the only one; `InTurn` that calls in turn are; `Agree` that stores nobody is
writing agree; `Written` and `Removed` that those a lone write has done hold its
row and those a lone delete has done hold none; `Judged` that a deletion decided
on a row finds that row, or one that is over. A write of the last store closes
the gap, and `LoneWriteHeals` is `Agree` with nobody at work. `Standing` is about
the time after a lone set, where calls may meet: while its row is not over it is
the only one in the local store and in any reader's hands, and no deletion is
under way. It is established by `Written` and `Solo` at the set's last write and
kept because no reader finds a row over that is not, by `Wrapped`; `LoneSetStands`
is `Standing` at each step. `InTurnIsAMap` goes through the actions: what a reader
is told is what `remote` holds, as what it read was.

### 4.3 The OID4VCI holder

`Oid4vciHolderProofs` holds six theorems about `Oid4vciHolder`, for any runs,
offers, configurations, contacts and number of incidents, under `HolderAssumption`
and `ContactAssumption`.

| theorem | statement |
|---|---|
| `TypeCorrect` | `TypeOK` |
| `RequestsAreGranted` | `NoRequestWithoutGrant` |
| `HolderImplementsIssuance` | `ImplementsIssuance` |
| `IssuerIsToldOnce` | `BrandedToldOnce` |
| `BrandingsFollow` | `BrandingFollowsCredential` |
| `ReviewersKnowTheIssuer` | `ReviewKnowsIssuer` |

1. `TypeInv`: what a machine has in its context when it is in a state, `Known`. A
   run may start from a saved row at any time, so `Known` is said of rows as well
   as of runs: a row is a copy of what some run was (`SavedRuns`), which is why the
   invariant survives any number of crashes and copies.
2. `RequestsAreGranted`: `Known` says what grant a run in `getCredentials` has; the
   guards before that state give it, by every way back.
3. `IssuanceInv` adds that whatever is in hand or stored was obtained by a run that
   is past its request (`Fresh`), so that a run obtains what nobody had; that what a
   saved row has in hand some run has (`Handed`), so that resuming is allowed; and
   that one credential at most is being deleted (`OneDeleted`).
   Then every step is one of `CredentialIssuance` or a stutter.
4. `AcceptInv` is about acceptance, which several copies of a run may reach:
   `Sources` says whose credential a run holds, `StoredIsBranded` and
   `BrandingIsBlamed` what a branding stands for, `Telling` that the notification
   was sent by the run that made the branding. The branding is what makes
   acceptance happen once: whoever comes second finds it there and stops. The
   lemmas `TakesKeeps`, `Accepts` and `OthersAccept` carry this over the steps that
   accept, `Aside` over all that do not.
5. `ReviewInv` is about the contact of whoever reviews, in a run or in a saved row.
   That its context lists the issuer's identity says little of the store, where the
   contact may have been deleted. As long as nobody edits contacts none goes away,
   so the contact of every context is on file, and each identity it lists is that
   contact's or was overwritten by a later agreement to the same one (`OnFile`).
   That is `Unedited`, which the first edit gives up; the lemma `ReviewWrite` is for
   the steps that write contacts, `ReviewMove` for the others.

### 4.4 The way into the wallet

`WalletAccessProofs` holds four theorems about `WalletAccess`, for any links, PINs,
set-ups and number of incidents, under `AccessAssumption`.

| theorem | statement |
|---|---|
| `InductiveInvariant` | `IInv`, on which the others rest |
| `TypeCorrect` | `TypeOK` |
| `WhoIsInAlways` | `WhoIsInBelongs` |
| `LinksWaitAlways` | `LinksWait` |

What is said of a user who is in depends on all that was done before, so `IInv`
follows the way in:

1. `TypeInv` is `TypeOK` in parts: `Typed`, `Formed` and `Recorded` are plain types,
   `Peopled` says that who is in, or on the way in, is in storage and not being
   removed, `Onboarded` that an app without users or PIN has its machine. `Away` says
   that an app that is not shown is in the middle of nothing.
2. `Filled` says what every screen of the machine has behind it, whatever way back
   was taken. So a set-up starts with a PIN typed twice and both agreements.
3. `SetUp` says that the set-up has stored what it claims, and that the only login
   while the machine runs is its last step, of the user it created.
4. `Whole` is the heart of `WhoIsInBelongs`: as long as nothing was cut short there
   is one user at most, the one of the last set-up, and none while the machine runs.
   That login takes the first user of the map is then harmless (`FirstUserIsOne`).
5. `Entered` carries the lock across a login that it overtakes: the lock empties the
   store, and the login that goes on unlocks a wallet without anybody in. It takes a
   wallet that is open while someone logs in, hence one that was logged out by hand.
6. `Held` and `HandedOnce` say that what is held was sent and not handed on, that
   the last link sent is held or was handed on unless it bears an error, and that
   one with an error is never handed on.

Each part has a lemma of its own that names the parts it leans on; `EndSetupEnds`
says once what a login leaves of the machine.

### 4.5 The digital credentials

`DigitalCredentialStoreProofs` holds five theorems about `DigitalCredentialStore`,
for any documents, calls and number of rows, under `StoreAssumption`.

| theorem | statement |
|---|---|
| `InductiveInvariant` | `IInv`, on which the others rest |
| `TypeCorrect` | `TypeOK` |
| `WholeTreesAlways` | `WholeTreesGo` |
| `RevocationAlways` | `RevocationStands` |
| `CountsAlways` | `CountIsExact` |

All three safety properties hang on what a call carries from one step to a later one,
while others write:

1. `Climbing` is about a removal. What it has found leads from child to parent, and
   when it deletes, the last one found has no parent that is there (`Free`), but for
   one that an update has brought back. A removal that finds nothing at the end of
   its chain knows that much; adding makes parents only for new rows; and whoever
   deletes a row only takes parents away. So deleting from the end keeps
   `WholeTreesGo`, though other removals work on the same tree.
2. `Dated` is about an update. For each row, the date of revocation is right by all
   the states saved for it (`Standing`); for each update under way, the date it has
   read is right by those that were saved when it read, and the histories only grow.
   A revocation that a row was added with is the first of its history (`RevokedBefore`).
   A save is then right by the longer history: for a revocation before the reading
   the date was read, and one after it is excused by `RevocationStands` itself,
   which asks that what was saved later has seen it.
3. `CountInv` is about the removal of several credentials. It takes them in the order
   of their creation, the oldest first, and the parents that go with a credential are
   older than it. `Downward` and `OnCourse` say that what it deletes is older than all that
   is still in its queue, so it never takes away what it will look for; the counter,
   the one under way and the queue add up to what was found. That the queue is the
   whole selection is `CreatedInOrder`: a finite set of ids has one enumeration that
   goes up. A removal from which another call has taken a row (`robbed`) is excused,
   as in the property.

`TypeInv` adds the types, and that the chains hold ids. There is one lemma for each
action and part; `FinishEnds` and `DeleteDoes` say once what they do to a removal.

### 4.6 Machine persistence

`MachinePersistenceProofs` holds five theorems about `MachinePersistence`, for any
`MaxVersion`, `MaxRun` and `Cleanups`, under `PersistenceAssumption`.

| theorem | statement |
|---|---|
| `InductiveInvariant` | `IInv`, on which the others rest |
| `TypeCorrect` | `TypeOK`, in both deployments |
| `NewerStatesAlways` | `NewerStatesStay` |
| `QuietAlways` | `QuietMeansSaved` |
| `DurabilityImplemented` | `ImplementsDurability` |

The code compares counters so as not to store an older state over a newer one
(`MachineStateStore.ts:40-46`). With one connection the comparison never refuses: that
the calls are answered in the order they are made is enough, and this is the
argument. The queue is not ordered by transition, as the `check` of an early event
stands behind the `find` of a late one.

1. `InOrder` orders it by stage and place, an `insert` and an `update` being the same
   stage: whoever has come further, or as far and stands before, is of an earlier
   transition. The call that is served goes to the next stage and to the end, behind
   those of that stage, which are all earlier.
2. `Ahead` follows: the one that saves is at the front, so the others still to save are
   later, in counter and in state. Only the init event of a resumed machine is not,
   which has the state of the row; it is `Skipped`.
3. `Behind` bounds all of this by the machine, and `Finals` says that only the last
   event of a machine that is over is final, or deletes.
4. `Settled` says where the present state is: on its way, stored, refused, or, when the
   machine is over, stored and cleaned up. The early delete of `onDone` does no harm, as
   a save after it is followed by the late one; `Early` says where it stands.
   `Complete` says that a row that is not of the last event of a machine that is over is
   open, and `Updates` that an `update` finds its row, unless that was cleaned up: so
   a state is lost where an `insert` is refused, and nowhere else.
5. `Alone` covers crashes: nothing is under way while the machine is down, so that what a
   caller has found is still the row.

`LocalInv` is these parts, and `IInv` asks for it where `deployment` is `"local"`.
`FirstIsServed` says once what a served call does; there is a lemma for each kind of step.

### 4.7 The OID4VP exchange

`Oid4vpExchangeProofs` holds six theorems about `Oid4vpExchange`, for any requests,
runs, editors, scenes and tables, under `DefinitionAssumption`, `PartyAssumption` and
`ExchangeAssumption`.

| theorem | statement |
|---|---|
| `TypeCorrect` | `TypeOK` |
| `PollsGoForward` | `PolledForward` |
| `AnswersNeedConsent` | `AnswersAreConsented` |
| `ExchangeImplementsPresentation` | `ImplementsPresentation` |
| `RefusalsMeanChange` | `RefusedOnlyIfChanged` |
| `IncrementsAreServed` | `AutoIncrementIsServed` |

1. `TypeInv` has a part for each of the three modules that are composed.
   `EditorsInv`: the row an editor is to add is its own, and the changes made and the
   editors still at work are no more than the edits that began.
   `VerifierInv`: a call carries what it was made with, a session needs a relying
   party, which was read from what was served (`PartyIsRead`). `WalletInv`: a run
   past its start has a request that was made, in its row as in its context.
2. `Judged` is what a page can be told. While one answer at most was taken up, what
   its page was told is behind what the session knows, in the order created, sent,
   received, verdict, and at most one run's verdict is to come. A second answer sets
   the session back: this is the exception that `PolledForward` names.
3. `Owed` counts. The answers taken up, those on their way and those that a run is
   about to send (`Due`) are no more than the consents given. A run that is resumed
   comes back to before the question, as the row is saved where the machine waits;
   `Ready` says that a run at the start of a step has no call left with the verifier.
4. The refinement follows from both: `StepsAre` says that a step is one of the editors,
   of the verifier for one caller, or of one run, `CallsApart` and `WalletApart` that
   the others are left as they were. `PresentationStep` maps each to a step of
   `CredentialPresentation`, or to none.
5. `AsksInv` and `AnsweringInv` carry the definition through an exchange: what a run
   was asked for is what the relying party has while it knows the request, and an
   answer is checked against what is served unless the table changed. What a relying
   party was read from is served too, unless its version is not the highest. So an
   honest answer is refused after a change only, or where two rows have one version,
   or for that version.
6. `LoneInv`: what a persist that no other edit overlapped has read of the table is
   still there. `TextOrder` is where the bound of `AutoIncrementIsServed` comes from:
   the latest row is looked up in the order of the text, which is that of the numbers
   as long as they have one digit. The next version is then above all rows, and the
   highest is what is served (`TopIsServed`).

### 4.8 Machine start

`MachineStartProofs` holds three theorems about `MachineStart`, for any callers,
instances, options and rows there at the start, under `StartAssumption`.

| theorem | statement |
|---|---|
| `InductiveInvariant` | `IInv`, on which the others rest |
| `CleanCallsAlways` | `CleanCallLeavesItsOwn` |
| `SingletonsAlways` | `SingletonStartsAlone` |

What a call found is still true when it acts only if no other call was under way, and
`Lone` says that of the calls in `alone`. Machines that run meanwhile may end and take
their row with them, but make none active (`OthersRest`). So for such a call
`Cleaning` bounds the active rows, before the clean-up by what its query found, after
it by the instance it goes on with, or has started; `OnlyOne` says that a singleton without an id
has found none. Both are needed at every step up to the one that answers.

## 5. What is only model-checked

All liveness properties: `EveryEventIsHandled`, `FlowGoesOn`, `AcceptedIsReported` and
`PresentationGoesOn`. They rest on fairness, hence on `ENABLED`, which this prover
cannot treat. All other properties of the passing runs are proved, under the
assumptions that stand with each theorem; what the two other runs refute
(`ExclusiveIndex` for issuances that overlap, `ReissueKeepsStatus`) cannot be.

## 6. What is not modelled, and why

Of the modelled components:

- *Status lists*: creating and deleting lists and the read-only endpoints;
  verification against a fetched list; expiry of a row as a clock (it is an event
  that may happen at any time); tenants, which only narrow queries. With
  `autoCreateInstances`, `slGetStatusList` and `createStatusListFromInstance` call
  each other without end when the list does not exist (`StatusListPlugin.ts:64`):
  there is no state to model, and no list.
- *Holder*: what is in a credential, keys and signatures, `subjectIssuance`.
- *Contacts*: relationships, addresses, metadata, party types, the REST API.
- *Digital credentials*: reads, the checks on the role and keys of what is added,
  the columns that no operation looks at.
- *Exchange*: what is in a presentation, the matching of credentials, outages of
  the database. A session's own expiry belongs to the external session manager.
- *Key-value store*: namespaces, iterators, `clear`, errors of a store.
- *Wallet*: files shared with the app, biometrics, what a login loads, the rest of
  the screens; the clock of the lock (that it is over is an event that may happen
  at any time, as logging in does not restart it); added identifiers.

The components listed in `PROJECT.json` as `not_modelled` say why in their note:
thin layers over external libraries, pure conversions, configuration or user
interface.

## 7. What could come next

To prove: what a remote deployment of the persistence still guarantees of the order
of states, beyond its types; what a reader is told by `has` and `getManyAsValueData`
in turn. To model: status list creation; the issuer's instance cache and
sessions, which have the shape of the relying party's; brandings by locale.
