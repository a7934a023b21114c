# TLA+ for e-mobility (OCPI 2.2.1 roaming server)

Specifications, model-checking instances and machine-checked proofs kept beside
the TypeScript code of this repository: a NestJS application that speaks OCPI
to other parties and keeps its state in PostgreSQL through Prisma.  Paths below
are relative to the root of the repository.

Three questions drive the project.  What can go wrong between two `await`s of a
handler when other handlers, administrators, the clock or a crash come between
them?  Which promises of the documentation and of the end-to-end tests survive
that?  And which of them hold for any number of parties, tokens and requests?

## 1. The system

| component | state it keeps | operations |
|---|---|---|
| Credentials, receiver (`src/ocpi/v2_2_1/common/credentials`, `src/infrastructure/persistence/peers.repository.ts`) | `peers` (status, token B, token C, version, versions url), `peer_endpoints` | POST register, PUT rotate, DELETE unregister, GET |
| Authentication guard (`src/ocpi/common/guards/ocpi-auth.guard.ts`) | none; reads both token tables | one lookup in front of each OCPI route |
| Bootstrap tokens (`src/infrastructure/persistence/bootstrap-tokens.repository.ts`, `src/admin/bootstrap-tokens`) | `bootstrap_tokens` (expiry, used_at, used_by) | create, validate, mark used, deactivate, clean up |
| Version negotiation client (`src/ocpi/v2_2_1/versions/versions.client.ts`) | none | two HTTP GETs to the peer, 10 s timeout each |
| Token generator (`src/infrastructure/security/token-generator.ts`) | none | 32 random bytes |
| OCPI tokens (`src/domain/tokens`, `src/ocpi/v2_2_1/common/tokens`, the `cpo` and `emp` controllers) | `tokens` (the drivers' RFID and app tokens) | PUT, PATCH, GET, list, authorize |
| Locations, aggregate (`src/domain/locations`, `EmpLocationService`) | a location with its EVSEs and their connectors | PUT, PATCH, PUT of an EVSE, PUT of a connector, the methods of the aggregate |
| Locations, eMSP copy (`src/ocpi/v2_2_1/common/locations`, the `emp` controller) | `locations` (the EVSE and connector tables are never written) | PUT/PATCH of a location, PUT of an EVSE, PUT of a connector |
| Locations, CPO read side (`src/ocpi/v2_2_1/common/locations/services`, the `cpo` controller) | none; reads `locations` | GET, list by time of change |
| Sessions (`src/domain/sessions`) | an aggregate; no route or table uses it yet | start, add a charging period, update the energy, set the preferences, complete |
| Version discovery (`src/ocpi/versions`) | two maps in memory, built at start-up from the decorators of the controllers | GET versions, GET details |
| Exception filter, DTO schemas, wiring | none | error envelopes, shapes, dependency injection |

How they interact.  The guard runs in front of every OCPI controller.  With
`CREDENTIALS_TOKEN_A` it validates a bootstrap token, otherwise it looks a peer
up by its token C.  The credentials service, inside one HTTP request of a peer,
writes the `peers` row, calls the *peer's own* HTTP server twice, generates a
token, writes row and endpoints in one transaction and finally marks the
bootstrap token as used.  Administrators change `bootstrap_tokens` at any time.
The token and location services do read-modify-write over one table row (or one
tree of rows) without a transaction around the read and the write.  Nothing in
the process is shared in memory between two requests: all interference goes
through the database; the maps of version discovery are complete before the process
listens.

What is hard here:

* every handler is a sequence of awaits, so any two of them interleave, and the
  guard's decision is a value read several awaits before it is used;
* a registration waits for a server chosen by the peer, which may be slow,
  dead, or answer anything that parses;
* a handler may fail or its process may die between two writes that belong
  together (`peers` is committed, the bootstrap token is not yet marked);
* requests of one peer are applied in any order, and the reads on which a PATCH
  is based go stale;
* a token or an endpoint list is replaced while others are using it;
* a client keeps a copy of what it was listed, and learns of changes only by
  their time stamps, which are set by several layers of a tree;
* a peer reads the versions and then one of them, and the process that answers
  the second request need not be the one that answered the first.

What makes each component correct:

* credentials: a token C names one peer; a registered peer's token, version and
  endpoints come from one negotiation; a half-done rotation leaves the old
  token in force; a token that works stops working only where a rotation that
  names its party commits or a DELETE presents it; PENDING is explained;
* bootstrap tokens: refused means refused for ever, a token is spent by a
  registration and only by one, the cleanup never takes a valid token;
* OCPI tokens: an invalidated token stays invalid until its owner pushes it
  valid again; a PATCH changes what it names and nothing else;
* locations: what a request does not name is not lost on the way between row and
  aggregate, although the mapping drops columns; a request that nobody interferes
  with is one atomic change, and `last_updated` does not go back;
* the tree of a location: an id finds one child, a change anywhere below the
  location is stamped up to its top, and a client that asks for one window of
  time after the other misses none but those it overtakes between their stamp
  and their write, and creations with a stamp of the past;
* sessions: what comes after the end of a session does not touch its bill;
* version discovery: what a build has is advertised, each of it once, whatever
  the order in which it is found, and a version that is offered is detailed.

## 2. Modules

| module | what it is |
|---|---|
| `BootstrapTokens` | the `bootstrap_tokens` table: one action per SQL statement |
| `Credentials` | the four credentials routes behind the guard, composed with `BootstrapTokens`; one action per await |
| `Registration` | abstract specification: what a registration comes to, without requests and handlers; `Credentials` is shown to implement it |
| `MCCredentials` | instances of `Credentials` for TLC |
| `CredentialsProofs` | type correctness and control lemmas |
| `CredentialsSafety` | the safety theorems of `Credentials` |
| `Clock` | the clock of `new Date()`, and `Null` |
| `TokenStore` | the `tokens` table: rows, requests, how a patch is worked out, the upsert |
| `AtomicTokens` | abstract specification: a request takes effect at one moment or never |
| `Tokens` | PUT and PATCH as the service carries them out, and the authorization of a driver; over `TokenStore`, shown to implement `AtomicTokens` |
| `MCTokens` | instances of `Tokens` for TLC |
| `TokensProofs`, `TokensSerial` | the theorems about them |
| `Locations` | the eMSP's copy of the locations, down to the columns; one action per await |
| `MCLocations`, `LocationsProofs` | its instances for TLC and its theorems |
| `LocationTree` | the location aggregate with its EVSEs and connectors, the calls of the eMSP service on it, each made and later saved, and a client that polls the list in between |
| `Session` | the charging session aggregate |
| `DomainProofs` | the theorems about `LocationTree` and `Session` |
| `Versions` | the version catalog, from the start of a process to a peer's two requests |
| `VersionsProofs` | the theorems about it |
| `MCParts` | the instance of `LocationTree`, `Session` and `Versions` for TLC |

### BootstrapTokens

`boot[a]` is the row of token `a` and whether it exists; `now` is the clock in
days.  `used_at` and `used_by` are always written together, so `usedBy` alone
stands for both.  A row keeps its contents after deletion, for the properties
only.  `CreateToken`, `DeactivateToken`, `CleanupExpiredTokens` and `MarkAsUsed`
are the four statements of the repository that write; `Valid` is
`validateTokenDetailed`, strict comparison included; `Tick` moves the clock.
`MarkAsUsed` is unconditional, as `update ... where token` is, and is used by
`Credentials`, not by the administrators.

### Credentials

`peer[p]` is the `peers` row of party `p` with its `peer_endpoints`; `pc[r]` is
the await at which request `r` stands, `req[r]` what its client sent, `loc[r]`
the local variables of its handler, `issued` the tokens ever generated.  One
element of `Req` is one HTTP request and is handled at most once.

| action | code |
|---|---|
| `GuardBootstrap`, `GuardToken`, `GetCredentials` | `OcpiAuthGuard.canActivate`, one lookup; GET answers at once |
| `UpsertFromIncomingCredentials`, `UpdateFromIncomingCredentials`, `RereadPeer` | the first database calls of POST and PUT; the update and the read after it are two statements |
| `FetchVersions`, `FetchDetails` | the two HTTP calls of `negotiateWithPeer`; the generation of token C follows the second without an await |
| `SetPeerTokenForUs` | the transaction: token, version, status, endpoints, all or nothing |
| `MarkTokenAsUsed` | the last statement of POST |
| `RevokeByAuthContext` | DELETE: `updateMany` by the token of the request |
| `answered` | how each of the writes above ends: with the next await, or, done as it is, with an answer that is lost, so that the call throws |
| `CallFails` | any await throws with nothing done: database error, HTTP error, timeout |
| `Crash` | the process dies; all its handlers are lost, the database stays |
| `Administer` | the actions of `BootstrapTokens` that administrators and time take |

A peer's server is the environment.  It answers with any set of versions this
side speaks, and with any member of `Listings`: which modules it lists, and
which it lists twice.  A module listed twice violates the primary key of
`peer_endpoints`, so the transaction rolls back.  Only the origin of an
endpoint matters to the properties, so its url is represented by the server
(`creds`) and the version it was listed for.

What the model takes for granted:

* bodies of a POST that validation rejects (`credentials.controller.ts:51`) end
  before any state is touched, and are left out, as are header parsing and
  base64 decoding;
* a client presents only tokens it was answered;
* 256 random bits never repeat: `Fresh` excludes the tokens in `issued`;
* `committed` in `loc` is history, read by no action.

Nothing is taken for granted of the body of a PUT.  Its route has no validation
pipe (`credentials.controller.ts:61-65`; the global one acts on DTO classes, and
`CredentialsDto` is a type only), and the guard does not pass on whose
token it accepted, so the row that is rewritten is the one that `roles[0]` of the
body names (`peers.repository.ts:171-177`).  In the model it names any party, that
of the token or another, or `Nobody`: without a country code or a party id
`updateMany` matches every row that agrees with what is there, and the
`findUnique` after it throws.  `UpdateFromIncomingCredentials` then rewrites any
set of stored rows, each by what the body says of it, and fails.  "The party of a
request" below is what its body names; of a DELETE, the one whose row its token
was answered for.

### Registration

`registration[p]` is what both sides count on: the standing of a party, the key
it calls us with, and the version and endpoints we call it by; `granted` are the
keys given out so far.  There are three steps: `Negotiate` begins a negotiation,
of one party, or of any that have been heard of if a request names none in full,
and takes nothing away, `Grant` replaces key, version and endpoints of one party
together by what one server said, with a key nobody ever had, and `Revoke` ends the
registration of one.  `Credentials` maps to it with `RegistrationOf` (the columns of a row but the url and token B) and
`GrantedTokens` (the tokens of the handlers that committed).  A POST or PUT thus
shows as two steps or, if it fails half-way, as one; a DELETE as one step or, when
its token has been replaced meanwhile, as none; GET, guard and crashes as none.
`Negotiate` is enabled in every standing, also after `Revoke`: that is finding 2,
which the abstract specification shares.

### TokenStore, AtomicTokens, Tokens

`row[id]` is the row with the primary key `id` (party and uid) or `Null`, `now`
the clock of `new Date()`.  The columns are those the properties tell apart:
type, one `contract` for contract id and issuer, `valid`, whitelist, one optional
`text` for visual number, group id and language, and `lastUpdated`.  `Patched`
is `updateToken`: a patch that names no field, or only `valid: true`, changes
nothing, `valid: false` invalidates, and each change stamps with the clock.
`Saved` is the upsert, in which Prisma leaves out what is undefined.

| action of `Tokens` | code |
|---|---|
| `PutToken`, `PatchToken` | a request enters; PUT goes to the upsert directly |
| `FindByIdAndType` | PATCH reads the row and, without another await, works the new token out |
| `Save` | the upsert of all columns; its answer may be lost although it was done |
| `CallFails`, `Crash` | an await throws; the process dies with all its handlers |
| `Authorizations(u, ty)` | not an action: what `authorizeToken` may answer for a uid and type |

`AtomicTokens` has no handlers and no copies: `TakeEffect` replaces the row or
merges the patch into the row *of that moment*, `GiveUp` ends any number of
requests without effect.  `Tokens` maps to it with `status`, which sees of `pc`
only whether a request has been asked and is done.

Taken for granted: bodies are validated in front of the handlers (by
`ZodValidationPipe`, a library), senders' `last_updated` are not of the future,
and no text is empty.  The pipe of PUT (`cpo/tokens/tokens.controller.ts:156`) and
that of the authorization (`emp/tokens/tokens.controller.ts:144`) are bound to the
method, so that NestJS applies them to its path and query parameters as well; what
they make of those is decided before any state is read, and the model begins
behind them.

### Locations

`row[id]` is the row of a location; `loc[r]` the aggregate the handler of `r` is
going to save, `req[r]` what its client sent.  Both are dropped when the handler
is left.  The columns are of four kinds, by what the two mappings of
`location-prisma.repository.ts` do to them, one representative of each:

| field | columns | `mapPrismaToDomain` | `mapDomainToPrisma` |
|---|---|---|---|
| `base` | publish, address, city, country, coordinates, time_zone | read | written |
| `opt` | name, postal_code, state, parking_type, charging_when_closed | read | left alone if undefined |
| `blind` | related_locations, directions, opening_times, energy_mix, publish_allowed_to | **not read** | left alone if undefined |
| `facilities` | facilities | **not read** | the empty list if undefined |

| action | code |
|---|---|
| `Arrive` | a request enters the eMSP controller |
| `LocationExists` | the count in front of a PUT |
| `FindLocationById` | the read, and the change of the aggregate that follows it without an await; a PUT of a connector ends here, because no aggregate that was read has an EVSE |
| `LookUp`, `Save` | `saveLocation`: is there a row, then update or create; a create may violate `uq_location`, and an answer may be lost |
| `CallFails`, `Crash`, `Tick` | as above |

`stale` is history: the requests whose row was written since they read it.
Left out: operator, suboperator, owner and images, which are serialised with the
names of private fields; requests of one party for another's location, which end
before any state is touched; fields of a PATCH whose names differ between OCPI
and the aggregate (`time_zone`), which the code ignores.  EVSEs and connectors
are in neither mapping, so a PUT of an EVSE changes `last_updated` and
facilities and nothing else.
A location that a PUT creates bears the `last_updated` of its body, which is
taken not to be of the future.  No row is ever deleted, so the branch of `Save`
in which an update finds none is in the model and cannot be reached.

### LocationTree

`location` is what a `LocationRepository` that keeps what it is given holds; the
program's own drops the EVSEs, which `Locations` is about.  A call of the service
is two steps: it makes a location and stamps it (`emp-location.service.ts:253`,
`:286`, and the methods of the aggregate), and some awaits later the repository
writes it (`location-prisma.repository.ts:247-282`).  `call` is what has been made
and not yet saved; between the two steps the clock moves and clients ask.  Calls
do not overlap here: what comes of that is in `Locations`.

| action or operator | code |
|---|---|
| `PutLocation`, `PatchLocation`, `PutEvse`, `PutConnector` | the calls of `EmpLocationService` |
| `AddEVSE`, `UpdateEVSE`, `RemoveEVSE` | the methods of `Location`; a method that throws has no successor |
| `UpdatePublishStatus`, `RemoveEvse`, `ChangeEvse` | the methods of `Location`, `EVSE` and `Connector` that no route uses yet |
| `Makes` | what all of these do last: a new location with its stamp, in `call` |
| `Save` | `saveLocation`; or the database fails, or the process dies, before the row is written |
| `Indexed`, `ConnectorAt`, `FindEvse`, `FindConnector` | the searches, each of which takes the first match |
| `FindLocations` | the list, by its half-open window of `last_updated` |

The service looks a child up by the uid of the URL and stores that of the body,
and nothing compares the two, nor the ids within a body.  `careless` is history:
whether a caller has sent a body with another id than its URL, two children of
one id, or stamps that are newer than the parent's or than the clock.  What the
module promises of ids and stamps, it promises for the others.  PATCH is the call
as its type declares it; what becomes of the field names on the way from OCPI is
in `Locations`.

`reader` is a client that keeps a copy and asks for one window after the other;
it is not code of this repository.  Two things are history: `call.overtaken`, that
the client asked for everything up to a time after a call's stamp before the call
was saved, and `copy`, whether the client's copy is the location as it is and, if
not, why.  There are two changes such a client misses for good: one it overtook,
and a location created with a `last_updated` that lies in a window already asked
for; the latter stamp is the owner's, and kept.

### Session

`session` is the immutable aggregate its holder was last given; a call that
throws leaves it.  `ConstructSession` ends in `validate`, and so does every
`Becomes`; `Start`, `Complete`, `UpdateEnergy`, `AddChargingPeriod` and
`SetChargingPreferences` are the methods.  `bornAs` is history: a session may be
constructed as COMPLETED, without an end.  Two things the code does on purpose
or by accident are in the model as they are: energy and periods are accepted in
any status, and `CostAtEnd` takes a total cost of zero for none, because it tests
the cost for truth.  The schema (`session.aggregate.ts:17`) accepts a cost of zero, so a session that turns
out to be free keeps the cost known before; no document says which is meant, and
no property does.  Callers come with negative amounts too, which `validate`
refuses.

### Versions

A process starts with empty maps (`StartProcess`, of any build), comes to the
controllers in any order (`RegisterEndpoint`, which enters the identifier for
each of its roles), turns the registry into descriptors and listens
(`BuildEndpointMaps`), and may stop at any time.  A peer lists the versions
(`ListVersions`), chooses the highest it is offered (`Chosen`; as
`versions.client.ts:50` chooses, of a peer that runs this code), and asks for its
details (`GetVersionDetails`).  `same` is history: whether the process is of the
build that answered the first request.  What the decorators of one build say is
the constant `Controller`; `ControllerAssumption` states that no two controllers
are for the same identifier, version and role, and that none is called
"versions".

Urls are left out.  The details advertise a module "versions" under a url for
which no route exists, and `test/ocpi-versions.e2e-spec.ts:43-73` still expects
the catalog of an earlier build (2.3.0 for eMSPs, nothing for CPOs).  Neither is
a matter of state.

### Named bounds

`Req` (requests over the whole run), `Token` in `Credentials` (strings the
generator may return), `MaxTime` (the clock stops),
`MaxPeriods` and `MaxDims` (charging periods of a session, dimensions of a
period), `MaxEvses` and `MaxConnectors` (children of a location and of an EVSE),
`MaxPushed` (children in a body),
`Lifetimes` (days an administrator may
ask for), `Overlap` (`FALSE` admits a request only when none is in flight; the
specification of the code as it is has `Overlap = TRUE`).

Definitions called `Mutant...` are plausible mistakes in the code they stand
before.  No specification uses them; put in the place of the definition after
them, they make the properties fail, which shows that the properties can.

## 3. What TLC checks

| run | instance | shows |
|---|---|---|
| `credentials_overlap` | 2 parties, 3 requests, 3 tokens, 2 servers, overlapping, PUTs that name any party or none in full, failures, lost answers, crashes | types; `TokenIdentifiesPeer`, `TokenComesFromOwnCommit`, `EndpointsOfOneNegotiation`, `RegisteredIsWhole`, `PendingHasACause`, `ImplementsRegistration` (refinement of `Registration`), `AccessEndsByCommitOrDelete`, `DeleteEndsAccess` |
| `credentials_bootstrap` | 2 parties, 2 requests, 1 bootstrap token with a lifetime of a day or none, clock 0..2, overlapping | `SpentOnlyOnRegistration`, `AnsweredPostSpentToken`, `RefusedForever`, `ValidRowsStay`, and the liveness property `EveryRequestEnds` |
| `credentials_serial` | 1 party, 3 requests, 2 bootstrap tokens, 2 servers, one request at a time | `SingleUse`, `EndpointsFollowCreds`, `AnsweredTokenWorks`, `DeleteRevokes` |
| `bootstrap_single_use` | overlapping | `SingleUse` is violated |
| `revoked_token_revival` | one request at a time | `RevokedTokenStaysOut` is violated |
| `tokens_serial` | 1 token id, 2 types, 3 requests, one at a time, clock 0..1, failures, crashes | `RequestsAreAtomic` (refinement of `AtomicTokens`), `InvalidationHolds` |
| `tokens_overlap` | 2 parties with the same uid, 2 types, 2 contracts, 3 requests, overlapping | types, `IdentityOfOnePut` |
| `parts_alone` | one of three parts at a time, clock 0..2. Tree: 2 EVSE uids, 2 connector ids, up to 2 of each, 1 in a body. Session: 2 periods of 1 dimension, amounts -1..1. Versions: 6 controllers, every subset of them a build | types; `IdsIdentify`, `ParentsAreNewest`, `ChangesSurface`, `MissedOnlyIfOvertaken`; `CompletedHasEnded`, `OverIsFinal`, `PeriodEnergyNeverFalls`; `CatalogIsBuild`, `OfferedIsDetailed` |
| `tokens_revival` | 1 token id, overlapping | `InvalidationHolds` is violated |
| `locations_overlap` | 1 location, 2 values of the columns not read back, 3 requests, clock 0..1, overlapping | types, `OnlyPutsEmpty`, `BlindColumnsNotReverted`, `UndisturbedIsAtomic` |
| `locations_facilities` | 1 location, 2 requests, the clock stands still | `ProvidedFieldsOnly` is violated |
| `locations_replacement` | 1 location, 2 requests, the clock stands still | `PutReplaces` is violated |

Why the bounds are enough to be interesting.  Every property of the first run
relates at most two rows or two handlers and is broken, if at all, by a third
that comes between; two parties and three requests give each of them: two
handlers of one party race a third of the same or of another party, and a
rotation follows a registration follows a DELETE.  Three tokens let every
request generate one.  In the second run the clock passes the instant of expiry
(day 1) on both sides, because equality is where validation and cleanup could
differ.  In the third, three requests allow registration, rotation and
unregistration in sequence, and two registrations on two bootstrap tokens.
For tokens and locations a third request is what puts a
row there, or comes between the read and the write of the second; a second
location would be written independently of the first, and the theorems cover
any number.  Two values of a column are needed where one may be reverted to the
other; where there is one, presence and absence are told apart.

`parts_alone` chooses a part at the beginning and runs it by itself.  The three
share the clock and no other variable, so their product would add states and no
behaviour.  Two EVSEs with two connectors are what a search may confuse; three
instants are what a stamp below, a stamp above and a window between them need,
and a stamp, a window that overtakes it and the save;
two periods are one that is there and one that comes late.  A tree that a
careless caller has been at is not followed further (the constraint `MCCareful`):
`IdsIdentify` and `ParentsAreNewest` exempt it, and the other two properties are
proved with it.  EVSE uids and connector ids are symmetric: nothing orders them.  There
is one status, because no property reads it and every change of it shows by the
stamps.  Of the six controllers one is registered for two roles, three
pairs share an identifier, and one is for another version, so that builds differ in
what they offer.

`locations_overlap` has the empty
list as the only value of facilities, because every update erases the others:
that loss is what `locations_facilities` shows, and `UndisturbedIsAtomic` is
proved for any set of facilities, with the loss stated in `Effect`.
Deadlock is not checked where all requests have ended: the set `Req` is finite.

Fairness.  `FairSpec` assumes that the database answers
(`WF(DatabaseAnswers(r))`) and that axios gives up after its 10 s
(`WF(TimesOut(r))`, `versions.client.ts`).  It assumes nothing of clients,
administrators, crashes or the peer's server; in particular `FetchVersions` and
`FetchDetails` may never happen.  `EveryRequestEnds` needs just that.  In
`Tokens` and `Locations` fairness is again that the database answers; only the
three violating runs use it, so that their counterexamples are behaviours that
do go on.

### What fails when requests overlap

The four properties of `credentials_serial` are promises of the documentation
and of the end-to-end tests that hold one request at a time and not otherwise;
each has a short counterexample with `Overlap = TRUE`.

* `SingleUse`: two POSTs pass the guard before either marks the token.
* `AnsweredTokenWorks`: another rotation commits between a handler's
  transaction and its answer.
* `EndpointsFollowCreds`: a handler negotiates with the server it was told of,
  while another rewrites the row; endpoints of one, url and token B of the
  other.
* `DeleteRevokes`: the token is rotated between guard and `updateMany`, which
  then matches no row and reports success.  What remains true under overlap is
  `DeleteEndsAccess`: the token that asked no longer authenticates anybody.

Each of these needs an overlap of one kind only, which section 4 makes exact:
two registrations with one bootstrap token for the first, two requests of one
party for the others, by what their bodies name.  Requests of different parties do
each other no harm.

One request is enough for two more, neither of which any document rules out:

* A PUT that names another party, with a token of its sender, rotates the other's
  token, and its new one is answered to the sender (`peers.repository.ts:171`).
  So `AccessEndsByCommitOrDelete` says where a token may stop working, and is no
  promise to the party.
* A poll between the stamp of a change (`emp-location.service.ts:253`, `:286`) and
  its write (`location-prisma.repository.ts:247-282`) whose window ends after the
  stamp misses the change, and so do all later ones, because windows do not
  overlap.  `MissedOnlyIfOvertaken` says that this and a creation with a stamp of
  the past are all that is missed.

### Findings

1. *Single use* (`credentials.service.ts:55`).  `bootstrap-tokens/README.md:52`
   says the guard "Enforces single-use policy".  The guard only reads; the mark
   is written at the end and unconditionally.
2. *A revoked token works again* (`peers.repository.ts:92`).  The next
   registration of the party sets the REVOKED row to PENDING with the old token
   C still in it, and PENDING rows authenticate.
3. *A withdrawn driver's token becomes valid again* (`token.service.ts:101`).  A
   PATCH of another field that read the row before the invalidation saves all
   columns of its copy after it.  `documentation/tokens-module-flow.md:336` gives
   the invalidation by PATCH as the way to end a token.
4. *A PATCH erases facilities* (`location-prisma.repository.ts:530`).  They are
   never read from the row, and what is undefined is written as the empty list.
   `emp-location.service.ts:277` says "Apply only the provided fields".
5. *A PUT does not replace* (`emp-location.service.ts:254`).  The service keeps the
   old value of each optional field that the body of a PUT leaves out, so that an
   owner cannot remove one.  `documentation/locations-module.md:101` says "Full
   location replacement".  `Effect` of `Locations` states what the code does.

## 4. What is proved

`CredentialsSafety` proves, for every value of the constants (any sets of
parties, tokens, requests, servers; overlapping or not), every safety property
of the first two runs, the refinement of `Registration` included, and the four of
`credentials_serial` under conditions that name the overlaps that break them.  The assumptions are `BootAssumption` and `CredentialsAssumption` only:
the special values are no tokens, parties or times, lifetimes are positive,
endpoint listings are over known kinds of modules.

The argument.  The inductive invariant `Inductive` is the conjunction of

* `TypeOK` and `ControlOK`: what is known of a request at each program counter
  (its method, that it carries a token, that its party is a party);
* `HandlersOK`: the life of a token C inside its handler: issued when
  generated, shared by no other handler, committed only by a POST or PUT that
  reached its transaction.  Needed because uniqueness in the table rests on
  uniqueness among handlers that have not stored theirs yet;
* `PresentedOK`: tokens presented were granted to the presenter, without which
  nothing ties a DELETE to the row it revokes;
* `RowsOK`: token, version and endpoints of every row, whatever its status, are
  those of one committed handler.  `RegisteredIsWhole` alone is not inductive:
  a DELETE followed by a failed registration leaves a row in another status
  with the old contents, and the next step has to know them;
* `PendingHasACause`, `SpentOnlyOnRegistration`, `AnsweredPostSpentToken`,
  which are inductive relative to the rest.

Each conjunct has a step lemma (`HandlersStep`, `RowsStep`, `PendingStep`, ...)
with one case per action; `HistoryStep` and `GrantedStays` say that what a
handler did is never undone and are what the witnesses of the existential
properties survive by; `BootEvolution` says what any step can do to a bootstrap
token.  The action properties (`RotatedOutForGood`, `AccessEndsByCommitOrDelete`,
`DeleteEndsAccess`, `RefusedForever`, `ValidRowsStay`) follow from the invariant
and one more case analysis each.

*Refinement* (`HandlersImplementRegistration`).  `RegistrationStep` maps each
action: the rewriting of a row to `Negotiate` (`RewriteNegotiates`), of several parties if it was a PUT that names
none in full; the
transaction to `Grant` (`CommitGrants`), the `updateMany` of a DELETE to `Revoke`
or to a stutter (`RevokeRevokes`), all others to a stutter.  Three facts of the
invariant carry it: a token about to be stored is that of no committed handler
(`Unseen`), so that the key is new; a DELETE brings a token, and no two rows hold
the same (`OneRow`), so that `updateMany` revokes one party and not several; and
a handler's token stays as it is once committed (`GrantedSame`).

*Ends* (`RequestsOnlyAdvance`).  `Stage` numbers the awaits; every step that moves
a request moves it to a higher one.  That is the measure behind
`EveryRequestEnds`; that a step is always possible is left to TLC.

*GET* (`SelfPresentationOpensNothing`).  A row's token is that of a committed POST
or PUT and handlers share none, so the token a GET was answered with is in no row.

The properties of `credentials_serial` are proved from a condition on what is in
flight at the same time, assumed of the whole behaviour, instead of `~Overlap`:

| theorem | condition: at no time are in flight |
|---|---|
| `SingleUsePerToken` | two POSTs with one bootstrap token (`OnePerBoot`) |
| `EndpointsFollowPerParty`, `AnsweredTokenWorksPerParty`, `DeleteRevokesPerParty` | two requests of one party, where a PUT that names none in full counts as one of every party (`OnePerParty`) |

`~Overlap` implies both (`SerialInvariance`, `OneIsEnough`), and the theorems
whose names end in `WhenSerial`, about the specification TLC checks, are
corollaries.  A client meets them without knowing of others, by
waiting for one answer before it asks again and by sharing its bootstrap token
with nobody.  Since a crash ends what
was in flight, the conditions do not restrict crashes, failures or administrators.

Of a party's only request in flight, the invariant `CopiesOK` says that what it
has copied is still so: the server it negotiates with is the one in the row, and
the token it was let in with, or has committed, is that of its party's row.
`RowOwner` and `HolderIsOwner` say that a token authenticates the party it was
answered to and no other, so that a DELETE of another party never matches the
row; `RowWaits` that a row is the same until a request of its own party comes.
Each of these is what an overlapping request of the same party breaks.

`TokensProofs`: types, and `IdentityOfOnePut` with requests overlapping at will.
The invariant adds to the rows the copies in the handlers: a copy's type and
contract, too, come from one PUT, because a patch never touches them.
`HandlersWriteByUpserts`: whatever overlaps, a step of `Tokens` is one upsert of a
token that is stamped not later than now, or leaves the table alone (`StampsOK`);
what the list orders and filters by is never of the future.

`TokensSerial`: `RequestsAreAtomic` is shown step by step (`StepRefines`), under
the condition `PatchesAlone`: while a PATCH is in flight, nothing else is for the
same token.  PUTs may overlap each other, for they have no copy that can grow
stale, and requests for different tokens anything.  The invariant `ApartInv` says
of a PATCH that what it is going to save is `Patched` from the row *as it still
is*; then the upsert of that copy is the abstract merge (`SavedPatched`,
`PatchedIsMerged`).  `InvalidationLastsApart` follows from the same invariant;
`SerialRequestsAreAtomic` and `InvalidationIsLasting` are the corollaries for
`~Overlap`.  Finding 3 breaks precisely the condition.

`LocationsProofs`: the four properties of `locations_overlap`.  `LocInv` says of
a handler that saves, that what it will write to the columns not read back is
what its request names (`HandlerOK`), and, if nobody wrote the row since it was
read, that its aggregate is what its request makes of the row as it still is
(`Drafted`).  Rows bear no stamp of the future (`ClockOK`), from which it follows
that `last_updated` does not go back.  The assumptions are
`LocationsAssumption`: `Null` is none of the data.
If no two handlers of one location are between their read and their write at the
same time (`OnePerLocation`), nothing ever grows stale (`NeverStale`), and so every
request that is carried out is atomic (`ApartLocationsAreAtomic`) and the
`last_updated` of no row goes back (`StampsNeverFall`).  Without the condition it
does go back in the instance of `locations_overlap`: an aggregate is stamped when it
is changed, and written later.

`DomainProofs`: for `Session`, that the constructor's `validate` holds of every
session, and that only `complete` makes one COMPLETED (`SessionInv`); the bill's
properties are then about single steps.  `EnergyOnlyGrows` is about a
sum over a sequence, computed by a recursive function.  There is no induction over
data here, so both that the function exists (`SumExists`) and that it agrees on a
sequence and on its continuation (`SumsAgree`) are shown at the least number for
which they would fail (`Least`, from the well-ordering of the naturals); then one
period more adds its energy (`EnergyOfOneMore`), which no valid period has
negative.

For `LocationTree`, `TreeInv` says that as long as nobody was careless, ids are
unique among siblings and stamps do not grow downwards, of trees of any size; it
is the uniqueness, which no code checks on the whole, that makes the first match
the only one.  That a first match exists is `Least` again.
`OnlyOvertakenMissed` follows from two further conjuncts: a change that the client
has not got and could have had is stamped with a time it has yet to ask for
(`Ahead`), and so is what a call has made and not saved, unless the client has
overtaken it (`Stamped`).  The second is what a save turns into the first; `Ahead`
alone is not inductive once stamp and save are two steps.

`VersionsProofs`: while a process starts, each list of the registry has exactly
the identifiers of the controllers seen so far, each once (`RegistryOK`); that a
controller still unseen is not in it yet follows from `ControllerAssumption`.
What a peer was offered and told is that of the build (`PeerOK`), as long as the
build has been one.

Only model-checked: `EveryRequestEnds`, for liveness under fairness is out of
this prover's reach.  Properties of the violating runs are refuted, not proved.
`RotatedOutForGood` is proved and no longer has a run of its own, because
`ImplementsRegistration`, which has, includes it.

## 5. What is not modelled

* DTO schemas, formatting of answers, status codes of the exception filter:
  they touch no state; every exception after the guard is the outcome `failed`.
* GET of one token and of one location: they read and change nothing.  GET of
  an EVSE or a connector ends in "mapping not implemented yet".
* The pages of the two lists.  Those of the tokens cannot be asked for:
  `TokenListQuerySchema` takes numbers and no text (`token.dto.ts:65-66`), so the
  pipe in front of `emp/tokens/tokens.controller.ts:94` refuses every request that
  has an offset or a limit, although `documentation/tokens-module-flow.md:24` and
  `:114-118` promise pagination.  Those of the locations arrive as text, which Prisma
  refuses; the list without them is in `LocationTree`.
* That deactivating a bootstrap token overwrites `used_at` and `used_by` of one that
  was used (`bootstrap-tokens.repository.ts:118`), although
  `documentation/ocpi/bootstrap-tokens/registration-flow.md:262` calls that state
  terminal: `BootstrapTokens` models it, and no property is about the audit record.
* `getSupportedVersions`, `hasEndpoint`, `getEndpointUrl` of version discovery,
  statistics and the writes of `LocationService`: without a caller.
* Patterns, lengths and enumerations of strings in the DTO schemas.
* The EVSE and connector tables: nothing in the code writes them.
* `isWhitelisted`, `count` and `delete` of tokens, `updateEvse` and
  `updateConnector` of the location repository: without a caller.
* Dependency injection: `Locations` is the service with its repository, whether
  or not the modules of the application provide it.
* Token hashing and header encoding of `token-generator.ts`: not used by the
  modelled flows.
* Role and endpoint checks of `validatePartyAccess`: no credentials route uses
  them.

## 6. Plan

1. `BootstrapTokens`, `Credentials` with their runs and theorems (done).
2. `TokenStore`, `AtomicTokens`, `Tokens` with their runs and theorems (done).
3. `Locations` with its runs and theorems (done).
4. `LocationTree`, `Session`, `Versions` with their run and theorems (done).
5. The serial properties of `Credentials`, proved (done).
6. `Registration`, the refinement checked and proved; the serial properties from
   conditions on what overlaps; the energy of a session (done).
7. `Locations` with requests that are apart; `LocationTree` with stamp and save as
   two steps; `Credentials` with lost answers and PUTs that name any party (done).
   Still worth proving: for two requests for one location that overlap, which columns
   of the one the other can undo.
8. When sessions get routes and a table, their handlers, one action per await,
   over `Session`; when EVSEs get a repository that keeps them, `Locations` and
   `LocationTree` composed.
