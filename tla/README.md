# AuthLink in TLA+

Models, model-checking runs and machine-checked proofs about AuthLink: the
gateway, the device and vault services, the tables of PostgreSQL and the
relationship tuples of OpenFGA they share, the browser's device key and the
script that prepares a local installation. Paths below are relative to the
repository; `store`, `device`, `gateway` and `vault` stand for
`crates/authlink-store/src/lib.rs`, `services/device/src/main.rs`,
`services/gateway/src/main.rs` and `services/vault/src/main.rs`; `bootstrap` and
`web` for `scripts/bootstrap-local.mjs` and `apps/web/src/device-trust.ts`.

## 1. The system

| Component | State it keeps | Operations | Talks to |
|---|---|---|---|
| gateway: sessions and login | login transactions (process memory), `session` rows or an in-memory map | `oidc_start`, `oidc_callback`, `session`, `logout`, `bootstrap_self_policy`, `policy_check` | identity provider (HTTP), store, OpenFGA |
| gateway: onboarding | the process-wide current ceremony, `onboarding_ceremony` rows | `get_onboarding`, `advance_onboarding`, `reset_onboarding` | store |
| gateway: Guardian | `guardian_decision` rows (append only) | `security_overview`, `evaluate_guardian` | guardian crate, store, OpenFGA |
| device service | none of its own; `trusted_device`, `device_challenge`, `session` rows, `owner` tuples | enrol (challenge, complete), bind (challenge, complete), list, revoke | store, OpenFGA |
| vault service | `vault_item` rows, a key ring per process (environment) | list, create, get, rotate, delete | store, OpenFGA, vault crate |
| store | the PostgreSQL tables | one SQL statement per function, one transaction (`revoke_trusted_device`) | PostgreSQL, READ COMMITTED |
| device crate | none | challenge message, key fingerprint, P-256 verification | |
| policy crate | none | `check`, `write_tuple`, `ensure_tuple` | OpenFGA (HTTP, no timeout) |
| guardian crate | none | `evaluate`: score, level, action | |
| vault crate | the key ring | encrypt, decrypt, rewrap to the active key | |
| idp crate | none | PKCE start, code exchange, userinfo | identity provider |
| web application | one device key in IndexedDB, React state | `enrollThisDevice`, `bindStoredDevice`, session polling, onboarding screens | all services |
| scripts | `.env.local` (the only copy of the vault's key ring, the OpenFGA ids) | `ensureEnv`, `bootstrapOpenFga`, start the vault from the file | OpenFGA, vault |
| desktop shell, contracts, CI, compose files | none | none with behaviour | |

The services are separate processes. They share no memory, only the database
and OpenFGA; each request is a task of its own, and nothing serialises two
requests except the row locks of single statements. There is no lock across
OpenFGA and PostgreSQL, and a task stops between any two calls when a call
fails, when its client goes away or when the process stops.

### What is hard, and what makes each part correct

* **Device service.** A completion runs up to six calls against two stores with
  no transaction around them; enrolments, binds, revocations and logouts of one
  user overlap. Correct: a challenge is used once; assurance rests on a
  signature for that session and that device; trust follows ownership;
  revocation and logout are final; a revocation ends the sessions it should;
  users do not reach each other; everyone is answered.
* **Vault.** Rotation reads an envelope, rewraps it and writes it under the key
  version it read, against deletes, other rotations and instances with other
  key rings. Correct: no plaintext is lost or replaced, deleted items stay
  deleted, an item is always readable with the ring that wrote it.
* **Onboarding.** The advance is optimistic on the step counter of one row,
  while which row is current is process memory. Correct: steps are completed in
  order, once, required ones never skipped; an accepted advance is visible.
* **Login.** State lives in process memory until the callback, then three
  upstream calls may fail between its removal and the session. Correct: one
  session at most per transaction, a session only with its identity and tuple.
* **Guardian.** Arithmetic: clamping, thresholds, monotonicity.
* **Scripts and vault configuration.** Two parsers of one key-ring string, a file
  that is truncated and rewritten twice a run, ids of a store and of a model
  that must fit each other, resets and edits around a run. Correct: the key of a
  stored item survives; after a run the vault starts; the ids belong together.
* **Browser.** Several tabs and users on one stored key and one cookie; a key
  that cannot be stored; an answer that does not say why a device was refused.
  Correct: the key of a trusted device is kept, a usable key not deleted.

`PROJECT.json` lists every component with its status, and every hazard at its
line with the properties that cover it.

## 2. Modules

| Module | Models | Depends on |
|---|---|---|
| `AuthlinkStore` | tables `session`, `trusted_device`, `device_challenge` and their statements | |
| `DeviceService` | the handlers of the device service, the gateway and the clock as its environment, the properties; implements `DeviceAssurance` | `AuthlinkStore`, `DeviceAssurance` |
| `DeviceAssurance` | what the device service promises a user: who may be bound to what, and what a revocation ends | |
| `DeviceServiceProofs` | theorems about `DeviceService` | `DeviceService`, TLAPS |
| `MCDeviceService` | instances for TLC | `DeviceService` |
| `SecretStore` | what the vault promises a user, abstractly | |
| `VaultService` | instances of the vault service, envelopes and key rings, the table `vault_item`, the rollout of keys; implements `SecretStore` | `SecretStore` |
| `VaultServiceProofs` | theorems about `VaultService` | `VaultService`, TLAPS |
| `MCVaultService` | instances for TLC | `VaultService` |
| `Ceremony` | what onboarding promises: a checklist worked through in order | |
| `Onboarding` | advance and reset on gateways with or without the database, the table `onboarding_ceremony`, restarts; implements `Ceremony` | `Ceremony` |
| `OnboardingProofs` | theorems about `Onboarding` | `Onboarding`, TLAPS |
| `MCOnboarding` | instances for TLC | `Onboarding` |
| `Guardian` | the risk score and its levels, the handler that records and answers a decision | |
| `GuardianProofs` | theorems about `Guardian` | `Guardian`, TLAPS |
| `MCGuardian` | instances for TLC | `Guardian` |
| `SignIn` | what a login promises: one session at most, for a subject who authorised it | |
| `OidcLogin` | the login of the gateway, the identity provider, the identity and session rows and the tuple; implements `SignIn` | `SignIn` |
| `OidcLoginProofs` | theorems about `OidcLogin` | `OidcLogin`, TLAPS |
| `MCOidcLogin` | instances for TLC | `OidcLogin` |
| `LocalBootstrap` | the bootstrap script, `.env.local`, OpenFGA's stores and models, the vault started from the file, the developer | |
| `LocalBootstrapProofs` | theorems about `LocalBootstrap` | `LocalBootstrap`, TLAPS |
| `MCLocalBootstrap` | instances for TLC | `LocalBootstrap` |
| `BrowserDevice` | re-binding and enrolment in the browser, against the device service at the granularity its races need | |
| `BrowserDeviceProofs` | theorems about `BrowserDevice` | `BrowserDevice`, TLAPS |
| `MCBrowserDevice` | instances for TLC | `BrowserDevice` |

The services share only the session lookup, which the vault and the Guardian
make once and before any effect, and no tables besides `session`; they are not
composed. `OidcLogin` shows what the others assume of a session when it appears:
the user has an identity row and owns it in OpenFGA (`SessionIsProvisioned`).

### AuthlinkStore

Each statement becomes the predicate of its WHERE clause and an operator for
its write. A `trusted_device` row is named by its identity and the fingerprint
of its key: `unique(identity_id, device_public_id)` makes the pair a name, and
no statement deletes a row. `trust_state` and `revoked_at` are one value, since
every statement writes them together. `expires_at` is "ahead" or "past".
`auth_strength` is not a variable: `bind_session_to_trusted_device` writes it
with `trusted_device_id`, so it is raised exactly when the session has a device.

PostgreSQL runs every statement at READ COMMITTED, and this is where the
statements differ:

* An UPDATE of one table (`consume_device_challenge`, `mark_device_trusted`)
  locks its row and re-evaluates its clause on the newest version: one step.
* `bind_session_to_trusted_device` is `UPDATE session FROM trusted_device`. The
  device row is only read, from the snapshot the statement started with; when
  the session row is locked the clause is re-evaluated on the newest *session*
  row, with the device row and `now()` of the snapshot. It is two steps,
  `BindSnapshot` and `BindRecheck`/`BindSession`. The foreign key check of the
  write takes a KEY SHARE lock on the device row, which does not conflict with
  the lock of a revocation.
* `revoke_trusted_device` is a transaction of two UPDATEs, with an await between
  each two of its calls. The first UPDATE locks the device row (`MarkRevoked`,
  `RowLocked`); nobody else sees what it wrote until the commit, so binds are
  still admitted. The second selects its rows by a snapshot (`SelectSessions`,
  `BoundSessions`), then locks them one after the other, each time evaluating its
  clause again on the newest version (`LockSession`, `SessionLocked`): a session
  that has meanwhile ended or moved to another device is left alone. The commit
  (`CommitRevoke`, `RevokeTrustedDevice`) shows the device and the sessions
  together. What is bound after the snapshot and before the commit is not among
  the rows of the second UPDATE.

### DeviceService

`req[r]` is a request slot: the operation, the next call of its handler (`pc`)
and the values the handler still needs. `tuples` is the `owner` relation of
devices in OpenFGA. A revocation keeps the rows it has selected and not locked
(`found`) and the ones it has locked (`swept`) in its slot, as the rows a
transaction has written are its own until it commits. `taken`, `evidence` and
`late` are history: who was handed a challenge, whose signature spent it, and
what was bound to a device since a revocation of it last looked.

| pc | call | action |
|---|---|---|
| idle | `authorize_identity` on arrival | `Receive...`, `RejectUnauthorized` |
| load | `load_owned_device` | `LoadOwnedDevice` |
| issue | `issue_challenge` | `IssueChallenge` |
| consume | `consume_device_challenge`, comparison of the device, verification | `ConsumeChallenge` |
| upsert | `upsert_unrevoked_device` | `UpsertDevice` |
| check_owner, write_owner | the two calls of `ensure_tuple` | `CheckOwner`, `WriteOwner` |
| trust | `mark_device_trusted` | `MarkTrusted` |
| bind, bind_locked | `bind_session_to_trusted_device` | `SelectBind`, `ApplyBind` |
| revoke | `check_device_relation`, `begin` and the first UPDATE of `revoke_trusted_device` | `MarkRevoked` |
| revoke_sessions, sweep | the second UPDATE: its snapshot, then each of its rows | `SelectSessions`, `LockSession` |
| sweep, no row left | `commit` | `CommitRevoke` |

`Fail` ends a request before any call. A call that took effect and whose answer
was lost is the call's own action followed by `Fail`. The policy check before a
database call is merged with it: owner tuples are only ever added, so a check
that passed would pass again. The relation on the user's own identity is written
before its first session (gateway:508-525, `SessionIsProvisioned` of
`OidcLogin`) and never deleted, so `authorize_identity` is the session lookup. The
environment is the gateway (`Login`, `Logout`) and the clock.

Abstractions: one tenant (a constant of the deployment); messages, keys and
signatures are model values (a signature verifies under one key; the message
names challenge, session, identity and action, and no device); display names and
platforms are left out, their 422 answers are `Fail` before the first call;
`list_devices` and the status routes only read; the bypass of OpenFGA for
development is left out.

**DeviceAssurance** is what a user sees of it: a session is open or ended and has
a device, a device is trusted or revoked, a device has signed for a session. A
bind is *admitted* while the session is active, the device trusted and the
signature there; what was admitted is made, made again, or withdrawn. A
revocation begins by settling which sessions it will end (`doomed`: the active
ones bound to the device), spares one that ends by itself or goes to another
device, and ends the others and the trust in the device in one step, or is
abandoned. Between its beginning and its end binds are still admitted and made;
after its end none is admitted, and those admitted before are all that can still
be made. The mapping takes the admitted binds to be the requests at
`bind_locked`, the revocations that have begun to be those at `sweep`, `doomed`
to be their `found` and `swept`, and the signatures to be the `evidence` of the
challenges of a session.

### VaultService

`item` is the table, `ring` the key ring each running instance was started with,
`req` the requests that are between their computation in memory and their one
write. A request is a create that has encrypted (`ReceiveCreate`) and then
inserts (`InsertItem`), or a rotation that has read the row and rewrapped its
envelope (`ReceiveRotate`) and then writes under the version it read
(`UpdateItem`). `delete_item` is one statement, `get_item` is what `Decrypts`
answers. `Fail` ends a request without its write. Requests that `authorize`
refuses have no effect and are left out.

An envelope records which key its data key is wrapped with, which data key is
wrapped, which one its payload is sealed with and the binding in its associated
data; XChaCha20-Poly1305 opens exactly what was sealed with the same key and the
same associated data. The purpose of an item is never updated and is left out of
the binding. A version names one key: the model does not cover an operator who
puts other material under a version in use. Key versions above 2^31 - 1, which
the ring accepts and the `integer` column does not, fail at the conversion of
`create_vault_item` and `update_vault_envelope`, before the statement: `Fail`.

**The operator.** Nothing in the code changes a ring: the environment gives it
(vault:109-123) and a new one needs a restart. `Redeploy` is that restart: the
instance has stopped, its requests have ended with it, and it starts with
another ring (an UPDATE of a killed instance that PostgreSQL still carries out
afterwards is assumed away). The service only checks that the active version is in
the ring; `SafeRollout` is what the operator must add: every version some active
row names is in the new ring, the new instance can open what every other one
encrypts, and the others can open what it encrypts. This is an assumption about
the operator, and it is more than `docs/spec-v3/VAULT_SECURITY_MODEL.md` asks
(no active envelope names a version that is removed): that rule alone would let
a key go while another instance still encrypts under it. The local installation,
one instance started from `.env.local`, is the operator of `LocalBootstrap`:
`VaultOpensItems` says when what it starts the vault with is enough.

### Onboarding

`row` is `completed_steps` of the table (the other columns are constants or
functions of it), `current` the `AppState.ceremony` of each gateway, `req` the
requests in progress, `ledger` a history of the advances accepted for each
ceremony. `durable` is chosen at the start and says whether PostgreSQL is
configured, so that both modes are instances of one specification.

| pc | call | action |
|---|---|---|
| idle | arrival | `ReceiveAdvance`, `ReceiveReset` |
| snapshot, load | `local_ceremony`, `load_ceremony`, then the checks of the step | `LocalCeremony`, `LoadCeremony` |
| write | `advance_ceremony`, or the comparison under the lock | `AdvanceCeremony`, `AdvanceLocal` |
| reset, install | `ensure_ceremony`, then the lock | `ResetStored`, `InstallCeremony`, `ResetLocal` |

`Restart` is a gateway that stops with its requests and starts with a ceremony
of its own, as `main` does. Ceremony ids are UUIDv7: an id is used once
(`Fresh`). The endpoints require no session, so requests are not tied to users.

A reset leaves the old row in place, and with a database an advance that read it
before the reset still succeeds on it and is answered `accepted`; the branch
without a database compares the id and refuses. `AcceptedAdvanceIsCurrent` is
therefore stated for that branch. Nothing in the repository promises it for the
other, so it is recorded as a hazard and not as a divergence.

### Guardian

`Score`, `Level` and `RequiresStepUp` are `evaluate` with the widths of the code:
the sum in `u16` (`% 65536`), its conversion to `i16`, the clamp to 0..100. A
level stands for its action. The reasons, one text per positive signal, are left
out. `live` and `bound` are the sessions as the other services change them
(`BindDevice`, `EndSession`; a bound session never loses its device).
`ReceiveEvaluate` is the handler up to the decision: reading the session is the
only access to shared state before it. `RecordDecision` is the insert and the
answer, which may be lost; `Fail` the insert that fails. Without a database no
session has a device and nothing is recorded: that mode is not modelled.

### OidcLogin

`tx` is `login_transactions`, with "gone" for a transaction that was taken,
dropped or lost; `code` the codes the provider has issued, `identity`, `owner`
and `session` the rows and tuples, `req` the callbacks and bootstraps in
progress. A login stands for a state together with its PKCE verifier, which
`begin_authorization` draws at random.

| pc | call | action |
|---|---|---|
| idle | arrival, the transaction taken out of the map | `ReceiveCallback`, `ReceiveBootstrap` |
| exchange | `exchange_code` | `ExchangeCode` |
| identity | `upsert_oidc_identity` | `UpsertIdentity` |
| check_owner, write_owner | the two calls of `ensure_tuple` | `CheckOwner`, `WriteOwner` |
| session | `create_session`, the redirect | `CreateSession` |

A callback arrives with any state a browser has been given and any code the
provider has issued: two tabs can mix them up, a page can be reloaded. The
provider redeems a code once and with the verifier its challenge was made from
(`Redeemable`, RFC 7636). `Authorize` is external: a user may follow the same
authorization URL twice, or two users may. `TransactionExpires` passes the ten
minutes; the next `retain` drops the transaction, and a callback that finds it
first is refused. `Restart` loses the transactions and the requests, since both
are process memory. `userinfo` changes nothing and is merged with the call after
it; a failure of it is `Fail`. A logout whose write fails changes nothing.

One gateway process: with several, a callback that reaches another one finds no
transaction and is refused, as after `Restart`. Not modelled: a gateway without a
database, whose sessions are process memory, and one with the OpenFGA bypass of
development.

### LocalBootstrap

`file` is `.env.local` (its ring, its active version, its OpenFGA ids), `env` the
copy the script holds in memory, `source` the content of `model.json`, `store`
and `model` the life of OpenFGA's ids, `vault` the ring and the store the running
vault was started with, `items` the keys stored items are wrapped under. `drawn`
and `mishaps` are history.

| pc | step of the script | action |
|---|---|---|
| idle | `ensureEnv`: read, fill in, replace a ring that is not valid | `ReadEnv` |
| write_env, writing_env | the first `writeFileSync`, its truncation and its write | `TruncateFile`, `WriteFile` |
| check_store, create_store | `bootstrapOpenFga`: the stored store is asked for, or a new one made | `CheckStore`, `CreateStore` |
| model, create_model | `model.json` against the hash of the last run | `ReadModel`, `CreateModel` |
| write_fga, writing_fga | the second `writeFileSync` | `TruncateFile`, `WriteFile` |
| any | a failed call, a kill, the last line | `Stop` |

The two readings of a ring are `ValidVaultKeys` (the script: digits only, versions
compared as texts, padding optional, no upper limit) and `VaultStarts` (the vault:
entries trimmed, versions parsed as `u32`, padding required, no version twice). An
entry is its number, how the number is written ("1", "01", "+1", " 1"), whether
the base64 has its padding, and its key; no string is built, and a ring is the
set of its entries, so one that repeats an entry word for word (the script takes
it, the vault does not) is left out. `FreshRing` is the
ring the script draws.

A developer adds, retires and activates keys by hand, and never removes a key
something is stored under (`Edit`); edits `model.json`; runs `just infra-reset`,
which removes the volumes first and `.env.local` after them, and may be stopped
in between (`ResetInfra`). A vault whose OpenFGA store is gone refuses every
request (`Serving`). One run of the script at a time.

What goes wrong is named in `mishaps`, so that a property can say after what a
key may be lost: a ring the vault refuses (`bad_ring`), one it accepts but that
is not written the script's way (`odd_ring`), a kill inside a write (`torn`), an
edit during a run (`overlap`), a lookup that did not find the store of the file,
because it is gone or because the call failed (`store_refused`). Every excuse is
necessary: without it TLC finds the property violated, in the run `bootstrap`
itself, or in `key_ring_promise` for `odd_ring`.

### BrowserDevice

`record` is the one key in IndexedDB, `cookie` the session of the browser,
`session`, `user` and `device` the tables as the device service has them, `flow`
the runs of `bindStoredDevice` and `enrollThisDevice` under way, in any tab. The
pc of a flow is its next await.

| pc | call of the flow | action |
|---|---|---|
| idle | a page load, the button | `PageLoad`, `Click` |
| existing, read | the two reads of the record | `ReadExisting`, `ReadStored` |
| bind_challenge, bind_complete, binding | the re-binding, with its refusals | `BindChallenge`, `BindComplete`, `Bind` |
| clear | `clearStoredDevice` after 404 or 409 | `Clear` |
| enroll_challenge, enroll_complete, trust, enroll_bind | the enrolment of a fresh key | `EnrollChallenge`, `EnrollComplete`, `Trust`, `EnrollBind` |
| write, compensate | `writeStoredDevice`, and the revocation when it fails | `Write`, `Compensate` |

A handler of the device service is one step here, or as many as it has reads and
writes another request can come between; a revocation is one step, since only
what becomes of the keys is asked here (`DeviceService` has it call by call). The
environment logs users in and out,
lets sessions expire and revokes devices from other browsers. `CallFails` is a
call that fails or an answer that is lost, `ClosePage` a tab that goes away.

What the code does that a reader may not expect, and that the mishaps stand for:
an expired challenge and a session that changed are answered 409, the same as a
device that is gone, and the key is then deleted; an enrolment goes on after its
re-binding was refused or failed, and replaces the record; the compensating
revocation ends the user's own session, which was just bound to that device, and
its failure is swallowed. In a development build React's StrictMode runs the
effects twice, which is two page loads here. `forgetLocalDeviceKey` has no caller.

## 3. Properties and runs

| Run | Instance | Properties |
|---|---|---|
| `device_races` | 1 user, 1 key, 2 sessions, 2 challenges, 2 requests | `TypeOK`, `ChallengeIsSingleUse`, `AssuranceIsProven`, `TrustedHasOwner`, `OnlyLateBindsSurvive`, `RevocationIsFinal`, `DeadSessionsStayDead`, `NoNewBindingAfterRevocation` |
| `device_users` | 2 users with 1 key, 1 session each, 2 challenges, 2 requests; 1 user with 2 keys, 1 session, 2 challenges and 2 requests, or 3 challenges and 1 request | `ChallengeProvesItsOwnDevice`, `OnlyLateBindsSurvive`, `UsersAreIsolated`, `RevocationEndsItsOwn` |
| `device_progress` | 1 user, 1 key, 1 session, 2 challenges, 2 requests, fair | `EveryRequestIsAnswered`, `ImplementsDeviceAssurance` |
| `revocation_promise` | as `device_races` | `RevokedDeviceHasNoActiveSession`, expected to fail |
| `vault_rollover` | 2 users, 2 items, 3 key versions, 2 instances, 3 requests | `TypeOK`, `EveryItemOpensEverywhere`, `RetiredKeysStayUnused`, `ImplementsSecretStore` |
| `onboarding` | 3 ceremonies of 3 steps (the first and the last required), 2 gateways with one database or none, 2 requests | `TypeOK`, `ProgressCountsAdvances`, `CompletedCeremonyIsDone`, `AcceptedAdvanceIsCurrent`, `ImplementsCeremony` |
| `guardian` | 1 session, 2 requests, 24 signals, 2 claimed credits | `TypeOK`, `RiskIsMonotone`, `CreditIsBounded`, `AnswersAreRecorded` |
| `oidc_login` | 2 logins, 3 codes, 2 subjects, 2 sessions, 3 requests | `TypeOK`, `SessionIsProvisioned`, `BootstrapFindsOwner`, `ImplementsSignIn` |
| `bootstrap` | 2 keys, versions 1 to 3 in 2 spellings (plain, with a space), with and without padding, a largest number of 2, 2 stores, 2 models, 2 contents of `model.json` | `TypeOK`, `KeysSurvive`, `VaultOpensItems`, `ModelBelongsToStore`, `ReadyVaultStarts` |
| `key_ring_promise` | 3 keys, versions 1 and 2 in 2 spellings | `ValidRingsKeepItems`, expected to fail |
| `model_promise` | 1 key, 3 stores, 3 models | `ReadyStoreHasItsModel`, expected to fail |
| `browser` | 2 users, 2 sessions, 2 keys, 2 flows | `TypeOK`, `TrustedKeysAreKept`, `UsableKeysAreNotCleared` |

The instances are small because the interactions are pairwise: two requests
race on one row, one challenge, one tuple or one session, and a third request
adds nothing the first two leave undone between them, since a slot is reused as
soon as it is answered. Two challenges give one enrolment and one bind, or two
overlapping enrolments, by one user or by two of one key, which both may write the
owner tuple.

`device_users` is three small instances in one, since the one with two of
everything is too large: its constraint `TwoUsersOrTwoKeys` keeps the states in
which two users have used one key and nothing has expired (both complete an
enrolment of it, one is revoked beside the other), those in which one session has
used two keys (enrolled on one, then on the other, while a revocation of the first
waits for its row), and those of the latter with a third challenge and one request
at a time (both keys enrolled, and a bind challenge of one presented to the
other). `ThirdIsLast` issues the challenges in one order, which is all there is to
tell them apart. Two users change places together with their sessions; the
fair run uses no symmetry. Deadlock is checked in every run. What the bounds do
not cover, the proofs do: the safety properties are theorems for every instance.

What the device properties say of a revocation: `OnlyLateBindsSurvive`, a session
that is active on a revoked device was bound to it after the second UPDATE took
its snapshot; `NoNewBindingAfterRevocation`, from the commit on nobody who reads
the device binds to it, so those sessions only become fewer;
`RevocationEndsItsOwn`, a session that moved to another device while the second
UPDATE waited for its row is left alone; `ImplementsDeviceAssurance`, these
together with what a bind rests on.

For the vault, two instances give one that is behind in the rollover; three
versions let a version be retired and come back while a request that read it is
still open; three requests let two rotations and a create overlap. The constants
are symmetric (only the tests of equality distinguish them) and no temporal
property beyond safety is checked with symmetry.

What the vault's properties say: `EveryItemOpensEverywhere`, no get of an active
item fails to decrypt, on any instance, at any moment of a rollover;
`RetiredKeysStayUnused`, once a version is neither named by an active row nor
active anywhere, no request still in progress writes it again, so a key found
unused can be removed; `ImplementsSecretStore`, seen from outside there are no
keys: a secret is absent, then readable by its owner, then deleted, and
rotations and rollovers are stutters.

For onboarding, three ceremonies give two gateways one each and one reset or
restart; three steps of which one can be skipped give the first, an inner and the
last position of a template of sixteen. `ProgressCountsAdvances`: the counter is
the number of advances answered `accepted`, so none is lost or counted twice by a
race; `CompletedCeremonyIsDone`: a ceremony shown as completed has had every
required step accepted and not skipped; `ImplementsCeremony`: those advances are
the steps of the template, in order, once each, the required ones never skipped,
on every ceremony and across gateways; `AcceptedAdvanceIsCurrent`: in memory an
advance never reaches a ceremony that a reset has replaced.

For the Guardian, the signals have sums on each side of every threshold, some by
less than the credit, and one sum above 255. Two answers are compared in every
state: `RiskIsMonotone`, worse signals never get a lower score or a weaker
action; `CreditIsBounded`, strong authentication lowers the answer by one level
at most and only for a session that was bound, whatever credit the client sends;
`AnswersAreRecorded`, an answered decision is in `guardian_decision`.

For the login, two logins are two tabs, three codes let one of them be authorised
twice, and three requests let a repeated callback, one of the other tab and a
bootstrap overlap. `ImplementsSignIn`: whatever is repeated, mixed up, lost or
half done, a login opens one session at most, for a subject who authorised that
very login. `SessionIsProvisioned`: no session without its identity row and the
tuple, whichever call failed and whatever other logins of the user did.
`BootstrapFindsOwner`: a bootstrap never reaches its write, so it cannot be
refused for a duplicate. Two logins of one new user can: both find no tuple, the
second write is refused and that login ends at `authorization_provisioning_failed`
(`WriteOwner`), its transaction and its code spent.

For the bootstrap, two keys are one in use and one a run would draw in its place;
two numbers are valid for both programs and one is too large for the vault. Of the
four spellings two are enough: one that both programs read, and one that the vault
reads only in an entry and the script nowhere. The second store is for the run
after a reset, or after a run that stopped before it had written its first; the
proofs cover any number of stores and every spelling. `KeysSurvive`: the key of a
stored item, or of one that is about to be stored, is lost after the four named
mishaps only, never by a start, a failure, a rollover, a reset or a refused store.
`VaultOpensItems`: but for the same mishaps the vault that runs, with the ring of
the file as it was when it started, opens every stored item.
`ReadyVaultStarts`: after a complete run the vault starts, but for the three things
the script does not look at. `ModelBelongsToStore`: the ids in the file fit each
other unless a lookup of the store the file named has failed.

For the browser, two flows are two tabs, or a page load beside a click; two keys
are the stored one and the one that replaces it; two sessions follow each other,
for one user or for two. `TrustedKeysAreKept`: the key of a trusted device is in
the record or in the hand of a flow, unless something named went wrong around an
enrolment or a session. `UsableKeysAreNotCleared`: the browser deletes a usable
key beside an enrolment, after an old challenge or under a changing session, and
in no other case: not after a failed call, a closed page or another user's login.

The two properties on keys exclude the mishaps they name, and so say nothing of
what an enrolment beside another flow, a lost answer, a closed page or a changing
session does to a key: the code lets those lose one, and nothing in the repository
promises otherwise.

**Fairness** (`device_progress`). Tokio polls every task whose call has been
answered and PostgreSQL answers, so the calls of a handler are weakly fair.
Waiting for the row of a device or of a session is granted in turn by
PostgreSQL's lock queue: a writer may find the row taken again and again, but not
for ever, so those calls are strongly fair. Two revocations that each hold a row
the other waits for (sessions that have moved between their devices) would be a
deadlock, which PostgreSQL's detector ends by failing one, `Fail` here; it takes
two sessions and two devices, and the run has one of each. Fairness also assumes
that OpenFGA answers: the policy client sets no timeout. Arrivals, failures,
logouts and expiries are not fair.

### Promises the code does not keep

**A revocation ends every session of its device.** `README.md:88` promises that
revoking a device revokes every active session bound to it. `revocation_promise`
finds the exception: a bind takes its snapshot while the device is trusted; the
revocation looks for its sessions without seeing this one and commits; the bind
locks the session row, rechecks only that row and writes. The session is active,
at `oidc+device-possession`, bound to a revoked device, and revoking again answers
404. The same comes of a bind that begins and ends between the second UPDATE and
the commit, since the device is trusted to all but the revocation until then.
`OnlyLateBindsSurvive` and `NoNewBindingAfterRevocation` are what holds instead:
the sessions that outlive a revocation were bound after it looked for them, by a
bind that read the device before the commit. `RevocationCompleteUnderLock` proves
the promise for every behaviour in which no revocation holds the device row from a
bind's read of it to the bind's write, so a bind that took the device row
`FOR SHARE` would close the gap.

**A valid key ring is preserved.** `README.md:25` promises it, so that starting
again does not replace the key of stored items. `key_ring_promise` finds a ring
the vault works with and the script does not recognise: an entry written after a
comma and a space. The next run replaces the ring, and the items are lost.
`KeysSurvive` says what holds instead. Reading the ring as the vault does, or
refusing to go on with a ring that is not understood, would close the gap.

Two more ways to lose a key are in the model and are the mishaps `torn` and
`overlap`, which `KeysSurvive` and `VaultOpensItems` exclude. Each run empties
`.env.local` and writes it anew, twice, so a kill in between leaves no ring and the
next run draws a fresh one (a temporary file and a rename would close the gap).
Both writes come from what the run read at its start, so a key added meanwhile is
overwritten. The two properties do not make these harmless; they say that nothing
else loses a key.

**A ready store has its model.** `model_promise` finds the store of the file
refused (volumes removed and the file kept, or one failed answer), a new store
made, and the model id of the old one kept because `model.json` did not change:
the script prints `OpenFGA ready` (bootstrap:274) with a model that store does not
have, and every check fails until the ids are removed by hand.
`ModelBelongsToStore` is what holds otherwise, and `ReadyStoresHaveTheirModel`
proves the promise for as long as no lookup of a store has failed. Clearing the
model id when a store is created would close the gap.

## 4. Proofs

`DeviceServiceProofs` proves every safety property of section 3 for all values
of the constants, from `StoreAssumption` alone (each session id has an identity;
`None` is none of the other values). No step is left unproved.

* `TypeInv` is `TypeOK` with the shape of requests: which operation is at which
  call, and that a request past its lookup works on a device of its own user.
  It is inductive by itself. `TypeCorrect`, `RevocationFinal`, `DeadSessions`,
  `NoNewBinding` and `Isolation` follow from it and from who
  writes which table (`SessionWriters`, `DeviceWriters`).
* `HandlersMoveOn`, by the same invariant: each call of a handler ends its request,
  takes it to a later call (`Rank`), or locks one of the rows a revocation has
  selected. This is the part of
  `EveryRequestIsAnswered` that no fairness can give.
* `RevokedStaysOut` makes a statement on all the future of the two action
  properties `RevocationIsFinal` and `NoNewBindingAfterRevocation`: a device that
  is revoked, with no active session and no bind that has read it, stays so.
* `RevocationInv` is `IInv` (below), `LockInv` and `SweepInv`. `LockInv`: one
  transaction holds a device row and the row is not revoked yet; no two hold a
  session row. `SweepInv`: every active session bound to a device under
  revocation is among the rows found or locked, or was bound late, and a locked
  row stays as it was written. `OnlyLateBinds` needs it all: what survives the
  commit was in none of the two sets. `EndsItsOwn` needs that what is locked is
  still bound to the device of its revocation when this commits.
* `RevocationCompleteUnderLock` takes `BindExcludesRevocation` as a hypothesis, a
  condition on behaviours that the code does not enforce: while a bind is between
  its read and its write, no revocation holds the row of its device. Its
  invariant `NoLateBind` says that nothing is bound late to a device whose
  revocation has looked, and that no bind waits with a revoked device; with
  `OnlyLateBinds` that is the promise of `README.md`.
* `ChallengeInv` relates the history to the challenge rows: a challenge was
  handed out once if it is used and never otherwise. `SingleUse` and `OwnDevice`
  follow.
* `AssuranceIsProven` and `TrustedHasOwner` are not inductive: a bind writes a
  device the handler checked several calls earlier. `HandlerInv` says what a
  handler has established by each call (the session exists, its challenge was
  spent with the key of the device, the owner tuple is there), and
  `FreshSessions` that a session not yet created has no device. `IInv`, the
  conjunction, is inductive (`InductiveInvariant`); evidence is never
  overwritten (`EvidenceKept`), which keeps what a handler has established
  while others run. TLC agrees with `IInv` on the instance of `device_races`.
* `Implements` is the refinement of `DeviceAssurance`, from `RevocationInv`: one
  revocation is under way on a device, so `doomed` is what that one has found or
  locked (`OneSweep`). One lemma per call says which abstract step it is
  (`ConsumeSigns`, `MarkTrusts`, `SelectAdmits`, `ApplyBinds`, `SelectBegins`,
  `LockSpares`, `CommitRevokes`, `FailWithdraws`, `EnvironmentSeen`), or that
  nobody sees it.

`VaultServiceProofs` proves every property of `VaultService` from
`VaultAssumption` alone. None is inductive: that an active item opens rests on
the envelopes still in memory. `IInv` adds `RingInv` (every instance can open
under the key any other encrypts under), `RequestInv` (a request holds a whole
envelope under the active key of its instance, a create has its id to itself, a
rotation an item of its own user), `RowInv` (the column names the key the
envelope is wrapped with) and `KeysKept` (no ring lacks a version an active row
names). `RingInv` and the rule that an instance stops with its requests are why
a redeployment cannot strand an envelope in memory. `RowChange` says what a step
does to the one row it writes; `RetiredKeys` and the refinement `Implements`
follow from it, the latter through `SecretsSeen` (no item of a reachable state
is lost). `StoredSecretsStay` is the user's side of it, over whole behaviours:
what a user has stored can be read from every instance until it is deleted, and
never by its owner after that (`ItemStep`: no step takes an item from its owner
or brings a deleted one back).

`OnboardingProofs` proves every property of `Onboarding` from
`OnboardingAssumption` (a template is not empty, its required steps are among its
steps, `None` is none of the other values), with and without a database.
`ProgressCountsAdvances` alone is not inductive: `AdvanceCeremony` relies on the
request having been admissible for the progress it read. `IInv` adds
`RequestInv` (a request that is about to write holds the next step of the
progress it read, of a ceremony that has begun, and skips only an optional one)
and `CurrentInv` (every gateway serves a ceremony that has begun, and in memory
one that no other gateway serves). The clause of
the write then makes the progress it read the length of the ledger, which is
what the checklist needs: `StepImplements`, then `Implements`.

What the checklist promises comes back to the program. `ChecklistStep`, about the
steps of `Ceremony` alone, keeps every ledger in the order of the template with no
required step skipped; with the exactness of the counter that is
`RequiredStepsAreDone`. `ProgressOnlyGrows` has the same two parents: a row never
loses a step, nor does a process while it serves the same ceremony.
`AdvancesAreCurrentButForResets` says how far `AcceptedAdvanceIsCurrent` holds
with a database too: in every behaviour in which no gateway turns to another
ceremony while an advance of its own has read the old one
(`NoResetUnderAdvance`, which every behaviour without such an overlap meets). The
hazard is therefore that overlap and nothing else.

`GuardianProofs` proves every property of `Guardian` for all penalties and claims
of eight bits (`GuardianAssumption`). The arithmetic is in lemmas on the
operators: `NoOverflow` (five weights and the base fit `i16`, so the widths do not
matter), `ScoreMonotone`, `LevelMonotone` (the thresholds cover 0..100, in order,
and six points cross one at most), `CreditLowers`. `IInv` says that what a request
holds or was answered is what `evaluate` computes from its signals with a
credit the server granted.

`OidcLoginProofs` proves every property of `OidcLogin` from `OidcLoginAssumption`
alone (`None` is none of the other values). `IInv` adds `RequestInv`, what a
callback or a bootstrap has established by each call (its transaction is gone,
its login was authorised by the subject it continues with, the identity, then the
tuple exist), and `LoginInv`: a login is with one request at most or has opened
its one session. `LoginInv` rests on the transaction being taken out of the map
before the first call. `SignInStep` then maps `CreateSession` to the `Open` of
`SignIn`, `Authorize` to `Authorise`, `EndSession` to `End` and all else to a stutter.
`PromiseStep`, about the steps of `SignIn` alone, then gives `OneSessionPerLogin`
and `SessionsOnlyEnd` (a session keeps its user and its login and does not come
back) of the sessions the gateway stores.

`LocalBootstrapProofs` proves the five properties of the run `bootstrap` from
`BoundsAssumption` and `NoneAssumption`. `KeysSurvive` is not inductive, since a
write replaces the file with what was read long before: `KeysInv` adds that the
memory of a run holds the keys of the file unless a mishap has happened
(`MemoryMatches`), and that a store id in use has been given out, which keeps a
running vault from serving a store that is created later (`StoresAreUsed`).
`VaultOpens` follows: the file held every needed key when the vault was started
from it, and what the vault has stored since is under its own ring. `ModelInv`
says of the memory what `ModelBelongsToStore` says of the file, but for the
content of a model about to be replaced; with `ModelKnown` (from the write of the
ids on there is one) it gives `ReadyStoresHaveTheirModel`. `ReadyVaultStarts`
rests on what a ring that is valid for the script has, and a fresh one.

`BrowserDeviceProofs` proves the three properties of `BrowserDevice` from
`BrowserAssumption` alone (`None` is none of the other values). `IInv` is `TypeOK`
and the shape of a flow at each call, and two further parts that hold until
something goes wrong. Before any overlap, old challenge or changed session
(`CalmInv`) an enrolment is alone, a challenge is answered under its own session,
and a key about to be cleared is of a revoked device. Before any mishap at all
(`QuietInv`) who enrols owns the stored key, and what an enrolment is about to
replace is of a device no longer trusted, or the enrolment will be refused.

Model-checked only: `EveryRequestIsAnswered`, since liveness under fairness is
out of the prover's reach; `HandlersMoveOn` proves the part of it that is safety.

## 5. Plan and what is left out

The parts with state of their own are done: the device service and what it
promises, the vault, onboarding, the Guardian, the login, the browser and the
bootstrap script. What could follow:

1. The start of the services: which of the database, OpenFGA and the identity
   provider each requires, and what an endpoint answers without them.
2. `BrowserDevice` on `DeviceAssurance` in place of its own account of the device
   service.

Not modelled, and why: rendering and fetch wrappers of the web application, the
desktop shell, the contracts crate and the container and CI files have no state
of their own; the rest of the bootstrap script (Rauthy, the migrations, the
waits for containers) decides nothing the modelled part depends on; the OpenFGA
bypass and the in-memory sessions of a development gateway; XChaCha20-Poly1305, P-256,
base64 and JSON are taken for what they promise;
`consent_grant`, `credential`, `audit` and `outbox` are tables no code writes.
