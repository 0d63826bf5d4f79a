# A TLA+ verification of terraform-suite-identity

terraform-suite-identity is a Go library (`identity/...`) that the applications of
a suite link into their servers.  It keeps identities, organizations, role
templates, API keys, sessions, platform administrators and audit records in
Postgres, and several server processes (replicas, and different applications)
share those tables.  Almost everything hard in it is about what two transactions,
two replicas, or one replica and a crash do to each other.  This directory holds
TLA+ models of those parts, TLC configurations that check them on small instances,
and TLAPS proofs of the main properties for instances of any size.

## Inventory

| component | state | operations | what is hard | what makes it correct |
|---|---|---|---|---|
| audit outbox (`auditoutbox`) | outbox rows, destination rows | `Enqueue`, the commit trigger, the relay's `RunCycle`/`DeliverBatch`/`ship`/`prune` | two databases without a common commit; replicas; crashes between insert and mark | no guarded change without a record; one record per event; nothing dropped; nothing stuck silently |
| platform-admin carrier (`platformadmin`) | carrier rows, their locks, an advisory lock, a connection pool | `Grant`, `Revoke`, `List`, `Serialize` | the carrier and the users live in different databases; concurrent revocations and user deletions; identity outages | an administrator who exists always remains; refusals are true; nobody waits for ever |
| authority reduction (`store/authority_reduction.go`) | memberships, API keys, row locks | `RemoveMember`, `UpdateMemberRole(Template)`, `RemoveAllMembershipsForUser` | host writes of keys racing the sweep; concurrent reductions | no key outlives its authority, none is swept without need |
| role templates (`store/template_reconcile.go`, `template_write.go`) | templates, memberships, keys, a cursor | batched reconcile, update, delete | no transaction around the whole sweep; moving memberships; partial runs | mutate only after a complete sweep; exact sweep |
| OAuth state (`auth/oauthstate`) | single-use states and replay markers with expiry and capacity | `Issue`, `Consume`, `Reserve` | capacity, expiry boundary, concurrent consumption | single use; markers survive floods |
| token denylist (`store/token_repository.go`) | revoked token ids until expiry | `RevokeToken`, `IsTokenRevoked`, self-prune | prune against clock skew | revoked until expired |
| notifications (`notify`, `store/notify_dedup_repository.go`) | dedup slots, expiry claims, channels | `Notify`, the expiry job | claim and send are not one step; replicas | at most one notice, none lost silently |
| default-organization cache (`store/organization_repository.go`) | cached row, generation, TTL | read, refill, invalidate | a refill that overtakes an invalidation | never serves what was invalidated |
| OIDC configuration (`store/oidc_config_repository.go`) | configurations, one of them active | create, activate, deactivate, delete | overlapping transactions that each deactivate what they see | at most one active, and none only when asked |
| OIDC sign-in (`auth/oidc`, `store/user_repository.go`) | a browser session's nonce and verifier; accounts with their subject | begin, exchange, find or create the account | callbacks of other logins; first logins racing each other and administrators | the callback is this login's; an account keeps its subject |
| organization scopes and tenancy (`store/org_scope.go`, `tenantscope`, every scoped repository) | memberships, administrators, owned rows | resolve, then one repository call | lookups that fail or are stale; empty against unrestricted; cascades | nothing is reached that the principal was not entitled to when it was resolved |
| JWT, API keys (`auth`) | two signing secrets in atomic pointers | issue, verify, rotate | a validation between the stores of a rotation | a rotation signs nobody out |
| application credentials (`appcreds`), suite discovery (`suite`) | caches | get, refresh | concurrent refresh, stale answers | one fetch, no expired answer |
| audit retention (`store/audit_repository.go`, `audit_sweep.go`) | audit rows, legal holds | sweep | sweeps and holds that overlap; held rows at the head of a batch | a held row survives, the others go |
| schema routing and version, crypto, httpsafe, mailer, guard | none at run time | start-up checks, pure functions, I/O | - | - |

Components meet in three ways: through the rows of shared tables and their locks
(reductions, key writes and template sweeps all lock `api_keys`), through calls
inside one transaction (`Grant` and `Revoke` write an audit intent before they
commit), and through the host (which resolves users, mints keys, deletes users).
`PROJECT.json` lists every component with its status and every hazard with the
properties that would catch it.

## Modules

| module | models |
|---|---|
| `AuditTrail` | what the outbox promises: a ledger of changes, what is owed, what is recorded |
| `AuditOutbox` | the outbox, the trigger, the host's transactions and the relay replicas |
| `AuditOutboxProofs` | its theorems |
| `AdminFloor` | what the carrier promises: grant, revoke and erase never empty the floor |
| `PlatformAdmin` | the carrier with row locks, advisory lock, connection pool and resolver |
| `PlatformAdminProofs` | its theorems |
| `Scopes` | `HasScope`, `AuthorityRetained` and `RoleScopesPermittedBy` |
| `AuthorityReduction` | reductions of one principal beside the host's key writes |
| `AuthorityReductionProofs` | its theorems |
| `TemplateReconcile` | template updates and deletions with their batched sweep, beside open reductions and handlers that check and then write keys |
| `TemplateReconcileProofs` | its theorems |
| `OneTimeTokens` | what the OAuth state store promises: redeem once, for the purpose and in time; reserve once |
| `OAuthState` | `Manager` over `MemoryStore`: calls, clock, mutex, eviction, janitor, `Close` |
| `OAuthStateProofs` | its theorems |
| `OrgScope` | `store.OrgScope`: constructors, the in-memory decision, the two SQL predicates |
| `Tenancy` | `Resolver.Resolve` followed by one call of the user, organization, membership, key, audit or channel repository, beside an operator |
| `TenancyProofs` | its theorems |
| `SignIn` | `auth/oidc` and `GetOrCreateUserFromOIDC`, statement by statement, over several logins |
| `TokenManager` | signing, validation and rotation of session tokens, load by load |
| `TokenDenylist` | the denylist, its self-prune and several clocks |
| `AccessProofs` | theorems about `OrgScope`, `SignIn`, `TokenManager` and `TokenDenylist` |
| `Notifier` | `Notify` and `SendTest` over the dedup table and the channels |
| `ExpiryJob` | the API-key expiry job |
| `OidcConfig` | the transactions that switch the active configuration |
| `DefaultOrgCache` | the cached default organization |
| `AuditRetention` | retention sweeps and legal holds |
| `ServicesProofs` | theorems about these five |
| `MC*` | constants, symmetry sets and compositions for TLC |

Operators whose name extends another one's (`ClaimableIgnoringLocks`,
`LockRowUnguarded`, ...) are mutants: the same step with a plausible bug.  No
specification uses them; each is there to show that a property notices it.

### AuditOutbox

A host transaction (`txn`, `muts`, `intents`) begins, changes guarded rows, enqueues
intents and commits or rolls back, in any order and any number: the model's host may
forget an intent.  `Commit` evaluates `RequireAuditIntent`, the deferred constraint
trigger that `TriggerSpec.DDL` renders: for each changed row of a guarded operation,
each subject it touched needs an intent written by *this* transaction.  `outbox` is
the committed row of an event: absent, pending, delivered or pruned.

A relay goes through the phases of `RunCycle`: it claims the oldest pending rows that
no live transaction holds, handles them one at a time (`DeliverOK`, `DeliverFailed`;
the insert into the destination is committed at once, over another connection), and
commits its marks (`CommitBatch`).  `session` says whether the server still has the
claiming transaction: `LoseSession` ends it under a process that goes on delivering.
`DeliverFailed` includes the insert that was committed and whose answer was lost.
`Crash` covers a dead process and a panic swallowed by `safeloop.Guard`.  Times are
abstracted: the order of event ids is the order of `(occurred_at, event_id)`, and
which delivered rows are past retention is left open.

### PlatformAdmin

A handler calls grant, revoke or erase, inside `Serialize` or not.  A revocation's
lock statement takes the rows of its snapshot in order, waiting for rows another
revocation holds and dropping rows that were deleted meanwhile; then
`RequireAnotherExercisableAdmin` resolves the remaining grants one call at a time,
each of which may fail; then the delete commits.  `Serialize` holds a second
connection for its advisory lock, so the pool is part of the state.  Erasing a user
is the host's operation: it is modelled as the documentation asks the host to write
it, inside `Serialize`, with the same predicate.  `Fail` is any error, refused audit
intent, failed commit or crash.

### AuthorityReduction

One principal, its role in each organization and the API keys there.  `Reduce` is the
first statement of the transaction (the membership rows), `ReadKeys`/`LockKey` the
`SELECT ... FOR UPDATE`, `Decide` the Go loop over its rows, `Commit` the delete and
the commit.  The host checks a key write against the current role and performs it
later (`CheckKeyWrite`, then `CreateAPIKey` or `Update`), because nothing in the
library makes the two one step.  `late` is a history variable: the keys written when
no reduction could see them any more.

### TemplateReconcile

A call of `TemplateWriter` (`Write`, or `Resume` with the cursor of an unfinished one)
runs batches of a transaction each: `PlanBatch` reads the next page in keyset order,
`ReadKeys` takes the snapshot of `batchKeysQuery`, `LockKey` takes one key row at a
time as it becomes free, and `CommitBatch` judges the locked rows as they are now,
deletes and commits, and moves the cursor.  A short or empty page ends the sweep, and
then `MutateUpdate` or `MutateDelete` is the one statement that writes the template
(with the foreign key's `ON DELETE SET NULL`).  `BatchFails`, `Crash`, `Cancelled`,
`StopAtMaxBatches` and `MutateFails` are the ways not to get there.

Members move by reductions, open transactions that interleave with the sweep statement
by statement: `Reduce` writes the membership row (and keeps it locked), `RetainedScopes`
reads what the new role grants, `ReadOwnKeys` and `LockKey` are the `SELECT ... FOR
UPDATE` over the principal's keys, `CommitReduction` deletes what the new role does not
cover and makes the move visible.  Sweeps and reductions wait for each other's key rows;
`Rollback` is also how the database breaks their deadlocks.  Deleting a template writes
the memberships that name it, so `MutateDelete` waits for the reductions that have such
a row.  Keys are written by handlers of the host that check first (`CheckKeyWrite`) and
write later, in a statement with no condition on the role (`CreateAPIKey`, `Update`).

Principals are numbered in the order of `(organization_id, user_id)`.  The history
variables serve the properties.  `moved` are the principals whose role changed after
the batch's snapshot, `overtaken` the reductions whose template was rewritten after they
read it.  `late` are the keys nobody can be blamed for: written on a check that no
longer held, written or re-scoped where a sweep had been or behind an open reduction's
read, moved with their owner to where a sweep had been, or kept by an overtaken
reduction.  It is the gap that the package comment accepts, spelled out; a key that is
neither late nor covered would be a flaw of the sweep.

### OAuthState

`exp` is the store's map (0 for no entry), `ticket` the envelope stored with a state.
A goroutine's call is split where another can come between: `Issue` and `Reserve`
compute their arguments, `EnterPut` reads the time as `PutIfAbsent` does before it has
the mutex, and `PutExists`, `PutMarker`, `PutFull` and `PutState` are the outcomes of
the body under the mutex, purge and eviction included; `Consume` calls `Take` (under
the mutex) and then makes its own checks (`Check`), later.  The clock advances between
any two steps, so the two expiries of a state (the store's and the envelope's) and the
moments they are checked at differ.  A tie between nearest expiries is resolved either
way, as the map's iteration order does.  `redeemed` and `denied` record what callers
were told; `Close` ends what the markers deny.

### OrgScope and Tenancy

A scope is a record as in the code: organizations, `all`, `unowned`.  `SQL` follows the
branches of the method that renders the predicate, `NULL` included.  A request begins
with a session or a key, reads the administrators, then the memberships (each read may
fail, and a host may go on with the zero scope that an error returns), may be widened
by `WithUnowned`, and makes one repository call.  All of that takes several steps, and
between any two the operator creates and deletes users, organizations, members, keys
and channels under `OrgScopeAllOrganizations`.  A table is reduced to the owners of its rows, a
role to whether it grants the scope asked for, and a call to the set of rows its
statement selects and what it does to them, the schema's cascades included; reads that
select alike are still one definition per repository method.  `held` is a history
variable: the owners the principal was entitled to at the moment its scope was
resolved.  `strays` are the rows that the last call, made later, reached outside
`held`: for each its owners, and, if a cascade took it along, the held owners through
which the statement selected the account it hangs on.  A stray with nothing in
`through` was reached with no right at all.  `CascadeUser` is what the foreign keys do
when a user goes (memberships and keys; the denylist rows are in `TokenDenylist`).

Entitlement is what a reader of `Resolver` would expect: everything for an
administrator, the key's organization for a bound key, otherwise the organizations
where the role grants the scope.  It is computed from the tables, not from the scope.

### SignIn

A login stands for its nonce and its verifier.  The browser brings a callback any code
(`code`), the provider may ignore PKCE, may have begun a login itself or have issued
the token to another client.  `ExchangeAndVerify` makes its checks;
`GetOrCreateUserFromOIDC` is one step per statement: by subject, the profile write, by
address, the compare-and-set of `linkOIDCIdentity`, the insert and its re-reads.
Administrators invite, relink and delete accounts in between; `edited` are the accounts
they touched while a sign-in was between two statements.

### TokenManager and TokenDenylist

`RotateSecret` is a load and two stores, `Validate` two loads; `excused` are the
secrets no longer promised.  The denylist's replicas each have a clock (`Offset`); a
request reads its own clock and then the denylist, with time passing in between;
pruning is part of `RevokeToken`, at most once per interval per replica.  `cleaned`
records a host's own `CleanupExpiredRevocations`, `userGone` that the token's user was
deleted: `DeleteUserCascades` takes the denylist row with it, expired or not.

### Notifier and ExpiryJob

A notifier claims the dedup key (`ClaimWon`, `ClaimLost`, or a failure, which delivers
nevertheless), prunes (the choice of the rows, by the replica's own clock, `Skew` away
from the database's, and the delete are two steps), lists the
channels and delivers to them one after the other.  `overtaken` marks a renewal that
landed between a prune's choice and its delete.  The expiry job goes through ticks,
finds keys, claims each (a conditional update that does not look at the expiry) and then
sends.  A claim that returns an error may not have happened, may have, or may land
later (`ClaimFails`, `ClaimLands`); `missed` are the keys a claim or a mail of which
returned an error or died with its process.

### OidcConfig, DefaultOrgCache, AuditRetention

`OidcConfig` splits a switch at every row lock: the deactivation locks what its
snapshot saw, row after row, and misses what was inserted since; `IndexTaken` is the
unique partial index.  `DefaultOrgCache` has the two locks' sections of
`GetDefaultOrganization` with the query between them, and the generation that a writer
of this process bumps; `FailedWrite` is an `Update` of this process that commits
and returns an error before the invalidation, `RemoteWrite` a write of
another replica.  `AuditRetention` is one statement in two moments: `Choose` (oldest
first, below the cutoff, not under a hold in force, at most a batch) and
`DeleteChosen`.  Rows of any age are appended at any time, because the outbox's sink
writes the time an event occurred; `seen` are the rows of the statement's snapshot.

## Runs

| run | shows |
|---|---|
| `outbox_trigger` | two transactions, three events, one relay: `NoUnauditedMutation`, `NoPhantomRecord`, refinement of `AuditTrail` |
| `outbox_relay` | two replicas, four events, two of which the destination refuses, batches of two, a fault: one record per event, ship after durable, duplicates only after faults, nothing dropped; under fairness what has room in a batch is delivered, and what is stuck was tried or is behind a batch of older rows that were |
| `padmin_rowlock` | three concurrent handlers on row locks alone: `FloorNeverZero`, `RevokedRowIsThere`, `LastVerdictIsTrue` |
| `padmin_serialize` | with erasure: the carrier implements `AdminFloor`, and every call returns |
| `reduce_sweep` | two reductions and a key writer: `OnlyLateKeysStranded`, `SweepIsExact` |
| `reduce_mint` | expected violation: a key minted behind the sweep's read survives |
| `template_sweep` | pages, stops and resumptions while a reduction moves members between an ordinary and a system template: `SweepSparesOthers`, `SystemTemplatesKeepKeys`; a caller that resumes gets done |
| `template_writers` | two writers of one template, a reduction and a key handler: `OnlyLateKeysStranded`, `LockedRowsStay` |
| `template_reassign` | expected violation: a move between snapshot and lock is not seen |
| `oauth` | racing logins, callbacks and reservations at capacity one: refinement of `OneTimeTokens`, `CapacityBound` |
| `access` | `Tenancy`: `NoStrayAccess`, `DeletesDoNotRehome`; `SignIn`: `CallbackMatchesLogin`, `OneSubjectPerAccount`; `TokenManager`: `RotationKeepsTokens`; `TokenDenylist`: `RevokedStaysOut` |
| `services` | `Notifier`: `ClaimedOncePerWindow`, `EveryChannelTried`; `ExpiryJob`: `WarnedAtMostOnce`; `OidcConfig`: `SwitchIsAtomic`; `DefaultOrgCache`: `ReadYourWrites`; `AuditRetention`: `HeldRowsStay` |

`access` and `services` each check several components that share no state.  Their
product would be large and say nothing new, so `focus` picks in the initial state the
one component a behaviour moves; the others stay in one initial state of theirs.

Bounds.  Four events with batches of two, the first and the third refused, give a full
batch, a short one and a row left behind, a batch in which one refused row leaves room
for another, and two refused rows that fill every batch in front of a good one; two
batches per cycle reach the cap.  One fault in either outbox run falls anywhere, and a
lost session lets two replicas hold one row.  Three users and three handlers let two revocations see
each other's row while a third waits; with erasure added two
handlers are enough for each to wait for the other's locks, in a pool one larger than
the handlers.  Two
organizations, two templates and three keys (one of them a service key) let
reductions overlap and differ.  Two members in pages of one give a full last page and
an empty one; a cap of two batches makes a call stop and resume; the key is the second
member's, so that it is ahead of the cursor, in the page and behind it in turn.
`template_writers` has a `CONSTRAINT` (`PagesOrWriters`): where both members exist it
follows one active writer, with the reduction and the handler, over several pages, and
where only the second exists it follows two, and of the two writers, the reduction and
the handler at most three are at work at a time; all at once is out of reach, and the
proof has no such restriction.  For the OAuth store, two states, two markers and room for
one of each reach every eviction and refusal, and lifetimes of one and two over a clock
of two let an entry be alive, at its expiry and past it.

For `access`: two organizations and two users are enough for a principal with a role in
one and none in the other, a shared account and a deletion of either; one row of an
owned table at a time (`MaxRows` = 1) is enough because a call's selection of one row
does not depend on the others, and one administrator (`MaxAdmins` = 1) because each
decision is about one principal.  Of the resolver's switches `AdminsApplyToAPIKeys`
is off, as its comment recommends, and `KeyBindsOrganization` on, so that sessions take
the membership path and keys the bound one; the proof covers every setting.  Two
logins, two subjects and two addresses give every collision, and one administrator's
edit (`MaxEdits`) falls anywhere.  Three secrets and two rotators give a secret rotated
away twice and two rotations that overlap.  The token expires at 2, the verifying
replica's clock is one behind and the other's one ahead, a request takes up to 1, and
the grace of 3 is exactly the least the assumption admits; the clock runs to 7, past
everything a prune can remove.

For `services`: two notifiers, two channels, a TTL of 1 under a grace of 2 and a clock
to 3 let a key be claimed, expire, be renewed and be chosen by a prune; one fault
(`MaxFaults`) falls anywhere.  Two jobs and two keys with one upset; three
configurations and two sessions, so that a third row can be inserted between two
switches; two readers, two writers and three versions, so that a refill can be overtaken
twice, and a write of this process or of another one falls in between; three audit rows
of times 0, 1, 1 in batches of two with one hold and two sweeps, which gives held rows at
the head of a batch, a tie, a short batch and rows relayed behind a sweep's cutoff.  One
notifier's clock is one ahead of the database's, as far as the grace allows.

Symmetry is used where the permuted set only names
actors and no liveness property is checked.

Fairness.  `outbox_relay` assumes weak fairness of each relay's steps: the loop is
driven by a ticker and a supervised host restarts it; nothing is assumed of hosts or
faults, which are bounded.  `padmin_serialize` assumes strong fairness of each running
call: a call waits only for a row lock, the advisory lock or a connection, and
Postgres and `database/sql` serve their waiters in turn.  `template_sweep` assumes weak
fairness of a writer's own steps, resuming included, and strong fairness of
`PlanBatch` (the caller's context now and then outlives a batch) and of its row locks
(Postgres queues the waiters), and weak fairness of a reduction's steps: an open
transaction ends, one way or the other.  New moves, key writes and failures are free.  `services` assumes weak fairness of a notifier's own next step
(`Proceed`): a goroutine that is not waiting for anything goes on; nothing is assumed
about events, crashes or failures.

## What the expected violations say

* `reduce_mint`.  The comment of `Reducer` says that its `FOR UPDATE` read keeps a
  concurrent transaction from minting a key between the read and the delete.  Row
  locks do not stop an insert.  `OnlyLateKeysStranded` is what holds instead.
* `template_reassign`.  `ReconcileRoleTemplate`'s comment says a principal reassigned
  since the page was planned is excluded from the sweep.  The membership is re-checked
  in the statement's snapshot, but only key rows are locked: a move that commits while
  the statement waits for a key is not seen.  `SweepSparesOthers` is what holds.

## Observations

What the models show or leave out on purpose, and a reader of the code may want to
know.  None of these has a run of its own.

* `DeliverBatch` argues (relay.go:221-224) that a failing intent must not abort the
  batch, or one poisoned record would block everything behind it.  The claim
  (outbox.go:101) takes the oldest undelivered rows and does not look at `attempts`:
  poisoned rows that fill a batch block all others, which are never claimed, get no
  attempt and look freshly written.  `outbox_relay` has the case: `EventuallyRecorded`
  is about rows with fewer poisoned ones ahead than a batch holds, and `StuckIsVisible`
  says what is left for the others: a whole batch of older rows that show as failed.
* `TemplateWritten` (template_write.go:108-112) says its result is populated whenever
  the sweep ran; a batch that fails makes `ReconcileRoleTemplate` return a zero result
  (template_reconcile.go:350-352), and the count and the cursor of the batches
  committed before it are lost.
* A manager of one organization who deletes a shared account deletes its memberships
  and keys in the others as well: the user is reached through one of its owners, the
  cascades know no scope.  The comment of `DeleteUser` (user_repository.go:266-268)
  names that loss as what an unscoped delete would do; the scope confines it to accounts
  that an organization of the caller shares.  `NoStrayAccess` counts the cascaded rows
  and says exactly that.
* Deleting a user removes its rows of the denylist (migration 000001, line 95): the
  library then answers that an unexpired revoked token is not revoked.
  `RevokedStaysOut` excepts it.
* A key is stranded, and by no fault of a sweep, when its handler checked before a sweep
  or a template's write and wrote after it, or when a reduction kept it by a template
  that was narrowed before the reduction committed (`RetainedScopes` takes no lock).
  These are `late` in `OnlyLateKeysStranded`.
* `GetOrCreateUserFromOIDC` writes back a row it read earlier.  If an administrator
  relinks the account in between, the sign-in undoes it; the comment at
  user_repository.go:403-410 calls re-linking an explicit administrative action.
  `OneSubjectPerAccount` excepts such accounts.  The same path takes over an address
  the provider has not verified, for an account found by its subject.
* Two overlapping `RotateSecret` calls can lose the secret of the first, although the
  comment (jwt.go:218-220) calls it safe for concurrent use; `RotationKeepsTokens`
  excuses those secrets.
* `CleanupExpiredRevocations` has no grace, as its documentation says: under skewed
  clocks it can let a revoked token in for the difference.
* A prune that chose a dedup row deletes it although it was renewed meanwhile, and the
  next claim is granted early.  A TTL longer than `dedupPruneGrace` (a week) would not
  be honoured; `NotifierAssumption` excludes it.
* Expiry mails are claimed before they are sent: at most once, where the package
  comment (api_key_expiry.go:4-5) says exactly once across restarts.  A claim whose call
  returned an error may have committed: the key then looks warned and nobody was.  A
  claim is never taken back, so a key that is renewed is not warned of again, and it is
  not refused for a key that expired between the search and the claim.
* The comment of `OrganizationRepository.Update` (620-625) says the cache is
  invalidated either way; when the statement commits and returns an error (640-643) it is
  not, and this process serves the old organization for the rest of the TTL.
  `ReadYourWrites` is about writes that returned without one.
* Two overlapping retention sweeps choose the same rows, so a short count does not
  mean the backlog is gone; `HeldRowsStay` speaks of sweeps that met no other.  Nor does
  it mean that nothing older than the cutoff is there: the relay inserts rows with the
  time of the event (auditoutbox/sink.go:96), and one that comes late is the next
  sweep's.

## Theorems

All are proved for every value of the constants, from the named assumptions
(`OutboxAssumption`, `CarrierAssumption`, `PoolAssumption`, `ReductionAssumption`,
`ReconcileAssumption`, `StoreAssumption`, `ScopeAssumption`, `DenylistAssumption`,
`NotifierAssumption`, `RetentionAssumption`).

Some theorems state more than a run checks: which rows a claim may pass over, that
calls do not wait in a circle, that a sweep goes forward.  Their statements are
definitions of the component's module (`ClaimsPassNothingOver`, `BatchesAreBounded`,
`NoDeadlock`, `CallsGoForward`, `SweepNeverBlocks`, `HeldRowsAreStable`,
`PagesAreAhead`, `SweepGoesForward`, `OldestGoFirst`, `NoChannelSkipped`).  TLC agreed
with each of them, and with every inductive invariant, on the instances of the runs
before it was proved.

* `AuditOutboxProofs`.  `IInv` adds to the checked invariants what each step needs:
  what the trigger saw stays true (`TriggerHeld`: both its sides are frozen at
  commit), committed rows are exactly what committed transactions enqueued
  (`RowsAreCommitted`), ids of open transactions are fresh, a mark, committed or not,
  is of a durable record (`BatchShape`), and live claims are disjoint and pending
  (`LiveClaims`: this is `SKIP LOCKED`, and it is why a mark never touches a row that
  was delivered or pruned by another replica).  From it: `TypeCorrect`,
  `Accountability`, `NoPhantoms`, `RecordedOnce`, `ShipAfterDurable`, `BacklogKept`
  and the `Refinement` of `AuditTrail`.

  `RepetitionsCostFaults` needs an invariant that counts, `ShipsArePaid`.  A batch is
  orphaned when its session is gone and its process goes on: it may ship its rows
  although another replica can claim them.  For each event, the shipments it has had
  and the orphaned batches that may still ship it are together at most the number of
  faults, plus one if the event is settled, i.e. marked for good or by a live claiming
  transaction.  A healthy delivery settles the event; a lost session, a crash or a
  failed delivery unsettles it or orphans a batch, but never more than one step's
  worth, and is one more fault.

  A lemma, `LimitTakesTheOldest`, is about the operator `Oldest` on any set of ids, by
  the ranks of its elements.  It carries `BatchesStayBounded` (what a relay has claimed is at
  most `BatchSize` in all its phases) and `NothingIsPassedOver` (an empty claim means
  that every pending row is locked by a live replica, and no claim takes a row and
  leaves an older free one).
* `PlatformAdminProofs`.  The argument for the floor is that a predicate that passed
  is still true at the delete (`PassedStillTrue`): the witness row is locked by the
  revocation itself (`RowLocks`), and the witness user can only go by an erasure,
  which the advisory lock excludes (`AdvisoryExclusive`).  `Resolving` says what the
  lookups have ruled out so far.  From it: `TypeCorrect`, `NeverZero`,
  `RowStillThere`, `HonestVerdict` and the `Refinement` of `AdminFloor`.

  `WaitsAreAcyclic` (`NoDeadlock`): whenever a call is running, some running call is
  `Ready`, which spells out the guards of its next step (TLC agreed that it is
  `ENABLED ProcNext`, which the proof system cannot treat).  A call waits for a
  connection, for its advisory lock or for a row.  Rows are locked in the order of the
  statement (`LockOrder`: every row held is before every row still wanted), so of the
  calls that wait for a row the one that wants the last one waits for a call that wants
  none.  A connection is free for a call that needs one, because the pool is larger
  than the number of handlers and a call holds two only inside `Serialize`, whose
  advisory lock only one of them has (`PoolAssumption`; with a smaller pool the
  statement is false).  A row that is granted again while a statement waits is a new
  row that the statement's older snapshot does not show, and is not locked by it.
  `NothingIsRepeated` (`CallsGoForward`) is the measure: each step of a call ends it,
  brings it to a later stage or leaves it fewer rows or grants, and no other call's
  step takes that back.  Together they are the safety half of `CallsReturn`.
* `AuthorityReductionProofs`.  Once a reduction has read the keys, every key of its
  organizations is locked, still to be locked, or late (`ReadComplete`), and a
  decision made on locked rows stands (`DecisionStands`).  From it: `TypeCorrect`,
  `StrandingIsBounded`, `ExactSweep`, `ServiceKeysKept`.  `RowLocks` keeps the keys of
  two reductions apart, because the memberships they wrote are of different
  organizations, and a reduction's own wanted keys apart from those it has.  From it:
  `SweepsAreUnobstructed` (once its memberships are written a reduction waits for no
  other, and its delete finds every row it chose, so the error for a short delete is
  never returned) and `ReductionsHoldTheirRows` (what it wrote or locked is changed by
  nobody else until it ends).

  `CoverageIsTransitive` and `DelegationNeverEscalates` are about `Scopes` alone: a
  role that `RoleScopesPermittedBy` lets a caller assign grants nothing the caller does
  not hold.  Both assume that the host's table of pairs is flat (`PairsAreFlat`: no
  write scope is itself the read scope of another pair, and the wildcard is nobody's
  read scope), which is what the type's comment describes and no code checks.  With
  chained pairs both are false: `HasScope` follows one pair only.
* `TemplateReconcileProofs`.  The heart is `SweptBehind`: where a run has been (not
  `Ahead` of it, not selected), every key that is not late would survive its proposal.
  A full page keeps what is beyond its last principal ahead, a short one leaves
  nothing, so at the write it says that the new scopes cover every key that is left.
  Its counterpart for a reduction is `ReductionRead`: once it has read the keys, one of
  its principal's that it does not know of and that is not late would survive its
  judgement; with `ReductionAuthority` (what it read is still what the role grants, or
  it is overtaken) that covers the principal's keys when the move commits.
  `ReductionShape` gives an open reduction its membership row to itself, `RowLocks` keeps
  the locks of all sweeps and reductions disjoint and on live rows, `PageKeys` says whose
  the keys of a batch are and `CallShape` what a call in flight holds.  From it:
  `TypeCorrect`, `StrandingIsBounded`, `NothingVanishesUnderLock`, `SweepIsPrecise`,
  `SystemTemplatesAreSafe`.
  `PagesStayAhead` (a planned page lies beyond the committed cursor) gives
  `SweepsGoForward`: over a call and its resumptions the cursor never goes back, every
  committed batch moves it on and deletes only keys of the principals it moves over.
  Nobody is swept twice, and there are no more batches with a page than principals:
  the safety half of `SweepEnds`.
* `OAuthStateProofs`.  A state on its way into the store is minted, fresh and one
  call's (`Storing`); a state taken and not yet judged is out of the store and one
  call's (`Checking`); a marker that still denies is in the store (`MarkersHeld`).  The
  last survives a purge by an old time because that time is never ahead of the clock,
  which is why `TypeOK` says so.  From it: `TypeCorrect`, `Capacity`, `EvictionIsFair`
  (the action property `ShedsOnlyWhenFull`) and the `Refinement` of `OneTimeTokens`.

* `TenancyProofs`.  `RequestInv` carries the argument: whatever the request's scope
  selects is `held` (`ScopeHeld`).  It holds when the scope is resolved, because each
  read decides from what the principal is entitled to at that moment, and stays, because
  the scope changes only by `Widen`, and the tables do not matter to it.  `RowsHeld` takes it through
  the two SQL predicates, table by table, and `KeysOwned` (the foreign keys of
  `api_keys`) is what the cascades preserve.  From it: `NoRequestStrays` (every row
  a statement selects has a held owner, so the account whose deletion cascades has one
  too), `NothingIsRehomed`.
* `AccessProofs`.  `PredicatesAgree` and `NothingIsNotEverything` are about `OrgScope`
  alone.  `GraceIsEnough`: a pruned row was past the grace by the pruner's clock
  (`PrunedAfterGrace`) and a lookup is not older than `MaxPause` (`LookupIsYoung`), so
  the token has expired by the verifier's clock; the row goes otherwise only by the host's
  clean-up or with its user, which the statement excepts.  `CallbacksAreBound` and
  `SignInsRebindNothing` rest on what each login knows of the row it read (`RowKnown`):
  it is still so, or the account was edited.  `RotationSignsNobodyOut`: every secret
  not excused is in one of the two pointers (`SecretsKept`), and when a
  validation has failed with the current one, the token's secret is not the current one
  any more, so it is in the previous (`Refusals`, with `Undisturbed` for the rotation
  in between).
* `ServicesProofs`.  `CacheReadsOwnWrites`: a cached version is no older than the last
  announced write (`CachedIsRecent`), which the generation check at the refill
  preserves.  `OwnersWarnedOnce`: a claim is in one job's hand (`OneSender`), also when
  another one, whose call had failed, lands later.
  `DedupHoldsItsWindow`: the row in the table is the last win (`ClaimIsLastWin`), and a
  row goes only after the grace (`PrunedLate`).  `SwitchingIsAtomic`: what a
  transaction in flight has locked and will write (`TxShape`) with the index.
  `RetentionSparesHeldRows`: what a sweep has chosen and has left (`SweepShape`).
  `RetentionGoesOldestFirst`: of what a sweep could delete it left nothing older than
  what it chose among the rows it saw; what is inserted later is not among them.
  `DeliveriesAreComplete`: a notifier's list stays while it delivers, what was tried
  grows by one channel of it at a time, and it is left only when the two are equal or
  by a crash, the safety half of `EveryChannelTried`.

Only model-checked: the liveness properties (`EventuallyRecorded`, `StuckIsVisible`,
`CallsReturn`, `SweepEnds`, `EveryChannelTried`), because fairness and `ENABLED` are out
of the proof system's reach, and the two expected violations.

## Not modelled

SQL text, quoting and DDL rendering except what the trigger's branches decide;
logging, metrics and configuration defaults; the cryptography of tokens and keys;
HTTP and SMTP.  The scan of `auditoutbox/guard.go` is a static analysis of the host's
source.  Event ids are taken as fresh (a host that reuses an id after its row was
pruned is outside the model), and the sink's connection pool is not bounded.

Also outside: the caches of application credentials and of suite discovery (a mutex
around a map, filled by HTTP calls), `UpdateLastUsed` and
`UpdateOIDCConfigExtraConfig` (columns nothing else reads), the aggregation of scopes
over memberships and the elevation of scopes (pure unions), role-template creation and
preview, start-up checks of the schema, and the repository of a host that does not
scope its notification channels.

## What is left

1. The credential and discovery caches: a stale answer stored after an eviction.
2. A bound on the connection pool of the relay's sink, and event ids a host chooses.
3. The measures behind the other liveness properties: how many rows a relay's cycle
   still has to handle, and how many stages a sign-in and a retention sweep have left.
