# A verification project for event-users

event-users keeps the users of a booking system: address, role, time zone,
contacts, and a log of changes of address.  It is written to by a REST API
(FastAPI) and by a RabbitMQ consumer (FastStream), both in one process and on
one PostgreSQL database, and it tells two neighbours what happened: event-admin
(a cache of users, invalidated over HTTP) and event-saver (`user.synced`
events).  This directory holds TLA+ modules that model it, TLC configurations
that check them on small instances, and proofs that TLAPS checks for all
instances.

    tlc -config Queue.cfg MCUserTransactions.tla      # one run
    tlapm UserTransactionsProofs.tla                  # invariants of the writers
    tlapm RegistryProofs.tla                          # what they implement
    tlapm UserReadsProofs.tla                         # pages and answers
    tlapm DeliveryProofs.tla                          # proofs about the delivery
    tlapm JournalProofs.tla                           # what it implements
    tlapm ConnectionPoolProofs.tla                    # the connection pool
    tlapm AuthProofs.tla                              # the rollout of aud and iss

## The system

| part | state | operations | hard behaviour | what makes it correct |
|---|---|---|---|---|
| user writes (`routes.py:47-89`, `controllers/users.py`, `adapters/users_db.py`) | tables users, user_contacts, user_email_changelog; one session per request | POST, PATCH | several statements in one READ COMMITTED transaction, an address read before its row is locked, locks taken one after the other | unique (email, role); the email contact is the address; a change of address has its entry |
| email change consumer (`consumer.py:24-96`) | the same tables; the message | user.email.change_requested | redelivery, overlapping deliveries, deadlock, a crash between commit and what follows it | one effect per ce-id; entry, row and contact together |
| user sync consumer (`consumer.py:99-127`) | the same tables; the message | user.upserted, then user.synced | no idempotency key, order of messages, a publish after the commit | converges on what the CRM exports |
| schema (`db/models.py`) | unique and foreign keys | -- | the row locks they imply | -- |
| reads (`users_db.py:185-290`, `changelog_db.py:27-50`) | none | list, by ids, by identity, changelog | several statements, each with its own snapshot; OFFSET pages | a row that was there is shown once; a contact is not older than the address beside it |
| dispatch (`consumer.py:157-197`) | queue of the broker, unacknowledged messages | deliver, acknowledge, reject, redeliver | no prefetch limit; a rejected message is gone | nothing acknowledged is lost |
| cache notifier (`adapters/cache_notifier.py`) | none; the cache of event-admin | invalidate | failures are swallowed; the cache is being filled meanwhile | no stale cache after the last invalidation |
| sync publisher (`adapters/sync_publisher.py`) | none | publish | a publish that fails after the commit | the reconcile sweep repairs it |
| connection pool (`ioc.py:46-77`) | 30 connections, each live or broken | checkout, pre-ping, overflow, timeout, return | a burst of messages; a database that restarts | the count of connections is right; a handler fails for a present reason only |
| authentication (`auth.py`, `config.py`) | the settings the process has read | decide about a credential | claims, bindings and static token change one after the other, the process restarts | a valid token is refused for a while at most, and for a reason the rollout gives |
| lifespan (`main.py:24-47`) | the running consumer | start, stop | messages in flight at a stop | -- |
| metrics, telemetry, logging, migrations | -- | -- | sequential | -- |

Writers meet only in the database: they share no memory that matters, so the
model is of transactions.  The consumer and the API call the same adapters.
What a handler does after its commit (invalidate the cache, publish
`user.synced`, answer, acknowledge) is outside the transaction and may be lost;
that is the model of `Delivery`, in which a transaction that writes is one step.

## Modules

| module | models |
|---|---|
| `UserTables` | rows, requests, and what each statement computes from them |
| `UserTransactions` | the writers, one action per SQL statement, with the locks of PostgreSQL |
| `UserRegistry` | the promise: each request changes the tables at once or not at all |
| `Delivery` | the broker, handlers around their transaction, the cache of event-admin, `user.synced`, the sweep, crashes; composes `UserRegistry` with its neighbours |
| `ChangeJournal` | the promise of the delivery to publishers of address changes: announced, entered once at most, or refused |
| `UserReads` | the reads, one action per SELECT, over rows with created_at and changed_at; composes `UserRegistry` with a reader |
| `ConnectionPool` | the connections that all handlers share, and a database that goes away |
| `Auth` | the decision about a credential while the deployment changes |
| `MCUserTransactions`, `MCDelivery`, `MCUserReads` | the requests and queries of the instances that TLC checks |
| `UserTablesProofs` | what the operators of `UserTables` return |
| `UserTransactionsProofs`, `DeliveryProofs`, `UserReadsProofs`, `ConnectionPoolProofs`, `AuthProofs` | theorems about the specifications |
| `RegistryProofs` | `UserTransactions` implements `UserRegistry`, except for stale reads; the log, and the kinds of deadlock |
| `JournalProofs` | `Delivery` implements `ChangeJournal` |

Two modules are abstract: `UserRegistry`, which `UserTransactions` implements
(`RegistrySpec`), and `ChangeJournal`, which `Delivery` implements
(`JournalSpec`, an `INSTANCE ... WITH`).  They chain: what `UserTransactions`
does statement by statement is one step of `UserRegistry`, which is the
transaction of `Delivery` and the commit of `UserReads`.  The chain has one gap,
the PATCH that decides on an address it read earlier without a lock:
`UserReads` therefore models that read (`Look`) apart from the commit.

### UserTables

`User` is a row of users without `name` (handled exactly as `time_zone` is:
optional, set if given, COALESCEd by the sync), `locale` (never written) and the
timestamps.  The contacts of a user are a function of the channel, because
(user_id, channel) is unique.  An entry of the changelog drops `changed_by`.
`Requests` is a constant: the requests that may arrive, any number of times.  A
message with a malformed user id is not distinguished from one about an unknown
user: both are rejected before anything is written.

### UserTransactions

A worker is one handler (a REST request or a delivered message) with its
session.  `users`, `contacts` and `changelog` are the committed tables; `pc[w]`
is the statement that worker w runs next, or its outcome; `tx[w]` is what its
open transaction holds: its version of one row of users, the contacts it has
written so far and the channel whose row it wants next, its entry, the address
it read without a lock, and whether a foreign key check has locked the user.  `Commit` publishes tx[w]; every failure discards it.

| action | code |
|---|---|
| `Begin` | a request passes its schema and the time zone check, or the consumer gets a message |
| `InsertUser`, `InsertConflict` | INSERT of `create_user` |
| `GetUser` | `get_user` in `controllers/users.py:38` |
| `SelectUser`, `UpdateUser`, `UpdateNoUser` | `_apply_update`: the plain SELECT, and the UPDATE as far as it locks and writes its row |
| `AddEntry` | `add_entry` called by the controller |
| `GateOpen`, `GateDuplicate`, `GateNoUser` | `add_entry` called by the consumer, first statement of its transaction |
| `ChangeEmail` | UPDATE of `handle_email_change`, as far as it locks and writes its row |
| `IndexRow`, `IndexConflict` | the rest of either UPDATE if it changes the key: the new key enters the unique index, or is refused |
| `UpsertInserts`, `UpsertUpdates` | the two arms of `upsert_user_from_crm` |
| `UpsertContact`, `UpsertContacts` | `_upsert_contacts` (and the contact statement of the consumer): one row of the batch, and its last one |
| `CheckUser` | the foreign key check of a new contact |
| `Commit`, `CommitUnanswered` | the commit; done, and done with its answer lost |
| `Lose`, `Victim` | connection or process lost; victim of a deadlock |
| `Finish` | the answer, the acknowledgement or the rejection |

PostgreSQL is modelled by the rules that these statements rely on, and the
definitions that state them are marked external or mapped to the constraint
they follow from:

* a statement sees the rows that were committed when it runs (READ COMMITTED,
  the default: nothing in `ioc.py` sets another level); an UPDATE that waited
  sees the row as it was committed then;
* an UPDATE of a key column takes FOR UPDATE, another one FOR NO KEY UPDATE; a
  foreign key check takes FOR KEY SHARE, which only FOR UPDATE excludes;
* the unique index makes a writer wait for an open transaction with the same
  key, old or new, and refuses it if the key is there when the wait is over;
* ON CONFLICT DO NOTHING waits for an open insert of the same message id;
* locks are held to the end of the transaction.

`Blockers(w)` collects whom the next statement of w waits for, so a deadlock is
a set of workers each of which waits for another of the set.

A statement that can wait while it holds what others wait for takes several
steps.  An UPDATE has its row locked when it waits in the unique index
("index"); the row's old key is in the index all the time, its new one from
`IndexRow` on.  A batch of contacts locks its rows one after the other
(`NextChannels`): those the client lists in any order, since `by_channel` keeps
the order of the body, and the address last, unless the body has a contact of
the channel email, too, and so determines its place.  A foreign key is checked
when the statement is over ("fk").  All other statements hold nothing new while
they wait, with one exception that is left out: the changelog insert of the
consumer has its message id in the index when its foreign key check waits for a
change of the user's key.  Nobody who changes a key ever waits for a message id,
so no deadlock comes of it.

### UserRegistry

The abstract specification: one action per kind of request, no worker, no lock.
`UserTransactions` implements it with the identity as refinement mapping, if
every PATCH sets a column and none sets the address, which is what excludes the
first three findings below.  For any requests, `ServedUnlessStale` says that
each commit is what `UserRegistry` does with the request of the worker that
commits, or that this request is a PATCH whose address was replaced after it was
read.  `Delivery` uses the actions of `UserRegistry` as the transactions of
handlers.

### Delivery

`job[h]` is what handler h does: its request, the stage it has reached
(transaction, notify, publish, done, failed) and whether the channel that
delivered its message is still open (`held`).  `queue[m]` counts the copies of a
message that wait; `Pending(m)` says that the broker still has it, because an
unacknowledged message of an open channel is the broker's, too.

| action | code |
|---|---|
| `SendChange`, `Export`, `Sweep` | the publishers: an address change sent at least once, the export of cal.com's trigger, the reconcile sweep (`consumer.py:114`) |
| `ReadUsers`, `ReadContacts`, `Keep` (`Fill`) | event-admin calls GET /api/users, which reads the rows and then their contacts (`users_db.py:224-259`), and keeps the answer when it arrives |
| `Expire` | event-admin forgets its users after its TTL |
| `Accept`, `Deliver` | a route or a subscriber is called with a new session |
| `Commit`, `CommitUnanswered`, `Skip`, `Refuse`, `Abort` | the transaction: committed; committed with the answer lost; a duplicate that returns at `consumer.py:52-59`; a request that the tables refuse; a database that fails |
| `Invalidate`, `InvalidateFails` | `CacheNotifier`, whose failures are logged only |
| `Publish`, `PublishFails` | `SyncPublisher`; its exception leaves the handler, after the commit |
| `Settle`, `Reject` | acknowledgement or answer; rejection without requeueing, which is FastStream's default when a subscriber raises |
| `Disconnect`, `Restart` | the channel is lost and handlers go on; the process ends. The broker takes back what was not settled |

What is assumed of the surroundings: event-admin has one call for users under
way at a time, keeps what it answers, and holds it for a bounded time
(docs/DEPENDENCIES.md); an invalidation clears what event-admin holds, and does
nothing about an answer that it still waits for; the messages that
are rejected are an end, whatever the broker is configured to do with them; a
stop is a `Restart`, because the repository sets no time in which a stopping
consumer lets its handlers end.  Messages of unknown type are
acknowledged without an effect and are left out.  `cache` is one answer about
all users; the count that `list_users` begins with plays no part in it.

`CacheCoherent` allows an outdated cache in two cases.  A handler has
committed and is about to invalidate.  Or event-admin was told to forget while
its own call was under way (`overtaken`): the answer is of before the
invalidation, is kept after it, and stays until its time to live is over.
Committing before invalidating, as `routes.py:59` demands, does not exclude the
second case; only event-admin could, by dropping answers that an invalidation
has overtaken.  With failures it is false, by design:
an invalidation that fails, or a crash between the commit and the invalidation
after which the redelivered message is skipped as a duplicate, leaves the old
user in the cache until its time to live is over.

### ChangeJournal

Three facts per ce-id: announced (its message was sent), entered (how many
entries of the changelog carry it) and refused (rejected).  Neither queue nor
handler nor crash appears.  `Journal` in `Delivery` is the refinement mapping.
`Enter` is possible once; so a redelivery, a handler that outlives its channel,
and a crash on either side of the commit must all be stutters of the journal.
A change may be both entered and refused: an exception after the commit rejects
a message that has been applied.

### UserReads

Rows carry `created` and `changed`, now() of the transaction that wrote them,
and that is when it began: `Begin` takes the next value of `clock`, `Commit` or
`Rollback` comes later, in any order.  A commit is a step of `UserRegistry`
(`Serve`), since what a transaction has written stays locked to its end, except
for a PATCH that sets the address or no column of users.  Such a one reads the
address first (`Look`), and its commit does what the code makes of that read
(`PatchAfter`): it marks and records a change if the address it *read* differs
from the given one, and without a column of users its contact takes the address
it read.  So findings 1 and 2 reach the readers.

| action | code |
|---|---|
| `Begin`, `Look`, `Commit`, `Rollback` | a transaction that writes: its first statement, the unlocked read of a PATCH (`controllers/users.py:38`, `users_db.py:162`), its end |
| `Accept` | a route is called; by-ids refuses more ids than it allows (`routes.py:97`) |
| `Count`, `SelectUsers`, `SelectContacts` | the three statements of `list_users`; by ids, by id and by identity run the last two |
| `Count`, `SelectEntries` | the two statements of `get_changelog` |
| `NextPage`, `Leave` | the client goes on while `offset + limit` is below the total of its last answer, or does not |

`always`, `ever`, `seen`, `addresses`, `overlapped` and `misled` record what the
properties compare an answer with; no action of the service reads them.  Reads
change nothing, so one reader stands for any number.  Not distinguished: two
transactions that begin in the same microsecond (the code gives ORDER BY no
second column, so PostgreSQL may order such rows as it likes), an id that
by-ids is given twice, the text of a search term (a term is the set of
addresses that contain it), and updated_at, which no statement reads.

What the properties say, and what they leave open: `PagesAreExact` excuses a
row only if a row that sorts before it appeared or disappeared between the first
page and the last; then OFFSET skips or repeats rows, as it must.  An update of a
row is no excuse, because created_at is never written again.
`ContactIsNotOlder` holds because users are read before contacts; the reverse
order would send an address that is no longer used.  It excuses a user whose
contact a PATCH without a column of users has put back to an address it had read
before (`ContactPutBack`, finding 1): such a contact stays old for good.
`ChangelogStartsWithAddress` excuses users whose address changes overlapped:
changed_at is the start of the transaction, so the later of two starts may be
the earlier of two commits, and the first line of the log is then the older
address.  And it excuses users to whom a PATCH has given an address back that it
had found in place before it was replaced (`AddressPutBack`, finding 2): there is
no entry of that.  `misled` collects the requests that do either, at the commit
in which they do it.

### ConnectionPool

`idle` counts the live and the broken connections that wait in the pool,
`overflow` is SQLAlchemy's counter (it starts at -PoolSize), and `job[h]` is the
stage of a handler and what it holds.  All kinds of handlers share the actions
of a checkout and differ in how they give the connection back:

| action | code |
|---|---|
| `Begin` | a handler gets to its first statement; `sessionmaker()` itself takes nothing |
| `Take`, `Open`, `Wait`, `TimeOut` | checkout: an idle connection, an overflow one, waiting, `pool_timeout` (SQLAlchemy's default of 30 s; `ioc.py` sets none) |
| `Checked` in `Take`, `Connect`, `ConnectFails` | pool_pre_ping, and the connection that replaces one that does not answer |
| `Commit` | a write or a message commits, which returns its connection, and then calls event-admin or publishes |
| `Answer`, `Sent` | a read, or a write that is refused, keeps its session until its answer is sent (the session belongs to the scope of the request) |
| `Release` | `/ready` leaves its `async with`; a message is rolled back |
| `StatementFails` | the database goes away under a statement |
| `Finish` | the neighbour has answered, or the failure has been reported |
| `Break`, `Recover` | the database goes away with all its connections, and comes back |

A waiter has no claim to the next connection: who comes may take it first, as
in the queue of the library.  A connect that fails gives its overflow slot back
and wakes nobody; a waiter that has not timed out looks at the counter again
when its time is over (`Open` from "waiting").

`shaken` records the handlers that have lived through an outage.  One
consequence that is not a property: `/ready` logs "database unreachable" and
answers 503 also when the pool is merely exhausted, since a timeout of the
checkout is an exception like any other (`AllInUse` in `FailuresHaveCause`).

### Auth

`env` is the environment of the service, `settings` what the running process
has read of it: `get_settings` is cached, so only `Restart` moves one to the
other.  `Role` and `Status` are `verify_bearer_token` and `require_admin`; a
token that was not minted is not signed and is not in `tokens`.  Static tokens
are compared first.  `Upgrade`, `Mint`, `Bind` and `Rotate` belong to
event-admin and to the operator.  `Bind` asks what docs/AUDIT.md:28 and 43-44 ask:
that event-admin mints a claim before it is bound.  A token that was minted
still earlier does not carry it and is refused from then on until it expires, so
the rollout is not free of refusals (see the differences under Findings).
`RefusalIsBrief` says what holds: a token that has not
expired gets another answer than its role deserves only for a claim that is
bound, that it lacks, and that has been minted for less than a lifetime.  `age`
measures that; an operator who waits a lifetime between the upgrade of
event-admin and the binding refuses nobody.

## Runs

| run | instance | checks |
|---|---|---|
| queue | 2 workers, 2 users, 2 addresses; both messages, two ce-ids, a PATCH of the time zone with a contact | types; unique keys; the email contact; one entry per message; the last entry names the address; **the tables are those of a serial registry** |
| rest | 2 workers, 3 addresses, 2 roles, POST, PATCH of address and role, a message | unique keys; the email contact; a change without a right entry is the work of a stale read alone (findings 2 and 3), **and so is every commit that is not what its own request would have done alone** |
| drain | 2 workers; two users who swap addresses, changes that overlap, batches of contacts with channels in any order; fair | each deadlock is of one of three kinds; handlers end when requests stop |
| delivery | 2 handlers, an address change, a user exported twice; 1 fault; fair | types; a change that was sent is not lost; events are about existing users; **the delivery is a journal**; event-users and event-saver converge on the last export; a change ends applied or rejected |
| cache | 2 handlers; POST, PATCH of zone and of address, an address change; event-admin reads rows, contacts, and keeps the answer later; no fault | the cache is outdated only while someone is about to invalidate it, or if an invalidation overtook the answer |
| reads | 2 writers, 3 users, 4 transactions; pages of one row; all five reads | types; pages are exact; contacts are not older than addresses and the log starts with the address, except for the users of whom a stale PATCH has made it so |
| pool | 3 handlers, 1 connection and 1 overflow, 2 outages; fair | types; the counter is exact; failures have a present cause; handlers end |
| auth | a static token or none, 2 claims, tokens that live for 2 ticks | a token that has not expired is refused only for a claim that has been minted for less than a lifetime |
| stale_contact, stale_read, resync, sync_cache | the smallest instance that shows it | violations, see Findings |

Bounds.  Two workers show every pairwise race, and each hazard here is between
two transactions; two workers are a deadlock of each kind of
`DeadlocksHaveKinds`, which is a theorem for any number of them.  Two addresses and one role give two keys, enough for one conflict and
for a change back (`rest` has a third address, so that an old address can be
wrong); users ids are as many as keys (`IdsSuffice`), so that an
insert never lacks one.  `MaxUnnumbered` bounds the entries without a message
id, the only data that could grow for ever; it stops new requests of that kind
and nothing that has begun.  Entries with an id are bounded by the ids.

In `Delivery`, `MaxCopies` bounds the copies of one message, `MaxEntries` the
entries without message id, `MaxFaults` the crashes, lost connections and
failed calls, and `CacheInUse` leaves event-admin out where no property is
about it.  One copy at a time is not one delivery: a message may be sent again
when its first copy is settled, and a lost channel puts it back while its
handler goes on, so that two handlers have it.  One fault is what liveness
affords; for any number of copies and faults the safety properties and the
refinement are theorems.

In `UserReads`, four transactions (`MaxTransactions`) are two users and two
later changes, or three users; pages hold one row, so that three users are three
pages; the writers are symmetric; by-ids allows two ids (`MaxIds`), so that three are refused.  In
`ConnectionPool`, three handlers on two connections make one wait, `PoolSize` 1
with `MaxOverflow` 1 has a connection of each kind, and two outages
(`MaxOutages`) let one hit the recovery from the other; the invariants are
theorems for all numbers.  In `Auth`, a `Lifetime` of two ticks lets tokens of
different ages meet; the invariant is a theorem for all lifetimes and static
tokens.  Deadlock
checking is on everywhere.

Fairness.  A statement that waits for nobody is run (the event loop is never
blocked by a handler), the deadlock detector aborts a victim, and a handler with an
outcome ends: weak fairness each.  No fairness among waiters is assumed, because
PostgreSQL gives none here: FOR KEY SHARE locks may overtake a waiting UPDATE
for as long as new ones arrive.  For that reason `HandlersDrain` speaks of the
time when requests have stopped; that every single request ends is false under
an endless stream of requests about one user.

In `delivery`: handlers run (weak fairness of `Step`); the queue is first in,
first out and nothing limits prefetching, so a message is delivered if
handlers are free again and again (strong fairness of its `Deliver`); the sweep
of event-db-sync is periodic (weak fairness of `Sweep`).  Faults are finitely
many, as the convergence of any retry needs.  Nothing is assumed of publishers,
of routes or of event-admin.

In `pool`: each handler steps when it can (weak fairness of `Step`): the event
loop is not blocked, statements and calls to neighbours end (httpx has a timeout
of 10 s, the publisher one of its own), and a wait for a connection ends with
`pool_timeout`, which is what `TimeOut` stands for.  That a waiter gets a
connection in the end is not claimed, and is false: others may overtake it.
`Recover` is not fair; handlers end while the database stays away.

## Findings

1. **A PATCH of contacts can undo the email contact** (`stale_contact`).  With
   no column of users in its body `_apply_update` is a plain SELECT; the address
   that it read is upserted later, over the one that an address change has
   committed.
2. **A PATCH can revert an address without an entry** (`stale_read`).  The
   comparison `current.email == dto.email` uses a read that is not locked.
3. **old_email can be wrong**, for the same reason: of two PATCH requests that
   overlap, the second names an address that the first has replaced.  The
   consumer has no read at all and trusts the message for it.  `rest` shows
   that nothing else spoils the log: its property `AuditFailsOnlyByStaleRead`
   allows this case, so it has no run that expects a violation.
4. **A sync brings back an old address as a second user** (`resync`), although a
   comment says that email_source guards against it.
5. **A sync never invalidates the cache** (`sync_cache`).  The consumer of
   `user.upserted` has no notifier, although the documentation says that the
   invalidation follows every write; event-admin serves the old time zone until
   its TTL.

Three more differences need no exploration.  For the rollout of aud and iss,
docs/AUDIT.md:28
and 43-44 ask only that event-admin mints the claims before they are bound; but
`auth.py:31-34` then requires them of every token, and one that was minted before
the upgrade of event-admin gets 401 until it expires.  `Merge` keeps the channels that a
PATCH does not name, because no statement deletes a contact, while
docs/API_CONTRACTS.md:81 says that the body replaces the contact set.  And the
ce-id of `user.synced`, a hash of role, address and user, ignores the
time zone that the event carries, so a change of time zone in cal.com is
published under the id of the earlier event.  `Converged` compares events by
this id (`CeId`), and therefore promises no time zone to event-saver.

## Proofs

`UserTablesProofs` proves the types of what the operators of `UserTables`
return; the proofs about writers, delivery and reads cite it.

`UserTransactionsProofs` proves, for every set of users, requests and workers:

* `TypeCorrect`: `Spec => []TypeOK`.  TypeOK is not inductive: whether
  `PatchedUser(...)` is a row depends on the worker having a PATCH request when
  it reaches "update".  `TypeInv` adds `StageOf`, what each statement can rely
  on.  Steps that leave the tables alone go through one lemma
  (`ContinueKeepsTypes`), which asks only for the new transaction.
* `EmailRoleStaysUnique`: `KeyInv` adds that no user has two uncommitted rows,
  that the key of an uncommitted row, once it is in the index (`Indexed`), is the
  key of no other user, and that no two of them share one.  An UPDATE that still
  waits in the index has a row and no claim to its key.  `WriteKeepsKeys` is the step every write goes
  through; the commit then only moves a row.
* `MessagesAppliedOnce`: `MessageInv` adds that the message id of an
  uncommitted entry is nobody else's, which is what waiting at the gate gives.
* `ContactsFollow`: under `EveryPatchWrites`, `ContactInv` adds that the
  uncommitted contacts carry the uncommitted address.  Without the assumption
  the theorem is false (finding 1).

`RegistryProofs` says what these transactions amount to, from
`IInv == TypeInv /\ KeyInv /\ MessageInv /\ EffectInv`.  None of the first three
says what a transaction is about to do to the tables.  `EffectInv` does: from
the write of its row on, the row that tx[w] holds is what its request makes of
the row that is committed *now*, its batch carries that row's address (as far as
it has been written), and its entry is the one the request calls for.  It speaks of the committed row and not
of the one that was read, because a lock is what keeps the two equal; so its
inductive step is that no commit changes a row that another worker has
written (`KeyInv`).  A PATCH that sets no column holds no lock and is described
apart (`OnlyReads`).  From it:

* `CommitsServe`: `Spec => ServedUnlessStale`, with no assumption.  A commit is
  the action of `UserRegistry` for its request, on the tables as they are then,
  or it is that of a PATCH whose read is stale.
* `TransactionsAreRegistry`: `Spec => RegistrySpec` under `EveryPatchWrites` and
  `PatchesKeepAddress`.  Under them no transaction holds an address that it read
  (`OnlyTheseRead`), so none is stale.  Without the first the theorem is
  false by finding 1, without the second by findings 2 and 3; POST, both kinds of
  messages and PATCH of role, zone, name and contacts are left in any number.
* `AuditFailsOnlyThen`: `Spec => AuditFailsOnlyByStaleRead`, with no assumption.
* `AdminAddressIsAudited`: under `PatchesKeepAddress`, the last entry of a user
  whose address came from an administrator names it.  `AuditInv` names the last
  entry by its index, which is what a lemma about `Append` can keep; that it is
  the one that `LastEntryOf` chooses is `LastEntryIsUnique`.
* `DeadlocksAreOfThreeKinds`, with no assumption.  Who is waited for holds
  something, and of those who wait only "change", "index", "contacts" and "fk"
  hold anything (`WaitingBlocker`).  If a member has written the user's row and
  waits for its contacts, or if none waits in the index, those of its user who are
  at "contacts" or "fk" wait for one another (`ContactCore`; that the user has one
  writer, `OneWriter`, keeps "index" out).  If a member waits in the index and no
  writer of a row at contacts, it waits for another one in the index, whose
  old key is its new one (`IndexCore`).  What is left waits at "change" or for
  somebody there, and those at "change" wait for each other through one row
  (`ChangeCore`).

`UserReadsProofs` proves, for every number of users, writers and transactions,
every page size and every query, with no assumption but the types of
constants:

* `TablesInv` is about the writers.  Transactions commit in another order than
  they begin in, so times do not follow the order of the log; `TimesInOrder` says
  that they do among the entries of a user whose address changes never
  overlapped, *and* that none of them is later than a transaction that is still
  open and may add the next.  With the log's last entry (`AuditInv`, as above,
  but for the users to whom a stale PATCH has given an address back) this gives
  `ChangelogStarts`.  `PatchAfterEffect` says what a PATCH does that decides on an
  address it read before (`Look`): if that is the present one, what `UserRegistry`
  does; if not, it lands in one of the two excuses at the moment it commits.
* `ReadTypes` needs that the rows that match the query lie between `always` and
  `ever` (`ReadRows`).
* `ContactsAreNotOlder`: `ContactsInv` says, between the SELECT of users and
  that of contacts, that the present address is among those that the user has
  had since; the email contact is the present address (`ContactsFollow`), so
  reading it later can only yield one of them.  A contact that a stale PATCH has put
  back is the exception that both state.
* `PagesStayExact`: for a row that matched all the time and before which no row
  came or went, the set of rows before it (`AheadOf`) cannot change, because
  commits never write created_at or changed_at of a row that is there.  Its size
  is then the row's rank for ever.  `PagesInv` says that the row has been seen
  once if its rank lies before the pages turned so far and not at all
  otherwise, and that the total of any answer exceeds the rank, so that the client does
  not stop before it.

`DeliveryProofs` proves, for every set of handlers and messages and every
number of copies and faults:

* `DeliveryTypes`: `TypeInv` adds that a handler that is about to publish has
  the id of an existing user (`PublishersKnow`).  A lemma that restates the
  operators of `UserRegistry` as seen through `INSTANCE` (`RegistryOperators`)
  lets each transaction be typed once.
* `ChangesAreNotLost`: `LossInv` adds that a handler of an address change that
  is done has its entry in the changelog (`DoneIsApplied`); that is why an
  acknowledgement loses nothing.  It needs finitely many handlers, since copies
  are counted when a channel closes.
* `SyncedUsersExist`: from `PublishersKnow`, and because no request deletes a user.
* `CacheStaysCoherent`: `CoherentInv` says of the answer under way what
  `CacheCoherent` says of the cache: if it is outdated, someone is about to
  invalidate or an invalidation has overtaken it.  Assumed are `NothingFails` and
  `NoExports`; each is needed, see above and finding 5.

`JournalProofs` proves `DeliveryIsJournal`, `Spec => JournalSpec`: every step
of `Delivery` is a step of `ChangeJournal` or a stutter.  Sending is `Announce`,
a commit of a change with a ce-id is `Enter`, a rejection of one is `Refuse`, and
all else leaves the three facts alone.  Two things are needed of the reachable
states.  `OnlySent`: what waits in the queue, is with a handler or was rejected
has been sent; so a handler can enter or refuse only what was announced.  And
the gate: `ChangeAddress` runs only if no entry has the id, so the set of its
entries is empty before and has one element after, which is a lemma about the
indexes of a sequence that grows by one (`TransactionEnters`).

`ConnectionPoolProofs` proves, for every number of handlers, connections and
outages, `PoolTypes`, `CounterStaysExact` and `FailuresHaveACause`.  `PoolInv` adds to
`CounterIsExact` what a handler holds at each stage (`HoldsFit`) and that who
runs while the database is away, or has a broken connection under a statement,
has lived through an outage (`ShakenKnow`).  `HoldersChange` says how one step of
one handler changes the number of holders; `GotoKeepsPool` and
`EndedKeepsPool` reduce each action to the arithmetic of its own counter.  That a
timeout means `AllInUse` follows from the counter: nothing idle and the overflow
used up leave `PoolSize + MaxOverflow` holders, and `HoldsFit` says that none of
them waits for a neighbour.

`AuthProofs` proves `RefusalStaysBrief`.  `BoundIsMinted` says that what is bound
is minted, in the environment as well as in the process, because a restart may
come at any moment.  `OlderTokensEnd` is the argument about time: for a token
that lacks a minted claim, what it has left and the age of the claim are a lifetime at most;
each tick takes from the one what it adds to the other, and a claim starts
with age 0 (`AgeBegins`).

All of them rest on the assumptions of the modules they extend: requests are of
the four kinds and Null is no value (`UserTables`), bounds and queries are typed
(`UserReads`), handlers are finitely many and Null is no job (`Delivery`,
`ConnectionPool`), credentials differ (`Auth`).

Every invariant, action property and refinement of the passing runs is a
theorem.  Only model-checked is liveness (`HandlersDrain`, `SweepRepairs`,
`ChangesSettle`, `HandlersEnd`), which is out of reach of the prover, as ENABLED
is.  Findings 1, 2, 4 and 5 are runs that expect a violation; nothing is proved
of them.

## Not modelled

* Metrics, telemetry and logging: they change no state that the service reads.
* Migrations: each runs once, before the service starts, on an otherwise unused
  database.
* Configuration beyond what `Auth` and `ConnectionPool` use, and the order of
  start-up steps, which is sequential.
* The messages of unknown type, which are acknowledged without effect, and the
  wording of answers.
* The time a statement takes beyond its locks: a statement that holds nothing new
  while it waits is one step (see `UserTransactions`).
