------------------------------ MODULE Delivery ------------------------------
(***************************************************************************)
(* What surrounds the transactions of event-users: the queue that delivers *)
(* messages at least once, handlers that commit first and tell others      *)
(* afterwards (event-admin invalidates its cache, event-saver gets         *)
(* user.synced), crashes between any two of these steps, and the sweep of  *)
(* event-db-sync that exports users again.                                 *)
(*                                                                         *)
(* A transaction that writes is one step here, taken from UserRegistry;    *)
(* UserTransactions says when that is justified.  The read that fills the  *)
(* cache of event-admin is not: rows, contacts and the end of its answer   *)
(* are steps of their own.                                                 *)
(***************************************************************************)
EXTENDS UserTables, Naturals, Sequences, FiniteSets

CONSTANTS
    Handlers,       \* handlers that may run at the same time
    MaxCopies,      \* bound on the copies of one message in the broker
    MaxEntries,     \* bound on the changelog for entries without message id
    MaxFaults,      \* bound on crashes, losses and failed calls
    CacheInUse      \* whether event-admin reads users at all

ASSUME BoundsAreTyped ==
    /\ MaxCopies \in Nat /\ MaxEntries \in Nat /\ MaxFaults \in Nat
    /\ CacheInUse \in BOOLEAN

ASSUME HandlersAreFinite == IsFiniteSet(Handlers)

VARIABLES
    users, contacts, changelog,     \* the tables
    queue,      \* how many copies of each message wait for a delivery
    job,        \* what a handler does, Null if it does nothing
    rejected,   \* messages that the consumer has rejected
    fill,       \* the answer that event-admin waits for, Null if none
    cache,      \* the answer that event-admin holds, Null if none
    synced,     \* user.synced events that event-saver has received
    sent,       \* messages that their publishers have sent
    exported,   \* the last user.upserted of each cal.com user
    faults      \* faults so far

tables  == <<users, contacts, changelog>>
admin   == <<fill, cache>>
outside == <<sent, exported>>
vars    == <<tables, queue, job, rejected, admin, synced, outside, faults>>

Registry == INSTANCE UserRegistry

Messages == {r \in Requests : r.op \in {"email_change", "upserted"}}
Changes  == {m \in Messages : m.op = "email_change"}
Exports  == {m \in Messages : m.op = "upserted"}
Calls    == Requests \ Messages

(***************************************************************************)
(* A handler runs its transaction, makes its call (an invalidation or a    *)
(* publication) and settles its request: it acknowledges or rejects the    *)
(* message, or answers the call.  The message is "held" while its channel  *)
(* to the broker lives; user is what the upsert returns.                   *)
(***************************************************************************)
Stages == {"transaction", "notify", "publish", "done", "failed"}

Job == {j \in [req: Requests, at: Stages, held: BOOLEAN,
               user: UserIds \cup {Null}] : j.held => j.req \in Messages}

ASSUME NullIsNoJob == Null \notin Job

Synced == [email: Emails, role: Roles, user: UserIds,
           time_zone: Zones \cup {Null}]

\* GET /api/users: the rows and then, Null before, their contacts; and
\* whether event-admin was told to forget its users while it waited for it.
Answer == [users: [UserIds -> User \cup {Null}],
           contacts: [UserIds -> Contacts] \cup {Null},
           overtaken: BOOLEAN]

TypeOK ==
    /\ users \in [UserIds -> User \cup {Null}]
    /\ contacts \in [UserIds -> Contacts]
    /\ changelog \in Seq(Entry)
    /\ queue \in [Messages -> Nat]
    /\ job \in [Handlers -> Job \cup {Null}]
    /\ rejected \subseteq Messages
    /\ fill \in Answer \cup {Null}
    /\ cache # Null => cache \in Answer /\ cache.contacts # Null
    /\ synced \subseteq Synced
    /\ sent \subseteq Messages
    /\ exported \subseteq Exports
    /\ faults \in 0 .. MaxFaults

Init ==
    /\ Registry!Init
    /\ queue = [m \in Messages |-> 0]
    /\ job = [h \in Handlers |-> Null]
    /\ rejected = {}
    /\ fill = Null
    /\ cache = Null
    /\ synced = {}
    /\ sent = {}
    /\ exported = {}
    /\ faults = 0

-----------------------------------------------------------------------------
At(h, stage) == job[h] # Null /\ job[h].at = stage

Goto(h, stage) == job' = [job EXCEPT ![h].at = stage]

\* Handlers whose message the broker takes back when their channel closes.
Holders(m) == {h \in Handlers : /\ job[h] # Null
                                /\ job[h].held
                                /\ job[h].req = m}

\* The broker still has the message.
Pending(m) == queue[m] > 0 \/ Holders(m) # {}

Copies(m) == queue[m] + Cardinality(Holders(m))

Fault == faults < MaxFaults /\ faults' = faults + 1

\* Nothing bounds the entries without a message id but MaxEntries.
Room(r) ==
    \/ r.op = "patch" /\ r.email # Null
    \/ r.op = "email_change" /\ r.id = Null
    => Len(changelog) < MaxEntries

NewJob(r, held) == [req |-> r, at |-> "transaction", held |-> held, user |-> Null]

-----------------------------------------------------------------------------
(***************************************************************************)
(* The world outside event-users.                                          *)
(***************************************************************************)
Enqueue(m) == queue' = [queue EXCEPT ![m] = @ + 1]

\* A publisher sends an address change, possibly more than once.
SendChange(m) ==
    /\ Copies(m) < MaxCopies
    /\ Room(m)
    /\ Enqueue(m)
    /\ sent' = sent \cup {m}
    /\ UNCHANGED <<tables, job, rejected, admin, synced, exported, faults>>

\* A user changes in cal.com, whose trigger exports it.
Export(m) ==
    /\ m \notin sent
    /\ Enqueue(m)
    /\ sent' = sent \cup {m}
    /\ exported' = {x \in exported : Key(x) # Key(m)} \cup {m}
    /\ UNCHANGED <<tables, job, rejected, admin, synced, faults>>

\* The reconcile sweep exports a user as it is in cal.com.
Sweep(m) ==
    /\ m \in exported
    /\ Copies(m) < MaxCopies
    /\ Enqueue(m)
    /\ UNCHANGED <<tables, job, rejected, admin, synced, outside, faults>>

\* event-admin asks for the users that it does not have.  The rows and the
\* contacts of these rows are read in snapshots of their own.
ReadUsers ==
    /\ CacheInUse
    /\ cache = Null
    /\ fill = Null
    /\ fill' = [users |-> users, contacts |-> Null, overtaken |-> FALSE]
    /\ UNCHANGED <<tables, queue, job, rejected, cache, synced, outside,
                   faults>>

ReadContacts ==
    /\ fill # Null
    /\ fill.contacts = Null
    /\ fill' = [fill EXCEPT
                  !.contacts = [u \in UserIds |-> IF fill.users[u] = Null
                                                  THEN NoContacts
                                                  ELSE contacts[u]]]
    /\ UNCHANGED <<tables, queue, job, rejected, cache, synced, outside,
                   faults>>

\* The answer arrives, and event-admin keeps it.
Keep ==
    /\ fill # Null
    /\ fill.contacts # Null
    /\ cache' = fill
    /\ fill' = Null
    /\ UNCHANGED <<tables, queue, job, rejected, synced, outside, faults>>

Fill == ReadUsers \/ ReadContacts \/ Keep

\* The time to live is over.
Expire ==
    /\ cache # Null
    /\ cache' = Null
    /\ UNCHANGED <<tables, queue, job, rejected, fill, synced, outside,
                   faults>>

-----------------------------------------------------------------------------
(***************************************************************************)
(* Handlers.                                                               *)
(***************************************************************************)
\* A call of the REST API arrives.
Accept(h, r) ==
    /\ job[h] = Null
    /\ Room(r)
    /\ job' = [job EXCEPT ![h] = NewJob(r, FALSE)]
    /\ UNCHANGED <<tables, queue, rejected, admin, synced, outside, faults>>

\* The broker delivers a message; no prefetch limit holds it back.
Deliver(h, m) ==
    /\ job[h] = Null
    /\ queue[m] > 0
    /\ queue' = [queue EXCEPT ![m] = @ - 1]
    /\ job' = [job EXCEPT ![h] = NewJob(m, TRUE)]
    /\ UNCHANGED <<tables, rejected, admin, synced, outside, faults>>

\* The idempotency gate, for address changes alone.
Duplicate(r) == r.op = "email_change" /\ r.id \in MessagesIn(changelog)

\* The transaction of a request.
Transaction(r) == Registry!Serve(r)

\* The tables accept the request: its time zone is known, the user is there,
\* and no other user has the key that it would give.
Accepted(r) ==
    /\ r.op \in {"create", "patch"} => ZoneAccepted(r.time_zone)
    /\ r.op \in {"patch", "email_change"} => Registry!Exists(r.user)
    /\ r.op = "create" => Registry!KeyIsFree(r, Null)
    /\ r.op = "patch" =>
          Registry!KeyIsFree(PatchedUser(users[r.user], r, FALSE), r.user)
    /\ r.op = "email_change" =>
          Registry!KeyIsFree(ReaddressedUser(users[r.user], r), r.user)

\* Variant: the routes and the address change tell nobody.
AfterCommit_Unannounced(r) == IF r.op = "upserted" THEN "publish" ELSE "done"

\* Variant: the sync publishes the users that it inserts, not the others.
AfterCommit_OnlyNew(r) ==
    IF r.op # "upserted" THEN "notify"
    ELSE IF \E u \in UserIds : users[u] = Null /\ users'[u] # Null
         THEN "publish" ELSE "done"

\* What follows the commit: the sync publishes, all others invalidate.
AfterCommit(r) == IF r.op = "upserted" THEN "publish" ELSE "notify"

\* Variant: the upsert returns no id.
Returned_Nothing(r) == Null

\* The user a transaction was about; the sync returns the id of its row.
Returned(r) ==
    IF r.op = "upserted"
    THEN CHOOSE u \in UserIds : users'[u] # Null /\ Key(users'[u]) = Key(r)
    ELSE Null

\* Variant: the session is left without a commit.
Commit_Never(h) ==
    /\ At(h, "transaction")
    /\ \E u \in UserIds :
          job' = [job EXCEPT ![h].at = AfterCommit(job[h].req), ![h].user = u]
    /\ UNCHANGED <<tables, queue, rejected, admin, synced, outside, faults>>

Commit(h) ==
    /\ At(h, "transaction")
    /\ Transaction(job[h].req)
    /\ job' = [job EXCEPT ![h].at = AfterCommit(job[h].req),
                          ![h].user = Returned(job[h].req)]
    /\ UNCHANGED <<queue, rejected, admin, synced, outside, faults>>

\* The commit is done, its answer is lost: the handler fails.
CommitUnanswered(h) ==
    /\ At(h, "transaction")
    /\ Fault
    /\ Transaction(job[h].req)
    /\ Goto(h, "failed")
    /\ UNCHANGED <<queue, rejected, admin, synced, outside>>

\* A message that has been applied is skipped with all that follows it.
Skip(h) ==
    /\ At(h, "transaction")
    /\ Duplicate(job[h].req)
    /\ Goto(h, "done")
    /\ UNCHANGED <<tables, queue, rejected, admin, synced, outside, faults>>

Refuse(h) ==
    /\ At(h, "transaction")
    /\ ~Duplicate(job[h].req)
    /\ ~Accepted(job[h].req)
    /\ Goto(h, "failed")
    /\ UNCHANGED <<tables, queue, rejected, admin, synced, outside, faults>>

\* The database is not there, or aborts the transaction.
Abort(h) ==
    /\ At(h, "transaction")
    /\ Fault
    /\ Goto(h, "failed")
    /\ UNCHANGED <<tables, queue, rejected, admin, synced, outside>>

\* event-admin forgets what it holds, and not what it has asked for.
Invalidate(h) ==
    /\ At(h, "notify")
    /\ cache' = Null
    /\ fill' = IF fill = Null THEN Null
               ELSE [fill EXCEPT !.overtaken = TRUE]
    /\ Goto(h, "done")
    /\ UNCHANGED <<tables, queue, rejected, synced, outside, faults>>

\* CacheNotifier logs every failure and goes on.
InvalidateFails(h) ==
    /\ At(h, "notify")
    /\ Fault
    /\ Goto(h, "done")
    /\ UNCHANGED <<tables, queue, rejected, admin, synced, outside>>

\* The event carries the time zone of the message.
SyncedEvent(j) == [email |-> j.req.email, role |-> j.req.role,
                   user |-> j.user, time_zone |-> j.req.time_zone]

Publish(h) ==
    /\ At(h, "publish")
    /\ synced' = synced \cup {SyncedEvent(job[h])}
    /\ Goto(h, "done")
    /\ UNCHANGED <<tables, queue, rejected, admin, outside, faults>>

\* The publication raises, before or after the broker has the event.
PublishFails(h) ==
    /\ At(h, "publish")
    /\ Fault
    /\ synced' \in {synced, synced \cup {SyncedEvent(job[h])}}
    /\ Goto(h, "failed")
    /\ UNCHANGED <<tables, queue, rejected, admin, outside>>

\* The message is acknowledged, or the call answered.
Settle(h) ==
    /\ At(h, "done")
    /\ job' = [job EXCEPT ![h] = Null]
    /\ UNCHANGED <<tables, queue, rejected, admin, synced, outside, faults>>

\* Variant: the exception is logged and not raised again.
Reject_Acknowledges(h) ==
    /\ At(h, "failed")
    /\ job' = [job EXCEPT ![h] = Null]
    /\ UNCHANGED <<tables, queue, rejected, admin, synced, outside, faults>>

\* An exception rejects the message for good, or answers with an error; on a
\* channel that is closed nothing can be rejected.
Reject(h) ==
    /\ At(h, "failed")
    /\ rejected' = IF job[h].held THEN rejected \cup {job[h].req} ELSE rejected
    /\ job' = [job EXCEPT ![h] = Null]
    /\ UNCHANGED <<tables, queue, admin, synced, outside, faults>>

-----------------------------------------------------------------------------
(***************************************************************************)
(* Losses.                                                                 *)
(***************************************************************************)
\* The broker takes back what has not been settled.
Requeue == queue' = [m \in Messages |-> Copies(m)]

\* The connection to the broker is lost; the handlers go on.
Disconnect ==
    /\ Fault
    /\ Requeue
    /\ job' = [h \in Handlers |->
                 IF job[h] = Null THEN Null ELSE [job[h] EXCEPT !.held = FALSE]]
    /\ UNCHANGED <<tables, rejected, admin, synced, outside>>

\* The process ends, by a crash or a restart, and starts again.
Restart ==
    /\ Fault
    /\ Requeue
    /\ job' = [h \in Handlers |-> Null]
    /\ UNCHANGED <<tables, rejected, admin, synced, outside>>

-----------------------------------------------------------------------------
World ==
    \/ \E m \in Changes : SendChange(m)
    \/ \E m \in Exports : Export(m) \/ Sweep(m)
    \/ Fill \/ Expire

Step(h) ==
    \/ Commit(h) \/ Skip(h) \/ Refuse(h)
    \/ Invalidate(h) \/ Publish(h)
    \/ Settle(h) \/ Reject(h)

Failure(h) ==
    \/ CommitUnanswered(h) \/ Abort(h)
    \/ InvalidateFails(h) \/ PublishFails(h)

Next ==
    \/ World
    \/ \E h \in Handlers :
          \/ \E r \in Calls : Accept(h, r)
          \/ \E m \in Messages : Deliver(h, m)
          \/ Step(h)
          \/ Failure(h)
    \/ Disconnect
    \/ Restart

Spec == Init /\ [][Next]_vars

(***************************************************************************)
(* Fairness.  Handlers run; the queue is first in, first out, so a message *)
(* is delivered if there is room for it again and again; the sweep comes   *)
(* back.                                                                   *)
(***************************************************************************)
Fairness ==
    /\ \A h \in Handlers : WF_vars(Step(h))
    /\ \A m \in Messages : SF_vars(\E h \in Handlers : Deliver(h, m))
    /\ \A m \in Exports : WF_vars(Sweep(m))

LiveSpec == Spec /\ Fairness

-----------------------------------------------------------------------------
(***************************************************************************)
(* Safety.                                                                 *)
(***************************************************************************)
Numbered == {m \in Changes : m.id # Null}

\* An address change that was sent is not lost, whatever crashes: it waits,
\* or is being handled, or has its entry in the changelog, or was rejected.
ChangeIsNotLost ==
    \A m \in Numbered \cap sent :
        m.id \in MessagesIn(changelog) \/ Pending(m) \/ m \in rejected

(***************************************************************************)
(* To the publishers of address changes event-users is a journal, whatever *)
(* the broker, the handlers and their crashes do.                          *)
(***************************************************************************)
IdsOf(messages) == {m.id : m \in Numbered \cap messages}

EntriesOf(i) == {k \in DOMAIN changelog : changelog[k].id = i}

Journal == INSTANCE ChangeJournal
               WITH Ids       <- MessageIds,
                    announced <- IdsOf(sent),
                    entered   <- [i \in MessageIds |->
                                    Cardinality(EntriesOf(i))],
                    refused   <- IdsOf(rejected)

\* consumer.py:45-59: a change that was sent is entered once at most, through
\* redelivery, handlers that outlive their channel, and crashes on either side
\* of the commit; nothing that was not sent is entered or rejected, and no
\* failure takes an entry back.
JournalSpec == Journal!Spec

\* event-saver never hears of a user that is not in the database.
SyncedUserExists == \A e \in synced : users[e.user] # Null

\* The answer is not what the tables hold.
Outdated(answer) ==
    \E u \in UserIds :
        \/ answer.users[u] # users[u]
        \/ users[u] # Null /\ answer.contacts[u] # contacts[u]

\* routes.py:59, docs/DEPENDENCIES.md:8, 56: without failures, event-admin
\* holds an outdated cache only until the writers that have committed have
\* told it; unless it was told while it waited for the answer that it then
\* kept, which nothing takes back before its time to live is over.
CacheCoherent ==
    cache # Null /\ Outdated(cache) =>
        cache.overtaken \/ \E h \in Handlers : At(h, "notify")

\* sync_publisher.py:26: what the ce-id of an event is hashed from.
CeId(e) == <<e.role, e.email, e.user>>

(***************************************************************************)
(* Liveness.                                                               *)
(***************************************************************************)
\* event-users and event-saver know the user as cal.com last exported it.
Converged(m) ==
    \E u \in UserIds :
        /\ users[u] # Null
        /\ Key(users[u]) = Key(m)
        /\ m.time_zone \in {Null, users[u].time_zone}
        /\ \E e \in synced : CeId(e) = <<m.role, m.email, u>>

\* consumer.py:114: the sweep repairs a publication that was dropped, and
\* with it messages that overtook one another or were rejected.
SweepRepairs ==
    \A m \in Exports : <>[](m \in exported => Converged(m))

\* An address change that was sent is applied or rejected in the end, in
\* spite of crashes and of handlers that outlive their channel.
ChangesSettle ==
    \A m \in Numbered :
        m \in sent ~> m.id \in MessagesIn(changelog) \/ m \in rejected
=============================================================================
