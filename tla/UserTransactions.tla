-------------------------- MODULE UserTransactions --------------------------
(***************************************************************************)
(* The writers of event-users, statement by statement: POST and PATCH of   *)
(* /api/users and the two handlers of the queue events.user.email, running *)
(* concurrently against PostgreSQL at READ COMMITTED.                      *)
(*                                                                         *)
(* A worker is one handler with its session.  What its transaction has     *)
(* written is in tx[w] until the commit, so nobody else reads it; its      *)
(* locks follow from what it has written.  A statement that would wait for *)
(* another transaction is not enabled: Blockers(w) are the ones it waits   *)
(* for.  A statement that can wait while it already holds what others wait *)
(* for takes several steps: an UPDATE locks its row and then enters its    *)
(* new key in the unique index, a batch of contacts locks its rows one     *)
(* after the other, and a foreign key is checked at the end.               *)
(***************************************************************************)
EXTENDS UserTables, Naturals, Sequences, FiniteSets

CONSTANTS
    Workers,        \* handlers that may run at the same time
    MaxUnnumbered   \* bound on changelog entries without a message id

ASSUME BoundIsNat == MaxUnnumbered \in Nat

\* gen_random_uuid() never runs out of ids.
ASSUME IdsSuffice ==
    IsFiniteSet(UserIds) =>
        /\ IsFiniteSet(Emails \X Roles)
        /\ Cardinality(UserIds) >= Cardinality(Emails \X Roles)

VARIABLES
    users,      \* committed rows of users, Null where there is none
    contacts,   \* committed rows of user_contacts
    changelog,  \* committed rows of user_email_changelog, in commit order
    pc,         \* the statement a worker runs next, or its outcome
    req,        \* the request a worker handles
    tx          \* what the open transaction of a worker holds

tables == <<users, contacts, changelog>>
vars   == <<users, contacts, changelog, pc, req, tx>>

Statements == {"get", "insert", "update", "gate", "change", "index",
               "upsert", "contacts", "fk", "entry", "commit"}
Outcomes   == {"ok", "duplicate", "not_found", "conflict", "invalid", "error"}

(***************************************************************************)
(* An open transaction: the user it touches, its version of the user's row *)
(* (Null: none), the contacts it has written so far and the channel whose  *)
(* row it wants next, the entry it adds, the address it read without a     *)
(* lock, and whether a foreign key check of it holds FOR KEY SHARE on the  *)
(* user.                                                                   *)
(***************************************************************************)
Transaction == [user: UserIds \cup {Null}, row: User \cup {Null},
                contacts: Contacts, wants: AllChannels \cup {Null},
                entry: Entry \cup {Null}, seen: Emails \cup {Null},
                shared: BOOLEAN]

NoTransaction == [user |-> Null, row |-> Null, contacts |-> NoContacts,
                  wants |-> Null, entry |-> Null, seen |-> Null,
                  shared |-> FALSE]

TypeOK ==
    /\ users \in [UserIds -> User \cup {Null}]
    /\ contacts \in [UserIds -> Contacts]
    /\ changelog \in Seq(Entry)
    /\ pc \in [Workers -> {"idle"} \cup Statements \cup Outcomes]
    /\ req \in [Workers -> Requests \cup {Null}]
    /\ tx \in [Workers -> Transaction]

Init ==
    /\ users = [u \in UserIds |-> Null]
    /\ contacts = [u \in UserIds |-> NoContacts]
    /\ changelog = <<>>
    /\ pc = [w \in Workers |-> "idle"]
    /\ req = [w \in Workers |-> Null]
    /\ tx = [w \in Workers |-> NoTransaction]

-----------------------------------------------------------------------------
(***************************************************************************)
(* Locks.                                                                  *)
(***************************************************************************)
Others(w) == Workers \ {w}

\* Workers whose UPDATE or INSERT holds the row of user u.
RowWriters(u) == {v \in Workers : tx[v].user = u /\ tx[v].row # Null}

\* ... and among them those that change its unique key: FOR UPDATE, where a
\* write of other columns takes FOR NO KEY UPDATE.
KeyWriters(u) ==
    {v \in RowWriters(u) : users[u] # Null /\ Key(users[u]) # Key(tx[v].row)}

\* Workers that hold FOR KEY SHARE on user u.
KeySharers(u) == {v \in Workers : tx[v].user = u /\ tx[v].shared}

\* Variant: uniqueness is looked up and not enforced by the index.
KeyHolders_Unseen(k) == {}

\* Workers with a version of a row under key k, old or new, in the unique
\* index uq_users_email_role.  At "index" the new one is not there yet.
KeyHolders(k) ==
    {v \in Workers : /\ tx[v].row # Null
                     /\ \/ pc[v] # "index" /\ Key(tx[v].row) = k
                        \/ /\ users[tx[v].user] # Null
                           /\ Key(users[tx[v].user]) = k}

\* Workers that hold the contact of user u on channel c.
ContactWriters(u, c) ==
    {v \in Workers : tx[v].user = u /\ tx[v].contacts[c] # Null}

\* Workers with an uncommitted entry of message m.
MessageHolders(m) ==
    {v \in Workers : tx[v].entry # Null /\ tx[v].entry.id = m /\ m # Null}

\* The user has a committed row.
Known(u) == users[u] # Null

\* Variant: the constraint uq_users_email_role is dropped.
KeyTaken_Never(k, u) == FALSE

\* The unique index refuses key k to user u (Null: a new row).
KeyTaken(k, u) == \E x \in UserIds \ {u} : Known(x) /\ Key(users[x]) = k

-----------------------------------------------------------------------------
(***************************************************************************)
(* The row that the UPDATE of a worker would write.                        *)
(***************************************************************************)
MarksAdmin(w) == req[w].email # Null /\ tx[w].seen # req[w].email

UpdatedRow(w) ==
    LET u == req[w].user IN
    IF pc[w] = "change" THEN ReaddressedUser(users[u], req[w])
                        ELSE PatchedUser(users[u], req[w], MarksAdmin(w))

\* ... and whether that changes the unique key.
MovesKey(w) == Key(UpdatedRow(w)) # Key(users[req[w].user])

\* Variant: the row is read, changed and written back without its lock.
UpdateBlockers_NoRowLock(w) ==
    IF Known(req[w].user) /\ MovesKey(w) THEN KeySharers(req[w].user) ELSE {}

\* The lock of the row waits for its writers, and if the UPDATE changes the
\* key also for the key shares on the row.
UpdateBlockers(w) ==
    LET u == req[w].user IN
    IF ~Known(u) THEN {}
    ELSE RowWriters(u) \cup (IF MovesKey(w) THEN KeySharers(u) ELSE {})

\* Variant: the message id is looked up before the insert.
GateBlockers_LooksUp(w) ==
    IF req[w].id \in MessagesIn(changelog) THEN {} ELSE KeyWriters(req[w].user)

\* The changelog insert of the consumer waits for an equal message id, then
\* its foreign key check waits for a change of the user's key.  It holds its
\* own id meanwhile; that is left out, for no writer of a key ever waits for
\* an id, and two copies of a message that wait here run one by one.
GateBlockers(w) ==
    MessageHolders(req[w].id) \cup
    (IF req[w].id \in MessagesIn(changelog) THEN {}
     ELSE KeyWriters(req[w].user))

\* The transactions that the next statement of w waits for.
Blockers(w) ==
    Others(w) \cap
    CASE pc[w] = "update" -> IF SetsNothing(req[w]) THEN {}
                             ELSE UpdateBlockers(w)
      [] pc[w] = "change" -> UpdateBlockers(w)
      [] pc[w] = "index"  -> KeyHolders(Key(tx[w].row))
      [] pc[w] = "gate"   -> GateBlockers(w)
      [] pc[w] \in {"insert", "upsert"}
                          -> KeyHolders(<<req[w].email, req[w].role>>)
      [] pc[w] = "contacts" -> ContactWriters(tx[w].user, tx[w].wants)
      [] pc[w] = "fk"     -> KeyWriters(tx[w].user)
      [] OTHER            -> {}

\* w executes its statement at: it waits for nobody.
Runs(w, at) == pc[w] = at /\ Blockers(w) = {}

\* Ids that no row, committed or not, has.
FreshIds ==
    {u \in UserIds : ~Known(u) /\ \A v \in Workers : tx[v].user # u}

-----------------------------------------------------------------------------
(***************************************************************************)
(* How a handler moves on.                                                 *)
(***************************************************************************)
Goto(w, at) == pc' = [pc EXCEPT ![w] = at]

\* The statement has run: the transaction is now t, the next statement at.
Continue(w, t, at) ==
    /\ tx' = [tx EXCEPT ![w] = t]
    /\ Goto(w, at)
    /\ UNCHANGED <<tables, req>>

\* Variant: a handler that fails forgets its open transaction.
Discard_Leaks(w, outcome) == Continue(w, tx[w], outcome)

\* The transaction ends without an effect: a rollback, or the commit of a
\* transaction that wrote nothing or that a failed statement has aborted.
Discard(w, outcome) == Continue(w, NoTransaction, outcome)

\* The transaction of w becomes visible.
Apply(w) ==
    LET t == tx[w] IN
    /\ users' = IF t.row = Null THEN users
                ELSE [users EXCEPT ![t.user] = t.row]
    /\ contacts' = [contacts EXCEPT ![t.user] = Merge(@, t.contacts)]
    /\ changelog' = IF t.entry = Null THEN changelog
                    ELSE Append(changelog, t.entry)
    /\ tx' = [tx EXCEPT ![w] = NoTransaction]
    /\ UNCHANGED req

\* The channels of the batch that _upsert_contacts makes of a request: those
\* the client lists and that of the address.
Listed(r) ==
    {c \in AllChannels : GivenContacts(r)[c] # Null} \cup {EmailChannel}

\* The rows that may come next when those of the channels in done are locked.
\* The client chooses the order; the address, which the code appends, is last
\* unless the client has listed its channel too and so placed its key.
NextChannels(r, done) ==
    LET left == Listed(r) \ done IN
    IF GivenContacts(r)[EmailChannel] = Null /\ left # {EmailChannel}
    THEN left \ {EmailChannel} ELSE left

\* The statement has run, and the batch of contacts is next.
ToContacts(w, t) ==
    \E c \in NextChannels(req[w], {}) :
        Continue(w, [t EXCEPT !.wants = c], "contacts")

\* Requests that may add an entry without a message id, which no index
\* bounds: MaxUnnumbered does.
Unnumbered(r) == \/ r.op = "patch" /\ r.email # Null
                 \/ r.op = "email_change" /\ r.id = Null

Room(r) ==
    Unnumbered(r) =>
        Cardinality({i \in DOMAIN changelog : changelog[i].id = Null}) +
        Cardinality({v \in Workers : req[v] # Null /\ Unnumbered(req[v])})
            < MaxUnnumbered

\* The first statement of a request: controllers that refuse the time zone
\* run none, and the consumer does not look at it.
FirstStatement(r) ==
    CASE r.op = "create" ->
            IF ZoneAccepted(r.time_zone) THEN "insert" ELSE "invalid"
      [] r.op = "patch" ->
            IF ~ZoneAccepted(r.time_zone) THEN "invalid"
            ELSE IF r.email = Null THEN "update" ELSE "get"
      [] r.op = "email_change" -> "gate"
      [] r.op = "upserted"     -> "upsert"

\* A request arrives, or the broker delivers a message, again or for the
\* first time.
Begin(w, r) ==
    /\ pc[w] = "idle"
    /\ Room(r)
    /\ req' = [req EXCEPT ![w] = r]
    /\ Goto(w, FirstStatement(r))
    /\ UNCHANGED <<tables, tx>>

\* The answer is sent, or the message acknowledged or rejected.
Finish(w) ==
    /\ pc[w] \in Outcomes
    /\ req' = [req EXCEPT ![w] = Null]
    /\ Goto(w, "idle")
    /\ UNCHANGED <<tables, tx>>

-----------------------------------------------------------------------------
(***************************************************************************)
(* POST /api/users.                                                        *)
(***************************************************************************)
InsertUser(w) ==
    /\ Runs(w, "insert")
    /\ ~KeyTaken(<<req[w].email, req[w].role>>, Null)
    /\ \E u \in FreshIds :
          ToContacts(w, [tx[w] EXCEPT !.user = u,
                                      !.row = CreatedUser(req[w])])

InsertConflict(w) ==
    /\ Runs(w, "insert")
    /\ KeyTaken(<<req[w].email, req[w].role>>, Null)
    /\ Discard(w, "conflict")

(***************************************************************************)
(* PATCH /api/users/id/{user_id}.                                          *)
(***************************************************************************)
\* Variant: get_user reads FOR KEY SHARE.
GetUser_Locks(w) ==
    /\ Runs(w, "get")
    /\ IF Known(req[w].user)
       THEN Continue(w, [tx[w] EXCEPT !.user = req[w].user, !.shared = TRUE,
                                      !.seen = users[req[w].user].email],
                     "update")
       ELSE Discard(w, "not_found")

\* get_user before an address is set: it locks nothing.
GetUser(w) ==
    /\ Runs(w, "get")
    /\ IF Known(req[w].user)
       THEN Continue(w, [tx[w] EXCEPT !.seen = users[req[w].user].email],
                     "update")
       ELSE Discard(w, "not_found")

UpdateNoUser(w) ==
    /\ Runs(w, "update")
    /\ ~Known(req[w].user)
    /\ Discard(w, "not_found")

\* Without a SET clause _apply_update only reads the row.
SelectUser(w) ==
    /\ Runs(w, "update")
    /\ Known(req[w].user)
    /\ SetsNothing(req[w])
    /\ ToContacts(w, [tx[w] EXCEPT !.user = req[w].user,
                                   !.seen = users[req[w].user].email])

\* An UPDATE has locked and written its row; a new key is yet to enter the
\* unique index.
WriteRow(w) ==
    LET t == [tx[w] EXCEPT !.user = req[w].user, !.row = UpdatedRow(w)]
    IN  \/ MovesKey(w)  /\ Continue(w, t, "index")
        \/ ~MovesKey(w) /\ ToContacts(w, t)

UpdateUser(w) ==
    /\ Runs(w, "update")
    /\ Known(req[w].user)
    /\ ~SetsNothing(req[w])
    /\ WriteRow(w)

\* The second half of an UPDATE of either path that changes the key.
IndexRow(w) ==
    /\ Runs(w, "index")
    /\ ~KeyTaken(Key(tx[w].row), tx[w].user)
    /\ ToContacts(w, tx[w])

IndexConflict(w) ==
    /\ Runs(w, "index")
    /\ KeyTaken(Key(tx[w].row), tx[w].user)
    /\ Discard(w, IF req[w].op = "patch" THEN "conflict" ELSE "error")

\* The entry of an address that a PATCH has changed.
AddEntry(w) ==
    /\ Runs(w, "entry")
    /\ Continue(w, [tx[w] EXCEPT
                      !.entry = [user |-> req[w].user, old |-> tx[w].seen,
                                 new |-> req[w].email, id |-> Null],
                      !.shared = TRUE],
                "commit")

(***************************************************************************)
(* user.email.change_requested.                                            *)
(***************************************************************************)
\* The changelog insert is the idempotency gate.
GateDuplicate(w) ==
    /\ Runs(w, "gate")
    /\ req[w].id \in MessagesIn(changelog)
    /\ Discard(w, "duplicate")

\* No such user: the foreign key of the entry fails.
GateNoUser(w) ==
    /\ Runs(w, "gate")
    /\ req[w].id \notin MessagesIn(changelog)
    /\ ~Known(req[w].user)
    /\ Discard(w, "error")

\* Variant: the two addresses are swapped in the entry.
GateOpen_Swapped(w) ==
    /\ Runs(w, "gate")
    /\ req[w].id \notin MessagesIn(changelog)
    /\ Known(req[w].user)
    /\ Continue(w, [tx[w] EXCEPT
                      !.user = req[w].user,
                      !.entry = [user |-> req[w].user, old |-> req[w].new,
                                 new |-> req[w].old, id |-> req[w].id],
                      !.shared = TRUE],
                "change")

GateOpen(w) ==
    /\ Runs(w, "gate")
    /\ req[w].id \notin MessagesIn(changelog)
    /\ Known(req[w].user)
    /\ Continue(w, [tx[w] EXCEPT
                      !.user = req[w].user,
                      !.entry = [user |-> req[w].user, old |-> req[w].old,
                                 new |-> req[w].new, id |-> req[w].id],
                      !.shared = TRUE],
                "change")

ChangeEmail(w) ==
    /\ Runs(w, "change")
    /\ WriteRow(w)

(***************************************************************************)
(* user.upserted.                                                          *)
(***************************************************************************)
UpsertInserts(w) ==
    /\ Runs(w, "upsert")
    /\ ~KeyTaken(<<req[w].email, req[w].role>>, Null)
    /\ \E u \in FreshIds :
          ToContacts(w, [tx[w] EXCEPT !.user = u,
                                      !.row = ImportedUser(req[w])])

UpsertUpdates(w) ==
    /\ Runs(w, "upsert")
    /\ \E u \in UserIds :
          /\ Known(u)
          /\ Key(users[u]) = <<req[w].email, req[w].role>>
          /\ ToContacts(w, [tx[w] EXCEPT
                              !.user = u,
                              !.row = RefreshedUser(users[u], req[w])])

-----------------------------------------------------------------------------
(***************************************************************************)
(* The contacts of every path, and the end of the transaction.             *)
(***************************************************************************)
\* Variant: the contact takes the address that was read before the UPDATE.
BatchEmail_Read(w) == IF tx[w].seen # Null THEN tx[w].seen ELSE tx[w].row.email

\* The address that a batch gives to the email contact: of the row this
\* transaction wrote, or of the row it only read.
BatchEmail(w) == IF tx[w].row # Null THEN tx[w].row.email ELSE tx[w].seen

UserBatch(w) == Batch(GivenContacts(req[w]), BatchEmail(w))

\* A contact on a channel that has none is a new row, whose foreign key is
\* checked; a transaction that holds the user's row has that lock already.
ChecksUser(w) ==
    /\ tx[w].row = Null
    /\ \E c \in Listed(req[w]) : contacts[tx[w].user][c] = Null

\* Variant: a PATCH leaves no audit entry.
AddsEntry_Never(w) == FALSE

\* update_user of the controller adds an entry when the address it read is
\* not the one it was given.
AddsEntry(w) == req[w].op = "patch" /\ MarksAdmin(w)

\* The contacts of w when it has locked and written the row it wants, and
\* the channels of which one is next.
Extended(w) ==
    [tx[w].contacts EXCEPT ![tx[w].wants] = UserBatch(w)[tx[w].wants]]

Left(w) ==
    NextChannels(req[w], {c \in AllChannels : Extended(w)[c] # Null})

\* The batch locks and writes one row and goes on to the next,
UpsertContact(w) ==
    /\ Runs(w, "contacts")
    /\ \E c \in Left(w) :
          Continue(w, [tx[w] EXCEPT !.contacts = Extended(w), !.wants = c],
                   "contacts")

\* ... or it was the last one, and what the statement owes is checked.
UpsertContacts(w) ==
    /\ Runs(w, "contacts")
    /\ Left(w) = {}
    /\ Continue(w, [tx[w] EXCEPT !.contacts = Extended(w), !.wants = Null],
                IF ChecksUser(w) THEN "fk"
                ELSE IF AddsEntry(w) THEN "entry" ELSE "commit")

CheckUser(w) ==
    /\ Runs(w, "fk")
    /\ Continue(w, [tx[w] EXCEPT !.shared = TRUE], "commit")

Commit(w) ==
    /\ Runs(w, "commit")
    /\ Apply(w)
    /\ Goto(w, "ok")

\* The commit is done and its answer is lost: the handler sees an error.
CommitUnanswered(w) ==
    /\ Runs(w, "commit")
    /\ Apply(w)
    /\ Goto(w, "error")

\* The connection or the process is lost: the server rolls back.
Lose(w) ==
    /\ pc[w] \in Statements
    /\ Discard(w, "error")

\* Workers that wait for one another: nobody in the set can go on before
\* another member has ended its transaction.
Deadlocked(set) ==
    /\ set # {}
    /\ \A w \in set : Blockers(w) \cap set # {}

\* The deadlock detector of the server aborts a member of the cycle.
Victim(w) ==
    /\ \E set \in SUBSET Workers : w \in set /\ Deadlocked(set)
    /\ Discard(w, "error")

-----------------------------------------------------------------------------
Statement(w) ==
    \/ InsertUser(w) \/ InsertConflict(w)
    \/ GetUser(w) \/ UpdateNoUser(w) \/ SelectUser(w) \/ UpdateUser(w)
    \/ IndexRow(w) \/ IndexConflict(w) \/ AddEntry(w)
    \/ GateDuplicate(w) \/ GateNoUser(w) \/ GateOpen(w) \/ ChangeEmail(w)
    \/ UpsertInserts(w) \/ UpsertUpdates(w)
    \/ UpsertContact(w) \/ UpsertContacts(w) \/ CheckUser(w)
    \/ Commit(w) \/ CommitUnanswered(w)

Next ==
    \E w \in Workers :
        \/ \E r \in Requests : Begin(w, r)
        \/ Statement(w)
        \/ Victim(w)
        \/ Lose(w)
        \/ Finish(w)

Spec == Init /\ [][Next]_vars

(***************************************************************************)
(* Fairness.  The event loop runs every handler, so a statement that waits *)
(* for nobody is run; the deadlock detector of the server wakes up after   *)
(* deadlock_timeout.  No fairness among waiters is assumed: key shares may *)
(* overtake an UPDATE that waits, as they do in PostgreSQL.                *)
(***************************************************************************)
Fairness ==
    \A w \in Workers : /\ WF_vars(Statement(w))
                       /\ WF_vars(Victim(w))
                       /\ WF_vars(Finish(w))

LiveSpec == Spec /\ Fairness

-----------------------------------------------------------------------------
(***************************************************************************)
(* Safety.                                                                 *)
(***************************************************************************)
\* No two users share an address and a role, whatever writers race for it:
\* POST, PATCH of either column, both consumer handlers.
EmailRoleUnique ==
    \A u, v \in UserIds :
        Known(u) /\ Known(v) /\ Key(users[u]) = Key(users[v]) => u = v

\* The email contact that _upsert_contacts and handle_email_change maintain
\* is the address of the user, although the row and the contact are written
\* by different statements of racing transactions.
ContactFollowsEmail ==
    \A u \in UserIds : Known(u) => contacts[u][EmailChannel] = users[u].email

\* Copies of one message, however they overlap, leave one changelog entry,
\* and with it (same transaction) change the user once.
MessageOnce ==
    \A i, j \in DOMAIN changelog :
        changelog[i].id # Null /\ changelog[i].id = changelog[j].id => i = j

\* The last entry of a user whose address came from an administrator names
\* that address: entries and addresses are committed in the same order.
LastEntryOf(u) ==
    LET own == {i \in DOMAIN changelog : changelog[i].user = u}
    IN  changelog[CHOOSE i \in own : \A j \in own : j <= i]

AdminAddressAudited ==
    \A u \in UserIds :
        Known(u) /\ users[u].email_source = "admin" =>
            /\ \E i \in DOMAIN changelog : changelog[i].user = u
            /\ LastEntryOf(u).new = users[u].email

\* The step replaces the address of u.
Readdresses(u) == Known(u) /\ users'[u].email # users[u].email

\* The step adds an entry about the new address of u.
Audits(u) ==
    /\ Len(changelog') = Len(changelog) + 1
    /\ changelog'[Len(changelog')].user = u
    /\ changelog'[Len(changelog')].new = users'[u].email

\* docs/DATA_MODEL.md:87: every change of address by an administrator adds
\* an entry.
EveryChangeAudited ==
    [][\A u \in UserIds : Readdresses(u) => Audits(u)]_vars

\* docs/DATA_MODEL.md:93: the entry names the address that was replaced.
NamesReplaced(u) == changelog'[Len(changelog')].old = users[u].email

\* The address that w holds to be the user's.
Believed(w) == IF req[w].op = "patch" THEN tx[w].seen ELSE req[w].old

\* A change without an entry, or with one that names a wrong old address, is
\* the work of one race alone: its request relies on an address, read without
\* a lock or given in the message, that has been replaced since.
AuditFailsOnlyByStaleRead ==
    [][\A u \in UserIds :
          Readdresses(u) /\ ~(Audits(u) /\ NamesReplaced(u)) =>
          \E w \in Workers : /\ pc[w] = "commit" /\ pc'[w] # "commit"
                             /\ req[w].op \in {"patch", "email_change"}
                             /\ req[w].user = u
                             /\ Believed(w) # users[u].email]_vars

\* users_db.py:148: after an administrator has changed an address, the sync
\* does not bring the old one back as a second user.
NoResurrection ==
    [][\A u \in UserIds : ~Known(u) /\ users'[u] # Null =>
          ~\E i \in DOMAIN changelog :
              LET v == changelog[i].user IN
              /\ users[v].email_source = "admin"
              /\ users[v].role = users'[u].role
              /\ changelog[i].old = users'[u].email]_vars

OfOneUser(set) == \E u \in UserIds : \A w \in set : tx[w].user = u

\* Every deadlock has a core of one of three kinds.  Address changes of one
\* user have passed the gate, each with a key share on the user that the
\* UPDATE of another waits for.  Or batches of contacts of one user wait for
\* each other: two with channels in different order, or one whose foreign key
\* check waits for a writer of the user's key that waits for its contacts.
\* Or users exchange their keys: each UPDATE holds its row, and waits in the
\* unique index for the key that another of them is about to leave.
DeadlocksHaveKinds ==
    \A set \in SUBSET Workers : Deadlocked(set) =>
        \E core \in SUBSET set :
            /\ Deadlocked(core)
            /\ \/ OfOneUser(core) /\ \A w \in core : pc[w] = "change"
               \/ /\ OfOneUser(core)
                  /\ \A w \in core : pc[w] \in {"contacts", "fk"}
               \/ \A w \in core :
                     /\ pc[w] = "index"
                     /\ \E v \in core :
                           /\ tx[v].user # tx[w].user
                           /\ Key(users[tx[v].user]) = Key(tx[w].row)

(***************************************************************************)
(* The database as its readers see it is a registry that serves requests   *)
(* one at a time.                                                          *)
(***************************************************************************)
Registry == INSTANCE UserRegistry
RegistrySpec == Registry!Spec

\* w relies on an address, read without a lock, that has been replaced since.
ReadIsStale(w) ==
    /\ req[w].op = "patch"
    /\ tx[w].seen \notin {Null, users[req[w].user].email}

\* users_db.py:67-183, consumer.py:36-126.  Whatever is requested, nothing but
\* such a stale read makes a commit differ from what the request it serves
\* would have done alone, on the tables as they are at the commit.
ServedUnlessStale ==
    [][\E w \in Workers : /\ pc[w] = "commit" /\ pc'[w] # "commit"
                          /\ Registry!Serve(req[w]) \/ ReadIsStale(w)]_tables

(***************************************************************************)
(* Liveness.                                                               *)
(***************************************************************************)
\* When requests stop to arrive every handler ends, in spite of locks held
\* across statements and of deadlocks.
NobodyBegins == \A w \in Workers : pc[w] = "idle" => pc'[w] = "idle"

HandlersDrain ==
    <>[][NobodyBegins]_vars => <>[](\A w \in Workers : pc[w] = "idle")
=============================================================================
