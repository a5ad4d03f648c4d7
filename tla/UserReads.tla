------------------------------ MODULE UserReads ------------------------------
(***************************************************************************)
(* The reads of event-users: GET /api/users and the changelog in pages,    *)
(* users by id, by identity and by a list of ids.  Each is several         *)
(* statements in one READ COMMITTED transaction, so each statement has a   *)
(* snapshot of its own, and a client that turns pages has many.            *)
(*                                                                         *)
(* Rows carry now() of the transaction that wrote them, which is when it   *)
(* began.  A transaction that writes is therefore two steps here, its      *)
(* begin and its commit, and three if it reads an address without a lock,  *)
(* as a PATCH does: what it has locked stays as it is until the commit,    *)
(* what it has only read does not.  A read changes nothing, so one reader  *)
(* stands for all of them.                                                 *)
(***************************************************************************)
EXTENDS UserTables, Naturals, Sequences, FiniteSets, Bags

CONSTANTS
    Writers,            \* transactions that may be open at the same time
    MaxTransactions,    \* bound on the transactions that begin
    Queries,            \* the reads of an instance
    MaxIds              \* by-ids refuses more ids than that

VARIABLES
    users, contacts, changelog,     \* the tables
    created,    \* created_at of each user, 0 without one
    changed,    \* changed_at of each entry of the changelog
    clock,      \* how many transactions have begun
    writer,     \* the open transaction of each writer, Null without one
    read,       \* what the reader does, Null if it does nothing
    always,     \* the rows that have matched its query since it began
    ever,       \* the rows that have matched it at any time since
    seen,       \* how often each row was on a page, a bag
    addresses,  \* the addresses of each user since its row was read
    overlapped, \* users whose address was written while an older transaction
                \* that would write it, too, was open
    misled      \* requests that have put an address back that was replaced
                \* after they had read it

tables  == <<users, contacts, changelog, created, changed>>
history == <<always, ever, seen, addresses, overlapped, misled>>
vars    == <<tables, clock, writer, read, history>>

Registry == INSTANCE UserRegistry

(***************************************************************************)
(* Queries.  A search term stands for the addresses that contain it.       *)
(***************************************************************************)
ListQuery      == [op: {"list"}, emails: SUBSET Emails,
                   role: Roles \cup {Null}, limit: Nat \ {0}]
ChangelogQuery == [op: {"changelog"}, user: UserIds, limit: Nat \ {0}]
PagedQuery     == ListQuery \cup ChangelogQuery
ByIdsQuery     == [op: {"by_ids"}, ids: SUBSET UserIds]
UserQuery      == [op: {"user"}, user: UserIds]
IdentityQuery  == [op: {"identity"}, email: Emails, role: Roles]

ASSUME QueriesAreTyped ==
    Queries \subseteq PagedQuery \cup ByIdsQuery \cup UserQuery
                      \cup IdentityQuery

ASSUME ReadBoundsAreTyped == MaxTransactions \in Nat /\ MaxIds \in Nat

\* The rows that a WHERE clause selects: ids of users, or indexes of the
\* changelog.
Matching(q) ==
    CASE q.op = "list" ->
           {u \in UserIds : /\ users[u] # Null
                            /\ users[u].email \in q.emails
                            /\ q.role \in {Null, users[u].role}}
      [] q.op = "changelog" ->
           {i \in DOMAIN changelog : changelog[i].user = q.user}
      [] q.op = "by_ids" -> {u \in q.ids : users[u] # Null}
      [] q.op = "user" -> {u \in {q.user} : users[u] # Null}
      [] q.op = "identity" ->
           {u \in UserIds : /\ users[u] # Null
                            /\ Key(users[u]) = <<q.email, q.role>>}

\* Variant: the entries come oldest first.
Before_Ascending(q, x, y) ==
    IF q.op = "list" THEN created[x] < created[y] ELSE changed[x] < changed[y]

\* ORDER BY created_at, and ORDER BY changed_at DESC.
Before(q, x, y) ==
    IF q.op = "list" THEN created[x] < created[y] ELSE changed[y] < changed[x]

\* How many rows come before x.
Rank(q, x) == Cardinality({y \in Matching(q) : Before(q, y, x)})

\* LIMIT and OFFSET.
Page(q, offset) ==
    {x \in Matching(q) : Rank(q, x) \in offset .. offset + q.limit - 1}

(***************************************************************************)
(* The reader: the query, the offset of its page, the next statement, the  *)
(* total that was counted, the rows of users and the contacts it has read. *)
(***************************************************************************)
ReadStages == {"count", "rows", "contacts", "answer"}

Read == [query: Queries, offset: Nat, at: ReadStages, total: Nat,
         rows: UNION {[s -> User] : s \in SUBSET UserIds},
         contacts: UNION {[s -> Contacts] : s \in SUBSET UserIds}]

\* What a transaction began with, when, and the address it has read.
Transaction == [req: Requests, since: Nat, seen: Emails \cup {Null}]

\* A row of a page: the id of a user, or the index of an entry.
Row == UserIds \cup Nat

TypeOK ==
    /\ users \in [UserIds -> User \cup {Null}]
    /\ contacts \in [UserIds -> Contacts]
    /\ changelog \in Seq(Entry)
    /\ created \in [UserIds -> 0 .. MaxTransactions]
    /\ changed \in Seq(1 .. MaxTransactions)
    /\ Len(changed) = Len(changelog)
    /\ clock \in 0 .. MaxTransactions
    /\ writer \in [Writers -> Transaction \cup {Null}]
    /\ read # Null => read \in Read
    /\ always \subseteq ever /\ ever \subseteq Row
    /\ IsABag(seen) /\ BagToSet(seen) \subseteq ever
    /\ addresses \in [UserIds -> SUBSET Emails]
    /\ overlapped \subseteq UserIds
    /\ misled \subseteq Requests

Init ==
    /\ Registry!Init
    /\ created = [u \in UserIds |-> 0]
    /\ changed = <<>>
    /\ clock = 0
    /\ writer = [w \in Writers |-> Null]
    /\ read = Null
    /\ always = {}
    /\ ever = {}
    /\ seen = EmptyBag
    /\ addresses = [u \in UserIds |-> {}]
    /\ overlapped = {}
    /\ misled = {}

-----------------------------------------------------------------------------
(***************************************************************************)
(* Transactions that write.                                                *)
(***************************************************************************)
\* The first statement runs: now() is this moment until the transaction ends.
Begin(w, r) ==
    /\ writer[w] = Null
    /\ clock < MaxTransactions
    /\ clock' = clock + 1
    /\ writer' = [writer EXCEPT
                    ![w] = [req |-> r, since |-> clock + 1, seen |-> Null]]
    /\ UNCHANGED <<tables, read, history>>

\* A PATCH of the address, or of no column of users, reads the row before it
\* writes anything.
ReadsAddress(r) == r.op = "patch" /\ (r.email # Null \/ SetsNothing(r))

Look(w) ==
    /\ writer[w] # Null
    /\ writer[w].seen = Null
    /\ LET r == writer[w].req IN
       /\ ReadsAddress(r)
       /\ users[r.user] # Null
       /\ writer' = [writer EXCEPT ![w].seen = users[r.user].email]
    /\ UNCHANGED <<tables, clock, read, history>>

\* The request writes the address of u.
Readdresses(r, u) ==
    \/ r.op = "patch" /\ r.user = u /\ r.email # Null
    \/ r.op = "email_change" /\ r.user = u

\* The rest of a PATCH that has read the address seen: whether it marks and
\* records a change depends on that one, and without a column of users the
\* contact takes it, too.
PatchAfter(r, seenThen) ==
    LET u     == r.user
        marks == r.email # Null /\ seenThen # r.email
        row   == PatchedUser(users[u], r, marks)
    IN  /\ seenThen # Null /\ Registry!Exists(u)
        /\ ZoneAccepted(r.time_zone)
        /\ SetsNothing(r) \/ Registry!KeyIsFree(row, u)
        /\ users' = [users EXCEPT ![u] = row]
        /\ contacts' = [contacts EXCEPT
                          ![u] = Merge(@, Batch(r.contacts,
                                   IF SetsNothing(r) THEN seenThen
                                                     ELSE row.email))]
        /\ changelog' =
             IF marks
             THEN Append(changelog, [user |-> u, old |-> seenThen,
                                     new |-> r.email, id |-> Null])
             ELSE changelog

\* What the transaction has done when it commits.
Serve(t) ==
    IF ReadsAddress(t.req) THEN PatchAfter(t.req, t.seen)
                           ELSE Registry!Serve(t.req)

\* t writes the address that it has read, and that is the user's no more.
PutsBack(t) ==
    /\ ReadsAddress(t.req)
    /\ t.req.email \in {Null, t.seen}
    /\ t.seen # users[t.req.user].email

\* Variant: the upsert sets created_at of the user that it finds, too.
CreatedAt_Upserted(since) ==
    [u \in UserIds |-> IF users'[u] # users[u] THEN since ELSE created[u]]

\* A new user is created at now(); nothing moves created_at later.
CreatedAt(since) ==
    [u \in UserIds |->
        IF users[u] = Null /\ users'[u] # Null THEN since ELSE created[u]]

\* changed_at of a new entry.
ChangedAt(since) ==
    IF changelog' = changelog THEN changed ELSE Append(changed, since)

\* What the properties remember of a commit.
Remember(w) ==
    /\ read # Null =>
          /\ always' = always \cap Matching(read.query)'
          /\ ever' = ever \cup Matching(read.query)'
    /\ read = Null => UNCHANGED <<always, ever>>
    /\ addresses' = [u \in UserIds |->
                       IF read # Null /\ users'[u] # Null
                       THEN addresses[u] \cup {users'[u].email}
                       ELSE addresses[u]]
    /\ overlapped' = overlapped \cup
         {u \in UserIds : /\ Readdresses(writer[w].req, u)
                          /\ \E v \in Writers \ {w} :
                                /\ writer[v] # Null
                                /\ writer[v].since < writer[w].since
                                /\ Readdresses(writer[v].req, u)}
    /\ misled' = misled \cup {r \in {writer[w].req} : PutsBack(writer[w])}

Commit(w) ==
    /\ writer[w] # Null
    /\ Serve(writer[w])
    /\ created' = CreatedAt(writer[w].since)
    /\ changed' = ChangedAt(writer[w].since)
    /\ writer' = [writer EXCEPT ![w] = Null]
    /\ UNCHANGED <<clock, read, seen>>
    /\ Remember(w)

\* A transaction ends without an effect.
Rollback(w) ==
    /\ writer[w] # Null
    /\ writer' = [writer EXCEPT ![w] = Null]
    /\ UNCHANGED <<tables, clock, read, history>>

-----------------------------------------------------------------------------
(***************************************************************************)
(* The reader.                                                             *)
(***************************************************************************)
Paged(q) == q.op \in {"list", "changelog"}

At(stage) == read # Null /\ read.at = stage

\* The statement has run, and has read this.
Goto(stage, found) == read' = [found EXCEPT !.at = stage]

Without == [x \in {} |-> Null]

\* A request for the first page, or for the only answer there is.
Accept(q) ==
    /\ read = Null
    /\ q.op = "by_ids" => Cardinality(q.ids) <= MaxIds
    /\ read' = [query |-> q, offset |-> 0, total |-> 0,
                at |-> IF Paged(q) THEN "count" ELSE "rows",
                rows |-> Without, contacts |-> Without]
    /\ always' = Matching(q)
    /\ ever' = Matching(q)
    /\ seen' = EmptyBag
    /\ addresses' = [u \in UserIds |-> {}]
    /\ UNCHANGED <<tables, clock, writer, overlapped, misled>>

\* SELECT COUNT(*).
Count ==
    /\ At("count")
    /\ Goto("rows", [read EXCEPT !.total = Cardinality(Matching(read.query))])
    /\ UNCHANGED <<tables, clock, writer, history>>

\* Variant: the filters reach the COUNT alone.
Selected_Unfiltered(q, offset) == {u \in UserIds : users[u] # Null}

\* The rows that the statement of a query returns.
Selected(q, offset) == IF Paged(q) THEN Page(q, offset) ELSE Matching(q)

\* SELECT of entries: the answer of the changelog.
SelectEntries ==
    /\ At("rows")
    /\ read.query.op = "changelog"
    /\ Goto("answer", read)
    /\ seen' = seen (+) SetToBag(Page(read.query, read.offset))
    /\ UNCHANGED <<tables, clock, writer, always, ever, addresses, overlapped,
                   misled>>

\* SELECT of users; without one no contacts are read.
SelectUsers ==
    /\ At("rows")
    /\ read.query.op # "changelog"
    /\ LET ids == Selected(read.query, read.offset) IN
       /\ Goto(IF ids = {} THEN "answer" ELSE "contacts",
               [read EXCEPT !.rows = [u \in ids |-> users[u]],
                            !.contacts = Without])
       /\ seen' = seen (+) SetToBag(ids)
       /\ addresses' = [u \in UserIds |->
                          IF u \in ids THEN {users[u].email} ELSE {}]
    /\ UNCHANGED <<tables, clock, writer, always, ever, overlapped, misled>>

\* SELECT of contacts: another snapshot.
SelectContacts ==
    /\ At("contacts")
    /\ Goto("answer", [read EXCEPT !.contacts =
                         [u \in DOMAIN read.rows |-> contacts[u]]])
    /\ UNCHANGED <<tables, clock, writer, history>>

LastPage == read.offset + read.query.limit >= read.total

\* The client asks for the next page while there is one.
NextPage ==
    /\ At("answer")
    /\ Paged(read.query) /\ ~LastPage
    /\ Goto("count", [read EXCEPT !.offset = @ + read.query.limit,
                                  !.rows = Without, !.contacts = Without])
    /\ UNCHANGED <<tables, clock, writer, history>>

\* The client is content.
Leave ==
    /\ At("answer")
    /\ read' = Null
    /\ always' = {} /\ ever' = {} /\ seen' = EmptyBag
    /\ addresses' = [u \in UserIds |-> {}]
    /\ UNCHANGED <<tables, clock, writer, overlapped, misled>>

-----------------------------------------------------------------------------
Statement == Count \/ SelectEntries \/ SelectUsers \/ SelectContacts

Next ==
    \/ \E w \in Writers :
          \/ \E r \in Requests : Begin(w, r)
          \/ Look(w)
          \/ Commit(w)
          \/ Rollback(w)
    \/ \E q \in Queries : Accept(q)
    \/ Statement \/ NextPage \/ Leave

Spec == Init /\ [][Next]_vars

-----------------------------------------------------------------------------
(***************************************************************************)
(* Properties.                                                             *)
(***************************************************************************)
\* users_db.py:224-235, changelog_db.py:38-45.  Who turns all pages sees
\* each row that was there all the time exactly once, although every page is
\* counted and selected in snapshots of its own, unless rows that come before
\* it appeared or disappeared meanwhile.
PagesAreExact ==
    At("answer") /\ Paged(read.query) /\ LastPage =>
        \A x \in always :
            {y \in ever : Before(read.query, y, x)} \subseteq always =>
                BagIn(x, seen) /\ seen[x] = 1

\* users_db.py:185-290.  The email contact of an answer is the address of
\* the same answer, or one that the user got after its row was read: never an
\* older one, to which nothing must be sent any more, unless a PATCH of this
\* user without a column of users has once put an old address back.
ContactPutBack(u) == \E r \in misled : r.user = u /\ r.email = Null

ContactIsNotOlder ==
    At("answer") => \A u \in DOMAIN read.contacts :
        ContactPutBack(u) \/ read.contacts[u][EmailChannel] \in addresses[u]

\* changelog_db.py:45, docs/DATA_MODEL.md:97.  An address that came from an
\* administrator is the first of the changelog, unless transactions that
\* changed it overlapped, for then changed_at is not the order of the changes,
\* or a PATCH has put an address back which it had found in place.
AddressPutBack(u) == \E r \in misled : r.user = u /\ r.email # Null

ChangelogStartsWithAddress ==
    \A q \in Queries : q.op = "changelog" =>
        LET u == q.user IN
        u \notin overlapped /\ ~AddressPutBack(u) /\ users[u] # Null
        /\ users[u].email_source = "admin" =>
                \E i \in Page([q EXCEPT !.limit = 1], 0) :
                    changelog[i].new = users[u].email
=============================================================================
