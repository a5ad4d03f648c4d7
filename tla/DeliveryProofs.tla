--------------------------- MODULE DeliveryProofs ---------------------------
(***************************************************************************)
(* Proofs about Delivery, for every set of requests, users and handlers.   *)
(***************************************************************************)
EXTENDS Delivery, UserTablesProofs, FiniteSetTheorems

-----------------------------------------------------------------------------
(***************************************************************************)
(* What a transaction does to the tables.                                  *)
(***************************************************************************)
TablesTyped ==
    /\ users \in [UserIds -> User \cup {Null}]
    /\ contacts \in [UserIds -> Contacts]
    /\ changelog \in Seq(Entry)

\* The operators of the registry are the ones of the tables.
LEMMA RegistryOperators ==
    /\ \A row : Registry!Key(row) = Key(row)
    /\ \A kept, batch : Registry!Merge(kept, batch) = Merge(kept, batch)
    /\ \A given, email : Registry!Batch(given, email) = Batch(given, email)
    /\ \A log : Registry!MessagesIn(log) = MessagesIn(log)
    /\ \A r : Registry!ImportedUser(r) = ImportedUser(r)
    /\ \A r : Registry!CreatedUser(r) = CreatedUser(r)
    /\ \A row, r : Registry!RefreshedUser(row, r) = RefreshedUser(row, r)
    /\ \A row, r : Registry!ReaddressedUser(row, r) = ReaddressedUser(row, r)
    /\ \A row, r, mark :
          Registry!PatchedUser(row, r, mark) = PatchedUser(row, r, mark)
    /\ Registry!NoContacts = NoContacts
BY DEF Registry!Key, Key, Registry!Merge, Merge, Registry!Batch, Batch,
       Registry!MessagesIn, MessagesIn, Registry!ImportedUser, ImportedUser,
       Registry!CreatedUser, CreatedUser, Registry!RefreshedUser,
       RefreshedUser, Registry!ReaddressedUser, ReaddressedUser,
       Registry!PatchedUser, PatchedUser, Registry!NoContacts, NoContacts,
       Registry!Coalesce, Coalesce, Registry!AllChannels, AllChannels,
       Registry!EmailChannel, EmailChannel

\* Storing a row keeps the types, and the user has that row.
LEMMA StoreType ==
    ASSUME TablesTyped, NEW u \in UserIds, NEW row \in User,
           NEW given \in Contacts, Registry!Store(u, row, given)
    PROVE  /\ users' \in [UserIds -> User \cup {Null}]
           /\ contacts' \in [UserIds -> Contacts]
           /\ users'[u] = row /\ row # Null
           /\ \A v \in UserIds : users[v] # Null => users'[v] # Null
<1>1. row # Null
  BY NullIsNoValue
<1>2. row.email \in Emails
  BY DEF User
<1>3. Merge(contacts[u], Batch(given, row.email)) \in Contacts
  BY <1>2, BatchOfContacts, MergeType DEF TablesTyped
<1> QED
  BY <1>1, <1>3, RegistryOperators DEF TablesTyped, Registry!Store

\* An entry at the end of the changelog adds its id and drops none.
LEMMA AppendKeepsMessages ==
    ASSUME NEW log \in Seq(Entry), NEW entry \in Entry
    PROVE  /\ Append(log, entry) \in Seq(Entry)
           /\ MessagesIn(log) \subseteq MessagesIn(Append(log, entry))
           /\ entry.id # Null => entry.id \in MessagesIn(Append(log, entry))
<1> DEFINE new == Append(log, entry)
<1>1. /\ new \in Seq(Entry)
      /\ Len(new) = Len(log) + 1
      /\ \A i \in DOMAIN log : new[i] = log[i] /\ i \in DOMAIN new
      /\ new[Len(log) + 1] = entry
      /\ Len(log) + 1 \in DOMAIN new
  OBVIOUS
<1> HIDE DEF new
<1>2. MessagesIn(log) \subseteq MessagesIn(new)
  BY <1>1 DEF MessagesIn
<1>3. entry.id # Null => entry.id \in MessagesIn(new)
  BY <1>1 DEF MessagesIn
<1> QED
  BY <1>1, <1>2, <1>3 DEF new

\* The sync returns the id of a row with the key it was given.
LEMMA UpsertReturns ==
    ASSUME TablesTyped, NEW r \in Upserted, Registry!Upsert(r)
    PROVE  /\ users' \in [UserIds -> User \cup {Null}]
           /\ contacts' \in [UserIds -> Contacts]
           /\ changelog' = changelog
           /\ \A v \in UserIds : users[v] # Null => users'[v] # Null
           /\ \E u \in UserIds : users'[u] # Null /\ Key(users'[u]) = Key(r)
<1>1. r.contacts \in Contacts /\ Key(r) = <<r.email, r.role>>
  BY DEF Upserted, Key
<1>2. ASSUME NEW u \in UserIds, Registry!Store(u, ImportedUser(r), r.contacts)
      PROVE  /\ users' \in [UserIds -> User \cup {Null}]
             /\ contacts' \in [UserIds -> Contacts]
             /\ \A v \in UserIds : users[v] # Null => users'[v] # Null
             /\ users'[u] # Null /\ Key(users'[u]) = Key(r)
  <2>1. ImportedUser(r) \in User /\ Key(ImportedUser(r)) = Key(r)
    BY ImportedUserType DEF ImportedUser, Key
  <2> QED
    BY <1>1, <1>2, <2>1, StoreType
<1>3. ASSUME NEW u \in UserIds, users[u] # Null,
             Key(users[u]) = <<r.email, r.role>>,
             Registry!Store(u, RefreshedUser(users[u], r), r.contacts)
      PROVE  /\ users' \in [UserIds -> User \cup {Null}]
             /\ contacts' \in [UserIds -> Contacts]
             /\ \A v \in UserIds : users[v] # Null => users'[v] # Null
             /\ users'[u] # Null /\ Key(users'[u]) = Key(r)
  <2>1. users[u] \in User
    BY <1>3 DEF TablesTyped
  <2>2. /\ RefreshedUser(users[u], r) \in User
        /\ Key(RefreshedUser(users[u], r)) = Key(r)
    BY <1>1, <1>3, <2>1, RefreshedUserType
  <2> QED
    BY <1>1, <1>3, <2>2, StoreType
<1> QED
  BY <1>2, <1>3, RegistryOperators DEF Registry!Upsert, Registry!Exists

\* A transaction keeps the types, and neither users nor message ids go away.
\* That of an address change leaves its message id behind.
LEMMA TransactionKeeps ==
    ASSUME TablesTyped, NEW r \in Requests, Transaction(r)
    PROVE  /\ TablesTyped'
           /\ \A u \in UserIds : users[u] # Null => users'[u] # Null
           /\ MessagesIn(changelog) \subseteq MessagesIn(changelog')
           /\ r.op = "email_change" /\ r.id # Null
                => r.id \in MessagesIn(changelog')
<1>1. CASE r.op = "create" /\ Registry!Create(r)
  <2>1. r \in CreateRequest /\ CreatedUser(r) \in User /\ r.contacts \in Contacts
    BY <1>1, RequestKinds, CreatedUserType DEF CreateRequest
  <2>2. /\ changelog' = changelog
        /\ \E u \in UserIds : Registry!Store(u, CreatedUser(r), r.contacts)
    BY <1>1, RegistryOperators DEF Registry!Create
  <2>3. PICK u \in UserIds : Registry!Store(u, CreatedUser(r), r.contacts)
    BY <2>2
  <2> QED
    BY <1>1, <2>1, <2>2, <2>3, StoreType DEF TablesTyped
<1>2. CASE r.op = "patch" /\ Registry!Patch(r)
  <2> DEFINE u     == r.user
             moves == r.email # Null /\ r.email # users[u].email
             row   == PatchedUser(users[u], r, moves)
             entry == [user |-> u, old |-> users[u].email,
                       new |-> r.email, id |-> Null]
  <2>1. /\ r \in PatchRequest /\ u \in UserIds /\ r.contacts \in Contacts
        /\ r.email \in Emails \cup {Null}
    BY <1>2, RequestKinds DEF PatchRequest
  <2>2. /\ users[u] # Null
        /\ Registry!Store(u, row, r.contacts)
        /\ changelog' = IF moves THEN Append(changelog, entry) ELSE changelog
    BY <1>2, RegistryOperators DEF Registry!Patch, Registry!Exists
  <2>3. users[u] \in User
    BY <2>1, <2>2 DEF TablesTyped
  <2>4. row \in User
    BY <2>1, <2>3, PatchedUserType
  <2>5. /\ users' \in [UserIds -> User \cup {Null}]
        /\ contacts' \in [UserIds -> Contacts]
        /\ \A v \in UserIds : users[v] # Null => users'[v] # Null
    <3> HIDE DEF row, u
    <3> QED
      BY <2>1, <2>2, <2>4, StoreType
  <2>6. /\ changelog' \in Seq(Entry)
        /\ MessagesIn(changelog) \subseteq MessagesIn(changelog')
    <3>1. CASE moves
      <4>1. entry \in Entry
        BY <2>1, <2>3, <3>1 DEF Entry, User
      <4> HIDE DEF entry
      <4> QED
        BY <2>2, <3>1, <4>1, AppendKeepsMessages DEF TablesTyped
    <3>2. CASE ~moves
      BY <2>2, <3>2 DEF TablesTyped
    <3> QED
      BY <3>1, <3>2
  <2> QED
    BY <1>2, <2>5, <2>6 DEF TablesTyped
<1>3. CASE r.op = "email_change" /\ Registry!ChangeAddress(r)
  <2> DEFINE u     == r.user
             row   == ReaddressedUser(users[u], r)
             entry == [user |-> u, old |-> r.old, new |-> r.new, id |-> r.id]
  <2>1. r \in EmailChange /\ u \in UserIds /\ NoContacts \in Contacts
    BY <1>3, RequestKinds DEF EmailChange, NoContacts, Contacts
  <2>2. /\ users[u] # Null
        /\ Registry!Store(u, row, NoContacts)
        /\ changelog' = Append(changelog, entry)
    BY <1>3, RegistryOperators DEF Registry!ChangeAddress, Registry!Exists
  <2>3. row \in User
    BY <2>1, <2>2, ReaddressedUserType DEF TablesTyped
  <2>4. entry \in Entry /\ entry.id = r.id
    BY <2>1 DEF Entry, EmailChange
  <2> HIDE DEF u, row, entry
  <2>5. /\ users' \in [UserIds -> User \cup {Null}]
        /\ contacts' \in [UserIds -> Contacts]
        /\ \A v \in UserIds : users[v] # Null => users'[v] # Null
    BY <2>1, <2>2, <2>3, StoreType
  <2>6. /\ changelog' \in Seq(Entry)
        /\ MessagesIn(changelog) \subseteq MessagesIn(changelog')
        /\ r.id # Null => r.id \in MessagesIn(changelog')
    BY <2>2, <2>4, AppendKeepsMessages DEF TablesTyped
  <2> QED
    BY <2>5, <2>6 DEF TablesTyped
<1>4. CASE r.op = "upserted" /\ Registry!Upsert(r)
  BY <1>4, RequestKinds, UpsertReturns DEF TablesTyped
<1> QED
  BY <1>1, <1>2, <1>3, <1>4 DEF Transaction, Registry!Serve

-----------------------------------------------------------------------------
(***************************************************************************)
(* Types.                                                                  *)
(***************************************************************************)
\* The broker counts copies.
LEMMA CopiesAreNat ==
    ASSUME queue \in [Messages -> Nat], NEW m \in Messages
    PROVE  /\ Copies(m) \in Nat
           /\ Pending(m) => Copies(m) > 0
<1>1. IsFiniteSet(Holders(m))
  BY HandlersAreFinite, FS_Subset DEF Holders
<1>2. Cardinality(Holders(m)) \in Nat /\ queue[m] \in Nat
  BY <1>1, FS_CardinalityType
<1>3. Holders(m) # {} => Cardinality(Holders(m)) > 0
  BY <1>1, <1>2, FS_EmptySet
<1> QED
  BY <1>2, <1>3 DEF Copies, Pending

\* A handler at "publish" has the id of a user that is in the database.
PublishersKnow ==
    \A h \in Handlers : At(h, "publish") =>
        /\ job[h].req \in Upserted
        /\ job[h].user \in UserIds
        /\ users[job[h].user] # Null

TypeInv == TypeOK /\ PublishersKnow

JobsTyped == job \in [Handlers -> Job \cup {Null}]

\* A handler that goes on keeps its request.
LEMMA GotoKeeps ==
    ASSUME JobsTyped, NEW h \in Handlers, job[h] # Null,
           NEW stage \in Stages, Goto(h, stage)
    PROVE  /\ JobsTyped'
           /\ job'[h] # Null
           /\ job'[h].at = stage
           /\ job'[h].req = job[h].req
           /\ job'[h].held = job[h].held
           /\ job'[h].user = job[h].user
           /\ \A g \in Handlers : g # h => job'[g] = job[g]
           /\ \A m : Holders(m)' = Holders(m)
<1>1. job[h] \in Job
  BY DEF JobsTyped
<1>2. [job[h] EXCEPT !.at = stage] \in Job
  BY <1>1 DEF Job
<1>3. /\ job' = [job EXCEPT ![h] = [job[h] EXCEPT !.at = stage]]
      /\ [job[h] EXCEPT !.at = stage] # Null
  BY <1>2, NullIsNoJob DEF Goto
<1>4. /\ [job[h] EXCEPT !.at = stage].at = stage
      /\ [job[h] EXCEPT !.at = stage].req = job[h].req
      /\ [job[h] EXCEPT !.at = stage].held = job[h].held
      /\ [job[h] EXCEPT !.at = stage].user = job[h].user
  BY <1>1 DEF Job
<1>5. /\ JobsTyped'
      /\ job'[h] = [job[h] EXCEPT !.at = stage]
      /\ \A g \in Handlers : g # h => job'[g] = job[g]
  BY <1>2, <1>3 DEF JobsTyped
<1>6. ASSUME NEW m PROVE Holders(m)' = Holders(m)
  <2>1. ASSUME NEW g \in Handlers
        PROVE  /\ job'[g] # Null <=> job[g] # Null
               /\ job'[g] # Null =>
                    job'[g].held = job[g].held /\ job'[g].req = job[g].req
    BY <1>3, <1>4, <1>5
  <2> QED
    BY <2>1 DEF Holders
<1> QED
  BY <1>3, <1>4, <1>5, <1>6

\* A handler that goes on to another stage than "publish".
LEMMA GotoKeepsTypes ==
    ASSUME TypeInv, NEW h \in Handlers, job[h] # Null,
           NEW stage \in Stages, stage # "publish", Goto(h, stage),
           \A u \in UserIds : users[u] # Null => users'[u] # Null
    PROVE  JobsTyped' /\ PublishersKnow'
<1>1. JobsTyped
  BY DEF TypeInv, TypeOK, JobsTyped
<1>2. ASSUME NEW g \in Handlers, At(g, "publish")'
      PROVE  /\ job'[g] = job[g]
             /\ At(g, "publish")
  BY <1>1, <1>2, GotoKeeps DEF At
<1> QED
  BY <1>1, <1>2, GotoKeeps DEF TypeInv, PublishersKnow

\* A handler that ends, or begins with its transaction, is at no "publish".
LEMMA JobKeepsTypes ==
    ASSUME TypeInv, NEW h \in Handlers, NEW j \in Job \cup {Null},
           j = Null \/ j.at = "transaction",
           job' = [job EXCEPT ![h] = j], users' = users
    PROVE  JobsTyped' /\ PublishersKnow'
<1>1. JobsTyped'
  BY DEF TypeInv, TypeOK, JobsTyped
<1>2. ASSUME NEW g \in Handlers, At(g, "publish")'
      PROVE  job'[g] = job[g] /\ At(g, "publish")
  BY <1>2 DEF TypeInv, TypeOK, At
<1> QED
  BY <1>1, <1>2 DEF TypeInv, PublishersKnow

LEMMA NewJobType ==
    ASSUME NEW r \in Requests, NEW held \in BOOLEAN, held => r \in Messages
    PROVE  NewJob(r, held) \in Job /\ NewJob(r, held).at = "transaction"
BY DEF NewJob, Job, Stages

\* What a handler does after its commit; a sync has the id of its user.
Committed(h) == [job[h] EXCEPT !.at = AfterCommit(job[h].req),
                               !.user = Returned(job[h].req)]

LEMMA CommittedJob ==
    ASSUME TypeInv, NEW h \in Handlers, Commit(h)
    PROVE  /\ Committed(h) \in Job
           /\ Committed(h).req = job[h].req
           /\ Committed(h).held = job[h].held
           /\ Committed(h).at = AfterCommit(job[h].req)
           /\ Committed(h).at = "publish" =>
                /\ job[h].req \in Upserted
                /\ Committed(h).user \in UserIds
                /\ users'[Committed(h).user] # Null
           /\ JobsTyped' /\ job'[h] = Committed(h)
           /\ \A g \in Handlers : g # h => job'[g] = job[g]
<1> DEFINE r == job[h].req
           j == Committed(h)
<1>1. /\ job[h] \in Job /\ r \in Requests /\ TablesTyped
      /\ Transaction(r)
      /\ job \in [Handlers -> Job \cup {Null}]
      /\ job' = [job EXCEPT ![h] = j]
  BY DEF TypeInv, TypeOK, TablesTyped, Commit, At, Job, Committed
<1>2. /\ j \in Job /\ j.req = r /\ j.held = job[h].held
      /\ j.at = AfterCommit(r)
      /\ j.at = "publish" => /\ r \in Upserted
                             /\ j.user \in UserIds
                             /\ users'[j.user] # Null
  <2>1. CASE r.op = "upserted"
    <3>1. r \in Upserted /\ Registry!Upsert(r)
      BY <1>1, <2>1, RequestKinds DEF Transaction, Registry!Serve
    <3>2. \E u \in UserIds : users'[u] # Null /\ Key(users'[u]) = Key(r)
      BY <1>1, <3>1, UpsertReturns
    <3>3. Returned(r) \in UserIds /\ users'[Returned(r)] # Null
      BY <2>1, <3>2 DEF Returned
    <3> QED
      BY <1>1, <2>1, <3>1, <3>3 DEF Job, AfterCommit, Stages, Committed
  <2>2. CASE r.op # "upserted"
    BY <1>1, <2>2 DEF Job, AfterCommit, Returned, Stages, Committed
  <2> QED
    BY <2>1, <2>2
<1> QED
  BY <1>1, <1>2 DEF JobsTyped

LEMMA CommitKeepsTypes ==
    ASSUME TypeInv, NEW h \in Handlers, Commit(h)
    PROVE  TypeInv'
<1>1. /\ TablesTyped'
      /\ \A u \in UserIds : users[u] # Null => users'[u] # Null
  <2>1. job[h].req \in Requests /\ TablesTyped /\ Transaction(job[h].req)
    BY DEF TypeInv, TypeOK, TablesTyped, Commit, At, Job
  <2> QED
    BY <2>1, TransactionKeeps
<1>2. PublishersKnow'
  <2> SUFFICES ASSUME NEW g \in Handlers, At(g, "publish")'
               PROVE  /\ job'[g].req \in Upserted
                      /\ job'[g].user \in UserIds
                      /\ users'[job'[g].user] # Null
    BY DEF PublishersKnow
  <2>1. CASE g = h
    BY <2>1, CommittedJob DEF At
  <2>2. CASE g # h
    BY <1>1, <2>2, CommittedJob DEF TypeInv, PublishersKnow, At
  <2> QED
    BY <2>1, <2>2
<1> QED
  BY <1>1, <1>2, CommittedJob
     DEF TypeInv, TypeOK, TablesTyped, JobsTyped, Commit, admin, outside

\* What the broker takes back is a number of copies again.
LEMMA RequeueType ==
    ASSUME TypeInv, Requeue
    PROVE  queue' \in [Messages -> Nat]
BY CopiesAreNat DEF TypeInv, TypeOK, Requeue

\* The answer that event-admin waits for, as it is read.
LEMMA FillType ==
    ASSUME TypeInv, Fill
    PROVE  fill' \in Answer \cup {Null}
<1>1. /\ users \in [UserIds -> User \cup {Null}]
      /\ contacts \in [UserIds -> Contacts] /\ NoContacts \in Contacts
      /\ fill \in Answer \cup {Null}
  BY DEF TypeInv, TypeOK, NoContacts, Contacts
<1>2. CASE ReadUsers
  BY <1>1, <1>2 DEF ReadUsers, Answer
<1>3. CASE ReadContacts
  <2> DEFINE found == [u \in UserIds |-> IF fill.users[u] = Null
                                         THEN NoContacts ELSE contacts[u]]
  <2>1. found \in [UserIds -> Contacts]
    BY <1>1
  <2>2. fill' = [fill EXCEPT !.contacts = found] /\ fill \in Answer
    BY <1>1, <1>3 DEF ReadContacts
  <2> HIDE DEF found
  <2> QED
    BY <2>1, <2>2 DEF Answer
<1>4. CASE Keep
  BY <1>4 DEF Keep
<1> QED
  BY <1>2, <1>3, <1>4 DEF Fill

LEMMA WorldKeepsTypes ==
    ASSUME TypeInv, World
    PROVE  TypeInv'
<1> USE DEF TypeInv, TypeOK, tables, admin, outside
<1>1. ASSUME users' = users, job' = job
      PROVE  PublishersKnow'
  BY <1>1 DEF PublishersKnow, At
<1>2. ASSUME NEW m \in Changes, SendChange(m) PROVE TypeInv'
  BY <1>1, <1>2 DEF SendChange, Enqueue, Changes
<1>3. ASSUME NEW m \in Exports, Export(m) PROVE TypeInv'
  BY <1>1, <1>3 DEF Export, Enqueue, Exports
<1>4. ASSUME NEW m \in Exports, Sweep(m) PROVE TypeInv'
  BY <1>1, <1>4 DEF Sweep, Enqueue, Exports
<1>5. CASE Fill
  <2>1. fill' \in Answer \cup {Null}
    BY <1>5, FillType
  <2>2. cache' # Null => cache' \in Answer /\ cache'.contacts # Null
    BY <1>5 DEF Fill, ReadUsers, ReadContacts, Keep
  <2>3. /\ UNCHANGED <<users, contacts, changelog, queue, job, rejected>>
        /\ UNCHANGED <<synced, sent, exported, faults>>
    BY <1>5 DEF Fill, ReadUsers, ReadContacts, Keep
  <2>4. PublishersKnow'
    BY <1>1, <2>3
  <2> QED
    BY <2>1, <2>2, <2>3, <2>4
<1>6. CASE Expire
  BY <1>1, <1>6 DEF Expire
<1> QED
  BY <1>2, <1>3, <1>4, <1>5, <1>6 DEF World

LEMMA StepKeepsTypes ==
    ASSUME TypeInv, NEW h \in Handlers, Step(h)
    PROVE  TypeInv'
<1> USE DEF TypeInv, TypeOK, tables, admin, outside, Stages
<1>1. CASE Commit(h)
  BY <1>1, CommitKeepsTypes
<1>2. CASE Skip(h)
  <2>1. JobsTyped' /\ PublishersKnow'
    BY <1>2, GotoKeepsTypes DEF Skip, At
  <2> QED
    BY <1>2, <2>1 DEF Skip, JobsTyped
<1>3. CASE Refuse(h)
  <2>1. JobsTyped' /\ PublishersKnow'
    BY <1>3, GotoKeepsTypes DEF Refuse, At
  <2> QED
    BY <1>3, <2>1 DEF Refuse, JobsTyped
<1>4. CASE Invalidate(h)
  <2>1. JobsTyped' /\ PublishersKnow'
    BY <1>4, GotoKeepsTypes DEF Invalidate, At
  <2>2. fill' \in Answer \cup {Null} /\ cache' = Null
    BY <1>4 DEF Invalidate, Answer
  <2> QED
    BY <1>4, <2>1, <2>2 DEF Invalidate, JobsTyped
<1>5. CASE Publish(h)
  <2>1. JobsTyped' /\ PublishersKnow'
    BY <1>5, GotoKeepsTypes DEF Publish, At
  <2>2. SyncedEvent(job[h]) \in Synced
    BY <1>5 DEF Publish, PublishersKnow, SyncedEvent, Synced, Upserted
  <2> QED
    BY <1>5, <2>1, <2>2 DEF Publish, JobsTyped
<1>6. CASE Settle(h)
  <2>1. JobsTyped' /\ PublishersKnow'
    BY <1>6, JobKeepsTypes DEF Settle
  <2> QED
    BY <1>6, <2>1 DEF Settle, JobsTyped
<1>7. CASE Reject(h)
  <2>1. JobsTyped' /\ PublishersKnow'
    BY <1>7, JobKeepsTypes DEF Reject
  <2>2. rejected' \subseteq Messages
    BY <1>7 DEF Reject, At, Job
  <2> QED
    BY <1>7, <2>1, <2>2 DEF Reject, JobsTyped
<1> QED
  BY <1>1, <1>2, <1>3, <1>4, <1>5, <1>6, <1>7 DEF Step

LEMMA FailureKeepsTypes ==
    ASSUME TypeInv, NEW h \in Handlers, Failure(h)
    PROVE  TypeInv'
<1> USE DEF TypeInv, TypeOK, tables, admin, outside, Stages
<1>1. ASSUME Fault PROVE faults' \in 0 .. MaxFaults
  BY <1>1, BoundsAreTyped DEF Fault
<1>2. CASE CommitUnanswered(h)
  <2>1. /\ job[h] # Null /\ job[h].req \in Requests /\ TablesTyped
        /\ Transaction(job[h].req)
    BY <1>2 DEF CommitUnanswered, At, Job, TablesTyped
  <2>2. /\ TablesTyped'
        /\ \A u \in UserIds : users[u] # Null => users'[u] # Null
    BY <2>1, TransactionKeeps
  <2>3. JobsTyped' /\ PublishersKnow'
    BY <1>2, <2>1, <2>2, GotoKeepsTypes DEF CommitUnanswered
  <2> QED
    BY <1>1, <1>2, <2>2, <2>3 DEF CommitUnanswered, JobsTyped, TablesTyped
<1>3. CASE Abort(h)
  <2>1. JobsTyped' /\ PublishersKnow'
    BY <1>3, GotoKeepsTypes DEF Abort, At
  <2> QED
    BY <1>1, <1>3, <2>1 DEF Abort, JobsTyped
<1>4. CASE InvalidateFails(h)
  <2>1. JobsTyped' /\ PublishersKnow'
    BY <1>4, GotoKeepsTypes DEF InvalidateFails, At
  <2> QED
    BY <1>1, <1>4, <2>1 DEF InvalidateFails, JobsTyped
<1>5. CASE PublishFails(h)
  <2>1. JobsTyped' /\ PublishersKnow'
    BY <1>5, GotoKeepsTypes DEF PublishFails, At
  <2>2. SyncedEvent(job[h]) \in Synced
    BY <1>5 DEF PublishFails, PublishersKnow, SyncedEvent, Synced, Upserted
  <2> QED
    BY <1>1, <1>5, <2>1, <2>2 DEF PublishFails, JobsTyped
<1> QED
  BY <1>2, <1>3, <1>4, <1>5 DEF Failure

LEMMA LossKeepsTypes ==
    ASSUME TypeInv, Disconnect \/ Restart
    PROVE  TypeInv'
<1> USE DEF TypeInv, TypeOK, tables, admin, outside
<1>1. faults' \in 0 .. MaxFaults /\ queue' \in [Messages -> Nat]
  BY BoundsAreTyped, RequeueType DEF Fault, Disconnect, Restart
<1>2. CASE Disconnect
  <2>1. ASSUME NEW h \in Handlers, job[h] # Null
        PROVE  /\ [job[h] EXCEPT !.held = FALSE] \in Job
               /\ [job[h] EXCEPT !.held = FALSE].at = job[h].at
               /\ [job[h] EXCEPT !.held = FALSE].req = job[h].req
               /\ [job[h] EXCEPT !.held = FALSE].user = job[h].user
    BY <2>1 DEF Job
  <2>2. JobsTyped'
    BY <1>2, <2>1 DEF Disconnect, JobsTyped
  <2>3. PublishersKnow'
    BY <1>2, <2>1 DEF Disconnect, PublishersKnow, At
  <2> QED
    BY <1>1, <1>2, <2>2, <2>3 DEF Disconnect, JobsTyped
<1>3. CASE Restart
  BY <1>1, <1>3 DEF Restart, PublishersKnow, At
<1> QED
  BY <1>2, <1>3

LEMMA InitTypes == Init => TypeInv
<1> SUFFICES ASSUME Init PROVE TypeInv
  OBVIOUS
<1>1. users \in [UserIds -> User \cup {Null}] /\ contacts \in [UserIds -> Contacts]
  BY RegistryOperators DEF Init, Registry!Init, NoContacts, Contacts
<1>2. changelog \in Seq(Entry) /\ faults \in 0 .. MaxFaults
  BY BoundsAreTyped DEF Init, Registry!Init
<1> QED
  BY <1>1, <1>2 DEF Init, TypeInv, TypeOK, PublishersKnow, At

LEMMA NextKeepsTypes == TypeInv /\ [Next]_vars => TypeInv'
<1> SUFFICES ASSUME TypeInv, [Next]_vars PROVE TypeInv'
  OBVIOUS
<1> USE DEF TypeInv, TypeOK, tables, admin, outside
<1>1. CASE World
  BY <1>1, WorldKeepsTypes
<1>2. ASSUME NEW h \in Handlers, NEW r \in Calls, Accept(h, r) PROVE TypeInv'
  <2>1. NewJob(r, FALSE) \in Job /\ NewJob(r, FALSE).at = "transaction"
    BY NewJobType DEF Calls
  <2>2. JobsTyped' /\ PublishersKnow'
    BY <1>2, <2>1, JobKeepsTypes DEF Accept
  <2> QED
    BY <1>2, <2>2 DEF Accept, JobsTyped
<1>3. ASSUME NEW h \in Handlers, NEW m \in Messages, Deliver(h, m)
      PROVE  TypeInv'
  <2>1. NewJob(m, TRUE) \in Job /\ NewJob(m, TRUE).at = "transaction"
    BY NewJobType DEF Messages
  <2>2. JobsTyped' /\ PublishersKnow'
    BY <1>3, <2>1, JobKeepsTypes DEF Deliver
  <2>3. queue' \in [Messages -> Nat]
    BY <1>3 DEF Deliver
  <2> QED
    BY <1>3, <2>2, <2>3 DEF Deliver, JobsTyped
<1>4. ASSUME NEW h \in Handlers, Step(h) PROVE TypeInv'
  BY <1>4, StepKeepsTypes
<1>5. ASSUME NEW h \in Handlers, Failure(h) PROVE TypeInv'
  BY <1>5, FailureKeepsTypes
<1>6. CASE Disconnect \/ Restart
  BY <1>6, LossKeepsTypes
<1>7. CASE UNCHANGED vars
  BY <1>7 DEF vars, PublishersKnow, At
<1> QED
  BY <1>1, <1>2, <1>3, <1>4, <1>5, <1>6, <1>7 DEF Next

LEMMA TypeInvariant == Spec => []TypeInv
BY InitTypes, NextKeepsTypes, PTL DEF Spec

\* The tables, the queue, the handlers and what the neighbours hold keep their
\* types through every delivery, call and loss.
THEOREM DeliveryTypes == Spec => []TypeOK
<1>1. TypeInv => TypeOK
  BY DEF TypeInv
<1> QED
  BY <1>1, TypeInvariant, PTL

-----------------------------------------------------------------------------
(***************************************************************************)
(* Address changes are not lost.                                           *)
(***************************************************************************)
\* A handler that is past its transaction without a failure has left the
\* message id of an address change in the changelog.
DoneIsApplied ==
    \A h \in Handlers :
        /\ At(h, "notify") \/ At(h, "done")
        /\ job[h].req \in Numbered
        => job[h].req.id \in MessagesIn(changelog)

LossInv == ChangeIsNotLost /\ DoneIsApplied

\* Handlers and tables stay, copies in the broker are not fewer, and only
\* what the broker got counts as sent.
LEMMA BrokerKeepsChanges ==
    ASSUME LossInv, UNCHANGED <<tables, job, rejected>>,
           \A m \in Numbered : queue[m] > 0 => queue'[m] > 0,
           \A m \in Numbered : m \in sent' => m \in sent \/ queue'[m] > 0
    PROVE  LossInv'
<1>1. ASSUME NEW m PROVE Holders(m)' = Holders(m)
  BY DEF Holders
<1>2. MessagesIn(changelog)' = MessagesIn(changelog)
  BY DEF tables
<1>3. ChangeIsNotLost'
  BY <1>1, <1>2 DEF LossInv, ChangeIsNotLost, Pending
<1>4. DoneIsApplied'
  BY <1>2 DEF LossInv, DoneIsApplied, At
<1> QED
  BY <1>3, <1>4 DEF LossInv

\* A handler goes on; the ids in the changelog are not fewer.
LEMMA GotoKeepsChanges ==
    ASSUME TypeInv, LossInv, NEW h \in Handlers, job[h] # Null,
           NEW stage \in Stages, Goto(h, stage),
           UNCHANGED <<queue, rejected, sent>>,
           MessagesIn(changelog) \subseteq MessagesIn(changelog'),
           stage \in {"notify", "done"} /\ job[h].req \in Numbered
             => job[h].req.id \in MessagesIn(changelog')
    PROVE  LossInv'
<1>1. JobsTyped
  BY DEF TypeInv, TypeOK, JobsTyped
<1>2. ChangeIsNotLost'
  BY <1>1, GotoKeeps DEF LossInv, ChangeIsNotLost, Pending
<1>3. DoneIsApplied'
  <2> SUFFICES ASSUME NEW g \in Handlers, At(g, "notify")' \/ At(g, "done")',
                      job'[g].req \in Numbered
               PROVE  job'[g].req.id \in MessagesIn(changelog')
    BY DEF DoneIsApplied
  <2>1. CASE g = h
    BY <1>1, <2>1, GotoKeeps DEF At
  <2>2. CASE g # h
    BY <1>1, <2>2, GotoKeeps DEF LossInv, DoneIsApplied, At
  <2> QED
    BY <2>1, <2>2
<1> QED
  BY <1>2, <1>3 DEF LossInv

\* A handler ends whose message, if the broker still has it, is applied or
\* rejected.
LEMMA EndKeepsChanges ==
    ASSUME TypeInv, LossInv, NEW h \in Handlers, job[h] # Null,
           job' = [job EXCEPT ![h] = Null],
           UNCHANGED <<tables, queue, sent>>,
           rejected \subseteq rejected',
           job[h].held /\ job[h].req \in Numbered
             => \/ job[h].req.id \in MessagesIn(changelog)
                \/ job[h].req \in rejected'
    PROVE  LossInv'
<1>1. job \in [Handlers -> Job \cup {Null}] /\ changelog' = changelog
  BY DEF TypeInv, TypeOK, tables
<1>2. /\ job'[h] = Null
      /\ \A g \in Handlers : g # h => job'[g] = job[g]
  BY <1>1
<1>3. ASSUME NEW m, Pending(m), ~Pending(m)'
      PROVE  job[h].held /\ job[h].req = m
  BY <1>2, <1>3 DEF Pending, Holders
<1>4. ChangeIsNotLost'
  BY <1>1, <1>3 DEF LossInv, ChangeIsNotLost
<1>5. DoneIsApplied'
  BY <1>1, <1>2 DEF LossInv, DoneIsApplied, At
<1> QED
  BY <1>4, <1>5 DEF LossInv

\* A handler begins, with a copy from the broker or without one.
LEMMA BeginKeepsChanges ==
    ASSUME TypeInv, LossInv, NEW h \in Handlers, job[h] = Null,
           NEW r \in Requests, NEW held \in BOOLEAN, held => r \in Messages,
           job' = [job EXCEPT ![h] = NewJob(r, held)],
           UNCHANGED <<tables, rejected, sent>>,
           \A m \in Messages : queue'[m] # queue[m] => held /\ m = r
    PROVE  LossInv'
<1>1. job \in [Handlers -> Job \cup {Null}] /\ changelog' = changelog
  BY DEF TypeInv, TypeOK, tables
<1>2. /\ job'[h] = NewJob(r, held)
      /\ \A g \in Handlers : g # h => job'[g] = job[g]
  BY <1>1
<1>3. /\ NewJob(r, held) # Null
      /\ NewJob(r, held).at = "transaction"
      /\ NewJob(r, held).held = held
      /\ NewJob(r, held).req = r
  BY NewJobType, NullIsNoJob DEF NewJob
<1>4. ASSUME NEW m \in Messages, Pending(m) PROVE Pending(m)'
  BY <1>2, <1>3, <1>4 DEF Pending, Holders
<1>5. ChangeIsNotLost'
  BY <1>1, <1>4 DEF LossInv, ChangeIsNotLost, Numbered, Changes
<1>6. DoneIsApplied'
  BY <1>1, <1>2, <1>3 DEF LossInv, DoneIsApplied, At
<1> QED
  BY <1>5, <1>6 DEF LossInv

\* A connection or the process is lost: what the handlers held waits again.
LEMMA RequeueKeepsChanges ==
    ASSUME TypeInv, LossInv, Disconnect \/ Restart
    PROVE  LossInv'
<1>1. /\ queue \in [Messages -> Nat] /\ job \in [Handlers -> Job \cup {Null}]
      /\ changelog' = changelog /\ rejected' = rejected /\ sent' = sent
      /\ queue' = [m \in Messages |-> Copies(m)]
  BY DEF TypeInv, TypeOK, Disconnect, Restart, Requeue, tables, outside
<1>2. ASSUME NEW m \in Messages, Pending(m) PROVE Pending(m)'
  <2>1. queue'[m] > 0
    BY <1>1, <1>2, CopiesAreNat
  <2> QED
    BY <2>1 DEF Pending
<1>3. ChangeIsNotLost'
  BY <1>1, <1>2 DEF LossInv, ChangeIsNotLost, Numbered, Changes
<1>4. DoneIsApplied'
  <2>1. CASE Disconnect
    <3>1. ASSUME NEW h \in Handlers, job[h] # Null
          PROVE  /\ [job[h] EXCEPT !.held = FALSE].at = job[h].at
                 /\ [job[h] EXCEPT !.held = FALSE].req = job[h].req
      BY <1>1, <3>1 DEF Job
    <3> QED
      BY <1>1, <2>1, <3>1 DEF LossInv, DoneIsApplied, At, Disconnect
  <2>2. CASE Restart
    BY <2>2 DEF DoneIsApplied, At, Restart
  <2> QED
    BY <2>1, <2>2
<1> QED
  BY <1>3, <1>4 DEF LossInv

LEMMA StepKeepsChanges ==
    ASSUME TypeInv, LossInv, NEW h \in Handlers, Step(h)
    PROVE  LossInv'
<1> USE DEF tables, outside
<1>1. CASE Commit(h)
  <2> DEFINE r == job[h].req
  <2>1. /\ job[h] # Null /\ r \in Requests /\ TablesTyped /\ Transaction(r)
        /\ queue' = queue /\ rejected' = rejected /\ sent' = sent
    BY <1>1 DEF TypeInv, TypeOK, TablesTyped, Commit, At, Job
  <2>2. /\ MessagesIn(changelog) \subseteq MessagesIn(changelog')
        /\ r \in Numbered => r.id \in MessagesIn(changelog')
    BY <2>1, TransactionKeeps DEF Numbered, Changes
  <2>3. /\ job'[h].req = r /\ job'[h].held = job[h].held /\ job'[h] # Null
        /\ \A g \in Handlers : g # h => job'[g] = job[g]
    BY <1>1, CommittedJob, NullIsNoJob
  <2>4. ASSUME NEW m PROVE Holders(m)' = Holders(m)
    BY <2>1, <2>3 DEF Holders
  <2>5. ChangeIsNotLost'
    BY <2>1, <2>2, <2>4 DEF LossInv, ChangeIsNotLost, Pending
  <2>6. DoneIsApplied'
    BY <2>2, <2>3 DEF LossInv, DoneIsApplied, At
  <2> QED
    BY <2>5, <2>6 DEF LossInv
<1>2. CASE Skip(h)
  BY <1>2, GotoKeepsChanges
     DEF Skip, At, Stages, Duplicate, Numbered, Changes
<1>3. CASE Refuse(h)
  BY <1>3, GotoKeepsChanges DEF Refuse, At, Stages
<1>4. CASE Invalidate(h)
  BY <1>4, GotoKeepsChanges DEF Invalidate, At, Stages, LossInv, DoneIsApplied
<1>5. CASE Publish(h)
  <2>1. job[h].req \notin Numbered
    BY <1>5 DEF Publish, TypeInv, PublishersKnow, Upserted, Numbered, Changes
  <2> QED
    BY <1>5, <2>1, GotoKeepsChanges DEF Publish, At, Stages
<1>6. CASE Settle(h)
  BY <1>6, EndKeepsChanges DEF Settle, At, LossInv, DoneIsApplied
<1>7. CASE Reject(h)
  BY <1>7, EndKeepsChanges DEF Reject, At
<1> QED
  BY <1>1, <1>2, <1>3, <1>4, <1>5, <1>6, <1>7 DEF Step

LEMMA FailureKeepsChanges ==
    ASSUME TypeInv, LossInv, NEW h \in Handlers, Failure(h)
    PROVE  LossInv'
<1> USE DEF tables, outside
<1>1. CASE CommitUnanswered(h)
  <2>1. job[h] # Null /\ job[h].req \in Requests /\ TablesTyped
        /\ Transaction(job[h].req)
    BY <1>1 DEF CommitUnanswered, At, Job, TablesTyped, TypeInv, TypeOK
  <2>2. MessagesIn(changelog) \subseteq MessagesIn(changelog')
    BY <2>1, TransactionKeeps
  <2> QED
    BY <1>1, <2>1, <2>2, GotoKeepsChanges DEF CommitUnanswered, Stages
<1>2. CASE Abort(h)
  BY <1>2, GotoKeepsChanges DEF Abort, At, Stages
<1>3. CASE InvalidateFails(h)
  BY <1>3, GotoKeepsChanges
     DEF InvalidateFails, At, Stages, LossInv, DoneIsApplied
<1>4. CASE PublishFails(h)
  BY <1>4, GotoKeepsChanges DEF PublishFails, At, Stages
<1> QED
  BY <1>1, <1>2, <1>3, <1>4 DEF Failure

LEMMA WorldKeepsChanges ==
    ASSUME TypeInv, LossInv, World
    PROVE  LossInv'
<1> USE DEF outside
<1>1. queue \in [Messages -> Nat] /\ Exports \cap Numbered = {}
  BY DEF TypeInv, TypeOK, Exports, Numbered, Changes
<1>2. ASSUME NEW m \in Messages, Enqueue(m)
      PROVE  /\ \A x \in Messages : queue[x] > 0 => queue'[x] > 0
             /\ queue'[m] > 0
  BY <1>1, <1>2 DEF Enqueue
<1>3. Numbered \subseteq Messages /\ Changes \subseteq Messages
      /\ Exports \subseteq Messages
  BY DEF Numbered, Changes, Exports
<1>4. ASSUME NEW m \in Changes, SendChange(m) PROVE LossInv'
  BY <1>2, <1>3, <1>4, BrokerKeepsChanges DEF SendChange
<1>5. ASSUME NEW m \in Exports, Export(m) PROVE LossInv'
  BY <1>1, <1>2, <1>3, <1>5, BrokerKeepsChanges DEF Export
<1>6. ASSUME NEW m \in Exports, Sweep(m) PROVE LossInv'
  BY <1>2, <1>3, <1>6, BrokerKeepsChanges DEF Sweep
<1>7. CASE Fill \/ Expire
  BY <1>7, BrokerKeepsChanges DEF Fill, ReadUsers, ReadContacts, Keep, Expire
<1> QED
  BY <1>4, <1>5, <1>6, <1>7 DEF World

LEMMA NextKeepsChanges == TypeInv /\ LossInv /\ [Next]_vars => LossInv'
<1> SUFFICES ASSUME TypeInv, LossInv, [Next]_vars PROVE LossInv'
  OBVIOUS
<1>1. ASSUME NEW h \in Handlers, NEW r \in Calls, Accept(h, r) PROVE LossInv'
  <2>1. /\ r \in Requests /\ job[h] = Null
        /\ job' = [job EXCEPT ![h] = NewJob(r, FALSE)]
        /\ UNCHANGED <<tables, rejected, sent>>
        /\ \A x \in Messages : queue'[x] = queue[x]
    BY <1>1 DEF Accept, Calls, outside
  <2> QED
    BY <2>1, BeginKeepsChanges
<1>2. ASSUME NEW h \in Handlers, NEW m \in Messages, Deliver(h, m)
      PROVE  LossInv'
  <2>1. /\ m \in Requests /\ job[h] = Null
        /\ job' = [job EXCEPT ![h] = NewJob(m, TRUE)]
        /\ UNCHANGED <<tables, rejected, sent>>
    BY <1>2 DEF Deliver, Messages, outside
  <2>2. \A x \in Messages : queue'[x] # queue[x] => x = m
    BY <1>2 DEF Deliver, TypeInv, TypeOK
  <2> QED
    BY <2>1, <2>2, BeginKeepsChanges
<1>3. CASE UNCHANGED vars
  BY <1>3, BrokerKeepsChanges DEF vars, outside
<1> QED
  BY <1>1, <1>2, <1>3, WorldKeepsChanges, StepKeepsChanges,
     FailureKeepsChanges, RequeueKeepsChanges DEF Next

LEMMA InitChanges == Init => LossInv
BY DEF Init, LossInv, ChangeIsNotLost, DoneIsApplied, At

\* An address change with a ce-id that was sent waits in the broker, is being
\* handled, is in the changelog or was rejected, through crashes, lost
\* connections and failures at any point of handle_email_change.
THEOREM ChangesAreNotLost == Spec => []ChangeIsNotLost
<1>1. LossInv => ChangeIsNotLost
  BY DEF LossInv
<1> QED
  BY <1>1, InitChanges, NextKeepsChanges, TypeInvariant, PTL DEF Spec

-----------------------------------------------------------------------------
(***************************************************************************)
(* The neighbours.                                                         *)
(***************************************************************************)
\* No step takes a user away, and events are about users of the database.
LEMMA NextKeepsSynced ==
    TypeInv /\ SyncedUserExists /\ [Next]_vars => SyncedUserExists'
<1> SUFFICES ASSUME TypeInv, SyncedUserExists, [Next]_vars
             PROVE  SyncedUserExists'
  OBVIOUS
<1>1. ASSUME synced' = synced,
             \A u \in UserIds : users[u] # Null => users'[u] # Null
      PROVE  SyncedUserExists'
  BY <1>1 DEF TypeInv, TypeOK, SyncedUserExists, Synced
<1>2. ASSUME synced' = synced, users' = users PROVE SyncedUserExists'
  BY <1>1, <1>2
<1>3. ASSUME NEW h \in Handlers, At(h, "transaction"), synced' = synced,
             Transaction(job[h].req)
      PROVE  SyncedUserExists'
  <2>1. job[h].req \in Requests /\ TablesTyped
    BY <1>3 DEF TypeInv, TypeOK, TablesTyped, At, Job
  <2> QED
    BY <1>1, <1>3, <2>1, TransactionKeeps
<1>4. ASSUME NEW h \in Handlers, At(h, "publish"), users' = users,
             synced' \in {synced, synced \cup {SyncedEvent(job[h])}}
      PROVE  SyncedUserExists'
  <2>1. users[SyncedEvent(job[h]).user] # Null
    BY <1>4 DEF TypeInv, PublishersKnow, SyncedEvent
  <2> QED
    BY <1>4, <2>1 DEF SyncedUserExists
<1> USE DEF tables, outside
<1>5. CASE World
  BY <1>2, <1>5 DEF World, SendChange, Export, Sweep, Fill, ReadUsers,
                    ReadContacts, Keep, Expire
<1>6. ASSUME NEW h \in Handlers, Step(h) \/ Failure(h) PROVE SyncedUserExists'
  <2>1. CASE Commit(h) \/ CommitUnanswered(h)
    BY <1>3, <2>1 DEF Commit, CommitUnanswered
  <2>2. CASE Publish(h) \/ PublishFails(h)
    BY <1>4, <2>2 DEF Publish, PublishFails
  <2>3. CASE Skip(h) \/ Refuse(h) \/ Invalidate(h) \/ Settle(h) \/ Reject(h)
             \/ Abort(h) \/ InvalidateFails(h)
    BY <1>2, <2>3 DEF Skip, Refuse, Invalidate, Settle, Reject, Abort,
                      InvalidateFails
  <2> QED
    BY <1>6, <2>1, <2>2, <2>3 DEF Step, Failure
<1>7. ASSUME NEW h \in Handlers, \/ \E r \in Calls : Accept(h, r)
                                 \/ \E m \in Messages : Deliver(h, m)
      PROVE  SyncedUserExists'
  BY <1>2, <1>7 DEF Accept, Deliver
<1>8. CASE Disconnect \/ Restart
  BY <1>2, <1>8 DEF Disconnect, Restart
<1>9. CASE UNCHANGED vars
  BY <1>2, <1>9 DEF vars
<1> QED
  BY <1>5, <1>6, <1>7, <1>8, <1>9 DEF Next

\* user.synced is published after the commit of its user, which is not taken
\* back: event-saver never hears of a user that event-users does not have.
THEOREM SyncedUsersExist == Spec => []SyncedUserExists
<1>1. Init => SyncedUserExists
  BY DEF Init, SyncedUserExists
<1> QED
  BY <1>1, NextKeepsSynced, TypeInvariant, PTL DEF Spec

\* Without failures, and without messages from event-db-sync, whose handler
\* tells event-admin nothing.
NothingFails == MaxFaults = 0
NoExports    == Exports = {}

\* What has been read of an answer is not what the tables hold.
ReadOutdated(answer) ==
    \E u \in UserIds :
        \/ answer.users[u] # users[u]
        \/ /\ answer.contacts # Null /\ users[u] # Null
           /\ answer.contacts[u] # contacts[u]

SomeoneTells == \E h \in Handlers : At(h, "notify")

\* It is inductive with the answer that is under way.
CoherentInv ==
    /\ CacheCoherent
    /\ fill # Null /\ ReadOutdated(fill) => fill.overtaken \/ SomeoneTells

LEMMA FillKeepsCoherent ==
    ASSUME TypeInv, CoherentInv, Fill
    PROVE  CoherentInv'
<1>1. /\ UNCHANGED <<users, contacts, job>>
      /\ fill \in Answer \cup {Null}
  BY DEF Fill, ReadUsers, ReadContacts, Keep, tables, TypeInv, TypeOK
<1>2. SomeoneTells' = SomeoneTells
  BY <1>1 DEF SomeoneTells, At
<1>3. \A answer : /\ Outdated(answer)' <=> Outdated(answer)
                  /\ ReadOutdated(answer)' <=> ReadOutdated(answer)
  BY <1>1 DEF Outdated, ReadOutdated
<1>4. cache' = cache => CacheCoherent'
  BY <1>2, <1>3 DEF CoherentInv, CacheCoherent, Outdated, SomeoneTells
<1>5. CASE ReadUsers
  <2>1. /\ cache' = cache
        /\ fill' = [users |-> users, contacts |-> Null, overtaken |-> FALSE]
    BY <1>5 DEF ReadUsers
  <2>2. ~ReadOutdated(fill)'
    BY <1>1, <2>1 DEF ReadOutdated
  <2> QED
    BY <1>4, <2>1, <2>2 DEF CoherentInv
<1>6. CASE ReadContacts
  <2> DEFINE found == [u \in UserIds |-> IF fill.users[u] = Null
                                         THEN NoContacts ELSE contacts[u]]
  <2>1. /\ cache' = cache /\ fill \in Answer /\ fill # Null
        /\ fill' = [fill EXCEPT !.contacts = found]
    BY <1>1, <1>6 DEF ReadContacts
  <2>2. /\ fill'.users = fill.users /\ fill'.overtaken = fill.overtaken
        /\ fill'.contacts = found
    BY <2>1 DEF Answer
  <2>3. ReadOutdated(fill)' => ReadOutdated(fill)
    BY <1>1, <2>2 DEF ReadOutdated
  <2> QED
    BY <1>2, <1>4, <2>1, <2>2, <2>3 DEF CoherentInv
<1>7. CASE Keep
  <2>1. /\ fill # Null /\ fill.contacts # Null
        /\ cache' = fill /\ fill' = Null
    BY <1>7 DEF Keep
  <2>2. Outdated(cache)' => ReadOutdated(fill)
    BY <1>1, <2>1 DEF Outdated, ReadOutdated
  <2>3. CacheCoherent'
    BY <1>2, <2>1, <2>2 DEF CoherentInv, CacheCoherent, SomeoneTells
  <2> QED
    BY <2>1, <2>3 DEF CoherentInv
<1> QED
  BY <1>5, <1>6, <1>7 DEF Fill

LEMMA NextKeepsCoherent ==
    ASSUME NothingFails, NoExports
    PROVE  TypeInv /\ CoherentInv /\ [Next]_vars => CoherentInv'
<1> SUFFICES ASSUME TypeInv, CoherentInv, [Next]_vars
             PROVE  CoherentInv'
  OBVIOUS
<1> USE DEF tables, admin, outside
<1>1. JobsTyped /\ ~Fault
  BY DEF TypeInv, TypeOK, JobsTyped, Fault, NothingFails
<1>2. ASSUME UNCHANGED <<tables, fill>>, cache' \in {cache, Null},
             \A h \in Handlers : At(h, "notify") => At(h, "notify")'
      PROVE  CoherentInv'
  <2>1. SomeoneTells => SomeoneTells'
    BY <1>2 DEF SomeoneTells
  <2>2. ReadOutdated(fill)' <=> ReadOutdated(fill)
    BY <1>2 DEF ReadOutdated
  <2>3. cache' # Null => (Outdated(cache)' <=> Outdated(cache))
    BY <1>2 DEF Outdated
  <2> QED
    BY <1>2, <2>1, <2>2, <2>3 DEF CoherentInv, CacheCoherent, SomeoneTells
<1>3. CASE World
  <2>1. CASE Fill
    BY <2>1, FillKeepsCoherent
  <2>2. CASE \/ \E m \in Changes : SendChange(m)
             \/ \E m \in Exports : Export(m) \/ Sweep(m)
             \/ Expire
    BY <1>2, <2>2 DEF SendChange, Export, Sweep, Expire, At
  <2> QED
    BY <1>3, <2>1, <2>2 DEF World
<1>4. ASSUME NEW h \in Handlers, Step(h) PROVE CoherentInv'
  <2>1. CASE Commit(h)
    <3>1. job[h].req \in Requests /\ job[h].req.op # "upserted"
      BY <1>1, <2>1, RequestKinds
         DEF Commit, At, JobsTyped, Job, NoExports, Exports, Messages
    <3>2. Committed(h).at = "notify" /\ Committed(h) # Null
      BY <2>1, <3>1, CommittedJob, NullIsNoJob DEF AfterCommit
    <3>3. At(h, "notify")'
      BY <2>1, <3>2, CommittedJob DEF At
    <3> QED
      BY <3>3 DEF CoherentInv, CacheCoherent, SomeoneTells
  <2>2. CASE Invalidate(h)
    <3>1. cache' = Null /\ (fill' # Null => fill'.overtaken)
      BY <2>2 DEF Invalidate, TypeInv, TypeOK, Answer
    <3> QED
      BY <3>1 DEF CoherentInv, CacheCoherent
  <2>3. ASSUME NEW stage \in Stages, ~At(h, "notify"), job[h] # Null,
               Goto(h, stage), UNCHANGED <<tables, admin>>
        PROVE  CoherentInv'
    BY <1>1, <1>2, <2>3, GotoKeeps DEF At
  <2>4. CASE Skip(h)
    BY <2>3, <2>4 DEF Skip, At, Stages
  <2>5. CASE Refuse(h)
    BY <2>3, <2>5 DEF Refuse, At, Stages
  <2>6. CASE Publish(h)
    BY <2>3, <2>6 DEF Publish, At, Stages
  <2>7. CASE Settle(h) \/ Reject(h)
    <3>1. \A g \in Handlers : At(g, "notify") => job'[g] = job[g]
      BY <1>1, <2>7 DEF Settle, Reject, At, JobsTyped
    <3> QED
      BY <1>2, <2>7, <3>1 DEF Settle, Reject, At
  <2> QED
    BY <1>4, <2>1, <2>2, <2>4, <2>5, <2>6, <2>7 DEF Step
<1>5. ASSUME NEW h \in Handlers, NEW r \in Requests, NEW held \in BOOLEAN,
             job[h] = Null, UNCHANGED <<tables, admin>>,
             job' = [job EXCEPT ![h] = NewJob(r, held)]
      PROVE  CoherentInv'
  <2>1. \A g \in Handlers : At(g, "notify") => job'[g] = job[g]
    BY <1>1, <1>5 DEF At, JobsTyped
  <2> QED
    BY <1>2, <1>5, <2>1 DEF At
<1>6. ASSUME NEW h \in Handlers, NEW r \in Calls, Accept(h, r)
      PROVE  CoherentInv'
  BY <1>5, <1>6 DEF Accept, Calls
<1>7. ASSUME NEW h \in Handlers, NEW m \in Messages, Deliver(h, m)
      PROVE  CoherentInv'
  BY <1>5, <1>7 DEF Deliver, Messages
<1>8. CASE UNCHANGED vars
  BY <1>2, <1>8 DEF vars, At
<1> QED
  BY <1>1, <1>3, <1>4, <1>6, <1>7, <1>8
     DEF Next, Failure, CommitUnanswered, Abort, InvalidateFails,
         PublishFails, Disconnect, Restart

\* routes.py:59.  Commit before invalidate: what event-admin read before a
\* change is forgotten once the writers that have committed have made their
\* call, unless the answer was still under way when a call went by; the rows
\* and the contacts of that answer may be of different moments.
THEOREM CacheStaysCoherent ==
    NothingFails /\ NoExports => (Spec => []CacheCoherent)
<1> SUFFICES ASSUME NothingFails, NoExports PROVE Spec => []CacheCoherent
  OBVIOUS
<1>1. Init => CoherentInv
  BY DEF Init, CoherentInv, CacheCoherent
<1>2. TypeInv /\ CoherentInv /\ [Next]_vars => CoherentInv'
  BY NextKeepsCoherent
<1>3. CoherentInv => CacheCoherent
  BY DEF CoherentInv
<1> QED
  BY <1>1, <1>2, <1>3, TypeInvariant, PTL DEF Spec
=============================================================================
