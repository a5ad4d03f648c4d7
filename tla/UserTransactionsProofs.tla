----------------------- MODULE UserTransactionsProofs -----------------------
(***************************************************************************)
(* Proofs about UserTransactions, for every set of users, requests and     *)
(* workers.                                                                *)
(***************************************************************************)
EXTENDS UserTransactions, UserTablesProofs

(***************************************************************************)
(* What the statement at, the next of a worker with request r, can rely on *)
(* about its transaction t.                                                *)
(***************************************************************************)
StageOf(at, r, t) ==
    /\ at # "idle" => r \in Requests
    /\ at = "insert" => r \in CreateRequest
    /\ at \in {"get", "update", "fk", "entry"} => r \in PatchRequest
    /\ at \in {"gate", "change"} => r \in EmailChange
    /\ at = "upsert" => r \in Upserted
    /\ at \in {"get", "entry"} => r.email # Null
    /\ at \in {"idle", "insert", "get", "gate", "upsert"} \cup Outcomes
         => t = NoTransaction
    /\ at \in {"update", "change"} => t.row = Null
    /\ at = "index" =>
         /\ r \in PatchRequest \cup EmailChange
         /\ t.user = r.user /\ t.row # Null
         /\ r.op = "patch" /\ r.email # Null => t.seen # Null
    /\ at = "update" => t.entry = Null /\ (r.email # Null => t.seen # Null)
    /\ at = "change" => t.user = r.user
    /\ at = "contacts" =>
         /\ t.user # Null
         /\ t.wants \in AllChannels
         /\ t.row # Null \/ t.seen # Null
         /\ t.row = Null => r \in PatchRequest
         /\ r.op = "patch" /\ r.email # Null => t.seen # Null
    /\ at = "entry" => t.seen # Null
    /\ at \in {"fk", "entry", "commit"} => t.user # Null

Stages == \A w \in Workers : StageOf(pc[w], req[w], tx[w])

\* A handler past its changelog insert has a user to update.
ChangesKnown ==
    \A w \in Workers : pc[w] = "change" => users[req[w].user] # Null

TypeInv == TypeOK /\ Stages /\ ChangesKnown

-----------------------------------------------------------------------------
LEMMA NoTransactionType == NoTransaction \in Transaction
BY DEF NoTransaction, Transaction, NoContacts, Contacts

\* A batch of contacts has its channels among those there are.
LEMMA NextChannelsType ==
    ASSUME NEW r, NEW done
    PROVE  NextChannels(r, done) \subseteq AllChannels
BY DEF NextChannels, Listed, AllChannels

(***************************************************************************)
(* Steps that leave the tables alone: it is enough to look at the worker.  *)
(***************************************************************************)
LEMMA ContinueKeepsTypes ==
    ASSUME TypeInv, NEW w \in Workers, NEW t, NEW at,
           t \in Transaction, at \in Statements \cup Outcomes,
           StageOf(at, req[w], t),
           at = "change" => users[req[w].user] # Null,
           Continue(w, t, at)
    PROVE  TypeInv'
<1> USE DEF TypeInv
<1>1. TypeOK'
  BY DEF TypeOK, Continue, Goto, tables
<1>2. ASSUME NEW v \in Workers
      PROVE  /\ StageOf(pc[v], req[v], tx[v])'
             /\ (pc[v] = "change" => users[req[v].user] # Null)'
  <2>1. CASE v = w
    BY <2>1 DEF TypeOK, Continue, Goto, tables, StageOf
  <2>2. CASE v # w
    <3>1. pc'[v] = pc[v] /\ req'[v] = req[v] /\ tx'[v] = tx[v]
          /\ users' = users
      BY <2>2 DEF TypeOK, Continue, Goto, tables
    <3> QED
      BY <3>1 DEF Stages, ChangesKnown, StageOf
  <2> QED
    BY <2>1, <2>2
<1> QED
  BY <1>1, <1>2 DEF Stages, ChangesKnown

\* The steps that end with a batch of contacts ahead choose a channel, and
\* change nothing else.
LEMMA ToContactsContinues ==
    ASSUME NEW w, NEW t \in Transaction, ToContacts(w, t)
    PROVE  \E s \in Transaction :
              /\ Continue(w, s, "contacts")
              /\ s.wants \in AllChannels
              /\ s.user = t.user /\ s.row = t.row /\ s.contacts = t.contacts
              /\ s.entry = t.entry /\ s.seen = t.seen /\ s.shared = t.shared
<1>1. PICK c \in AllChannels : Continue(w, [t EXCEPT !.wants = c], "contacts")
  BY NextChannelsType DEF ToContacts
<1> DEFINE s == [t EXCEPT !.wants = c]
<1>2. /\ s \in Transaction /\ s.wants = c
      /\ s.user = t.user /\ s.row = t.row /\ s.contacts = t.contacts
      /\ s.entry = t.entry /\ s.seen = t.seen /\ s.shared = t.shared
  BY DEF Transaction
<1>3. Continue(w, s, "contacts")
  BY <1>1
<1> HIDE DEF s
<1> QED
  BY <1>2, <1>3

LEMMA ToContactsKeepsTypes ==
    ASSUME TypeInv, NEW w \in Workers, NEW t \in Transaction,
           ToContacts(w, t), req[w] \in Requests, t.user # Null,
           t.row # Null \/ t.seen # Null,
           t.row = Null => req[w] \in PatchRequest,
           req[w].op = "patch" /\ req[w].email # Null => t.seen # Null
    PROVE  TypeInv'
<1>1. PICK s \in Transaction :
        /\ Continue(w, s, "contacts")
        /\ s.wants \in AllChannels
        /\ s.user = t.user /\ s.row = t.row /\ s.seen = t.seen
  BY ToContactsContinues
<1>2. StageOf("contacts", req[w], s)
  BY <1>1 DEF StageOf, Outcomes
<1> QED
  BY <1>1, <1>2, ContinueKeepsTypes DEF Statements

LEMMA DiscardKeepsTypes ==
    ASSUME TypeInv, NEW w \in Workers, NEW outcome \in Outcomes,
           pc[w] \in Statements, Discard(w, outcome)
    PROVE  TypeInv'
<1>1. StageOf(outcome, req[w], NoTransaction)
  BY DEF TypeInv, Stages, StageOf, Outcomes, Statements
<1> QED
  BY <1>1, ContinueKeepsTypes, NoTransactionType
     DEF Discard, Outcomes

LEMMA BeginKeepsTypes ==
    ASSUME TypeInv, NEW w \in Workers, NEW r \in Requests, Begin(w, r)
    PROVE  TypeInv'
<1> DEFINE first == FirstStatement(r)
<1>1. first \in {"insert", "get", "update", "gate", "upsert", "invalid"}
  BY RequestKinds DEF FirstStatement
<1>2. StageOf(first, r, NoTransaction)
  BY <1>1, RequestKinds
     DEF FirstStatement, StageOf, NoTransaction, Outcomes
<1>3. tx[w] = NoTransaction
  BY DEF TypeInv, Stages, StageOf, Begin
<1>4. TypeOK'
  BY <1>1 DEF TypeInv, TypeOK, Begin, Goto, tables, Statements, Outcomes
<1>5. ASSUME NEW v \in Workers
      PROVE  /\ StageOf(pc[v], req[v], tx[v])'
             /\ (pc[v] = "change" => users[req[v].user] # Null)'
  <2>1. CASE v = w
    BY <1>1, <1>2, <1>3, <2>1 DEF TypeInv, TypeOK, Begin, Goto, tables
  <2>2. CASE v # w
    <3>1. pc'[v] = pc[v] /\ req'[v] = req[v] /\ tx'[v] = tx[v]
          /\ users' = users
      BY <2>2 DEF TypeInv, TypeOK, Begin, Goto, tables
    <3> QED
      BY <3>1 DEF TypeInv, Stages, ChangesKnown, StageOf
  <2> QED
    BY <2>1, <2>2
<1> QED
  BY <1>4, <1>5 DEF TypeInv, Stages, ChangesKnown

LEMMA FinishKeepsTypes ==
    ASSUME TypeInv, NEW w \in Workers, Finish(w)
    PROVE  TypeInv'
<1>1. TypeOK'
  BY DEF TypeInv, TypeOK, Finish, Goto, tables
<1>2. tx[w] = NoTransaction
  BY DEF TypeInv, Stages, StageOf, Finish, Outcomes
<1>3. ASSUME NEW v \in Workers
      PROVE  /\ StageOf(pc[v], req[v], tx[v])'
             /\ (pc[v] = "change" => users[req[v].user] # Null)'
  <2>1. CASE v = w
    BY <1>2, <2>1 DEF TypeInv, TypeOK, Finish, Goto, tables, StageOf, Outcomes
  <2>2. CASE v # w
    <3>1. pc'[v] = pc[v] /\ req'[v] = req[v] /\ tx'[v] = tx[v]
          /\ users' = users
      BY <2>2 DEF TypeInv, TypeOK, Finish, Goto, tables
    <3> QED
      BY <3>1 DEF TypeInv, Stages, ChangesKnown, StageOf
  <2> QED
    BY <2>1, <2>2
<1> QED
  BY <1>1, <1>3 DEF TypeInv, Stages, ChangesKnown

-----------------------------------------------------------------------------
(***************************************************************************)
(* The statements, by request.                                             *)
(***************************************************************************)
LEMMA CreateKeepsTypes ==
    ASSUME TypeInv, NEW w \in Workers, InsertUser(w) \/ InsertConflict(w)
    PROVE  TypeInv'
<1>1. CASE InsertUser(w)
  <2>1. PICK u \in FreshIds :
          ToContacts(w, [tx[w] EXCEPT !.user = u, !.row = CreatedUser(req[w])])
    BY <1>1 DEF InsertUser
  <2> DEFINE t == [tx[w] EXCEPT !.user = u, !.row = CreatedUser(req[w])]
  <2>2. /\ pc[w] = "insert" /\ req[w] \in CreateRequest
        /\ req[w] \in Requests /\ tx[w] \in Transaction
    BY <1>1 DEF InsertUser, Runs, TypeInv, TypeOK, Stages, StageOf
  <2>3. t \in Transaction /\ t.user = u /\ t.row = CreatedUser(req[w])
    BY <2>2, CreatedUserType DEF Transaction, FreshIds
  <2>4. req[w].op = "create" /\ u # Null /\ CreatedUser(req[w]) # Null
    BY <2>2, CreatedUserType, NullIsNoValue DEF FreshIds, CreateRequest
  <2>5. ToContacts(w, t)
    BY <2>1
  <2> HIDE DEF t
  <2> QED
    BY <2>2, <2>3, <2>4, <2>5, ToContactsKeepsTypes
<1>2. CASE InsertConflict(w)
  BY <1>2, DiscardKeepsTypes DEF InsertConflict, Runs, Statements, Outcomes
<1> QED
  BY <1>1, <1>2

\* What a PATCH worker at the statements before its contacts can rely on.
LEMMA PatchStage ==
    ASSUME TypeInv, NEW w \in Workers, pc[w] \in {"get", "update"}
    PROVE  /\ req[w] \in Requests /\ req[w] \in PatchRequest
           /\ req[w].user \in UserIds /\ req[w].user # Null
           /\ tx[w] \in Transaction
           /\ pc[w] = "get" => tx[w] = NoTransaction /\ req[w].email # Null
           /\ pc[w] = "update" =>
                /\ tx[w].row = Null
                /\ tx[w].entry = Null
                /\ req[w].email # Null => tx[w].seen # Null
<1>1. StageOf(pc[w], req[w], tx[w]) /\ tx[w] \in Transaction
  BY DEF TypeInv, TypeOK, Stages
<1>2. req[w] \in Requests /\ req[w] \in PatchRequest
  BY <1>1 DEF StageOf
<1>3. req[w].user \in UserIds /\ req[w].user # Null
  BY <1>2, NullIsNoValue DEF PatchRequest
<1> QED
  BY <1>1, <1>2, <1>3 DEF StageOf

LEMMA GetUserKeepsTypes ==
    ASSUME TypeInv, NEW w \in Workers, GetUser(w)
    PROVE  TypeInv'
<1> DEFINE u == req[w].user
           t == [tx[w] EXCEPT !.seen = users[u].email]
<1>1. /\ pc[w] = "get" /\ req[w] \in PatchRequest /\ req[w] \in Requests
      /\ u \in UserIds /\ tx[w] = NoTransaction /\ tx[w] \in Transaction
  BY PatchStage DEF GetUser, Runs
<1>2. CASE Known(u)
  <2>1. users[u] \in User
    BY <1>1, <1>2 DEF Known, TypeInv, TypeOK
  <2>2. users[u].email \in Emails /\ users[u].email # Null
    BY <2>1, NullIsNoValue DEF User
  <2>3. t \in Transaction
    BY <1>1, <2>2 DEF Transaction
  <2>4. t.seen = users[u].email /\ t.row = Null /\ t.entry = Null
    BY <1>1 DEF NoTransaction
  <2>5. StageOf("update", req[w], t)
    BY <1>1, <2>2, <2>4 DEF StageOf, Outcomes
  <2> QED
    BY <1>2, <2>3, <2>5, ContinueKeepsTypes DEF GetUser, Statements
<1>3. CASE ~Known(u)
  BY <1>1, <1>3, DiscardKeepsTypes DEF GetUser, Statements, Outcomes
<1> QED
  BY <1>2, <1>3

LEMMA SelectUserKeepsTypes ==
    ASSUME TypeInv, NEW w \in Workers, SelectUser(w)
    PROVE  TypeInv'
<1> DEFINE u == req[w].user
           t == [tx[w] EXCEPT !.user = u, !.seen = users[u].email]
<1>1. /\ pc[w] = "update" /\ req[w] \in PatchRequest /\ req[w] \in Requests
      /\ u \in UserIds /\ u # Null /\ tx[w] \in Transaction
  BY PatchStage DEF SelectUser, Runs
<1>2. users[u] \in User
  BY <1>1 DEF SelectUser, Known, TypeInv, TypeOK
<1>3. users[u].email \in Emails /\ users[u].email # Null
  BY <1>2, NullIsNoValue DEF User
<1>4. t \in Transaction
  BY <1>1, <1>3 DEF Transaction
<1>5. t.user = u /\ t.seen = users[u].email
  BY <1>1 DEF Transaction
<1>6. ToContacts(w, t)
  BY DEF SelectUser
<1> HIDE DEF t
<1> QED
  BY <1>1, <1>3, <1>4, <1>5, <1>6, ToContactsKeepsTypes

LEMMA UpdatedRowType ==
    ASSUME TypeInv, NEW w \in Workers, pc[w] \in {"update", "change"},
           Known(req[w].user)
    PROVE  UpdatedRow(w) \in User
<1> DEFINE u == req[w].user
<1>1. StageOf(pc[w], req[w], tx[w])
  BY DEF TypeInv, Stages
<1>2. CASE pc[w] = "update"
  <2>1. req[w] \in PatchRequest /\ u \in UserIds
    BY <1>2, PatchStage
  <2>2. users[u] \in User
    BY <2>1 DEF Known, TypeInv, TypeOK
  <2>3. UpdatedRow(w) = PatchedUser(users[u], req[w], MarksAdmin(w))
    BY <1>2 DEF UpdatedRow
  <2> QED
    BY <2>1, <2>2, <2>3, PatchedUserType DEF MarksAdmin
<1>3. CASE pc[w] = "change"
  <2>1. req[w] \in EmailChange
    BY <1>1, <1>3 DEF StageOf
  <2>2. users[u] \in User
    BY <2>1 DEF Known, TypeInv, TypeOK, EmailChange
  <2>3. UpdatedRow(w) = ReaddressedUser(users[u], req[w])
    BY <1>3 DEF UpdatedRow
  <2> QED
    BY <2>1, <2>2, <2>3, ReaddressedUserType
<1> QED
  BY <1>2, <1>3

\* The UPDATE of either path.
LEMMA WriteRowKeepsTypes ==
    ASSUME TypeInv, NEW w \in Workers, pc[w] \in {"update", "change"},
           Known(req[w].user), WriteRow(w),
           req[w] \in Requests, req[w] \in PatchRequest \cup EmailChange,
           req[w].user \in UserIds, req[w].user # Null,
           req[w].op = "patch" /\ req[w].email # Null => tx[w].seen # Null
    PROVE  TypeInv'
<1> DEFINE t == [tx[w] EXCEPT !.user = req[w].user, !.row = UpdatedRow(w)]
<1>1. UpdatedRow(w) \in User /\ UpdatedRow(w) # Null /\ tx[w] \in Transaction
  BY UpdatedRowType, NullIsNoValue DEF TypeInv, TypeOK
<1>2. t \in Transaction
  BY <1>1 DEF Transaction
<1>3. t.user = req[w].user /\ t.row = UpdatedRow(w) /\ t.seen = tx[w].seen
  BY <1>1 DEF Transaction
<1>4. CASE Continue(w, t, "index")
  <2>1. StageOf("index", req[w], t)
    BY <1>1, <1>3 DEF StageOf, Outcomes
  <2> HIDE DEF t
  <2> QED
    BY <1>2, <1>4, <2>1, ContinueKeepsTypes DEF Statements
<1>5. CASE ToContacts(w, t)
  <2> HIDE DEF t
  <2> QED
    BY <1>1, <1>2, <1>3, <1>5, ToContactsKeepsTypes
<1> QED
  BY <1>4, <1>5 DEF WriteRow

LEMMA UpdateUserKeepsTypes ==
    ASSUME TypeInv, NEW w \in Workers, UpdateUser(w)
    PROVE  TypeInv'
BY PatchStage, WriteRowKeepsTypes DEF UpdateUser, Runs

LEMMA IndexRowKeepsTypes ==
    ASSUME TypeInv, NEW w \in Workers, IndexRow(w)
    PROVE  TypeInv'
<1>1. pc[w] = "index" /\ StageOf(pc[w], req[w], tx[w])
      /\ tx[w] \in Transaction
  BY DEF IndexRow, Runs, TypeInv, TypeOK, Stages
<1>2. /\ req[w] \in Requests /\ tx[w].row # Null
      /\ req[w].op = "patch" /\ req[w].email # Null => tx[w].seen # Null
      /\ tx[w].user \in UserIds
  BY <1>1 DEF StageOf, PatchRequest, EmailChange
<1>3. tx[w].user # Null
  BY <1>2, NullIsNoValue
<1> QED
  BY <1>1, <1>2, <1>3, ToContactsKeepsTypes DEF IndexRow

LEMMA AddEntryKeepsTypes ==
    ASSUME TypeInv, NEW w \in Workers, AddEntry(w)
    PROVE  TypeInv'
<1> DEFINE e == [user |-> req[w].user, old |-> tx[w].seen,
                 new |-> req[w].email, id |-> Null]
           t == [tx[w] EXCEPT !.entry = e, !.shared = TRUE]
<1>1. StageOf(pc[w], req[w], tx[w]) /\ tx[w] \in Transaction
  BY DEF TypeInv, TypeOK, Stages
<1>2. /\ pc[w] = "entry" /\ req[w] \in PatchRequest /\ req[w] \in Requests
      /\ tx[w].seen # Null /\ tx[w].user # Null /\ req[w].email # Null
  BY <1>1 DEF AddEntry, Runs, StageOf
<1>3. e \in Entry
  BY <1>1, <1>2 DEF Transaction, PatchRequest, Entry
<1>4. t \in Transaction /\ t.user = tx[w].user
  BY <1>1, <1>3 DEF Transaction
<1>5. StageOf("commit", req[w], t)
  BY <1>2, <1>4 DEF StageOf, Outcomes
<1> QED
  BY <1>4, <1>5, ContinueKeepsTypes DEF AddEntry, Statements

\* What a worker with an address change can rely on.
LEMMA ChangeStage ==
    ASSUME TypeInv, NEW w \in Workers, pc[w] \in {"gate", "change"}
    PROVE  /\ req[w] \in Requests /\ req[w] \in EmailChange
           /\ req[w].user \in UserIds /\ req[w].user # Null
           /\ req[w].op = "email_change"
           /\ tx[w] \in Transaction
           /\ pc[w] = "gate" => tx[w] = NoTransaction
           /\ pc[w] = "change" =>
                /\ tx[w].row = Null
                /\ tx[w].user = req[w].user /\ Known(req[w].user)
<1>1. StageOf(pc[w], req[w], tx[w]) /\ tx[w] \in Transaction
      /\ (pc[w] = "change" => Known(req[w].user))
  BY DEF TypeInv, TypeOK, Stages, ChangesKnown, Known
<1>2. req[w] \in Requests /\ req[w] \in EmailChange
  BY <1>1 DEF StageOf
<1>3. req[w].user \in UserIds /\ req[w].user # Null
      /\ req[w].op = "email_change"
  BY <1>2, NullIsNoValue DEF EmailChange
<1> QED
  BY <1>1, <1>2, <1>3 DEF StageOf

LEMMA GateOpenKeepsTypes ==
    ASSUME TypeInv, NEW w \in Workers, GateOpen(w)
    PROVE  TypeInv'
<1> DEFINE u == req[w].user
           e == [user |-> u, old |-> req[w].old, new |-> req[w].new,
                 id |-> req[w].id]
           t == [tx[w] EXCEPT !.user = u, !.entry = e, !.shared = TRUE]
<1>1. /\ pc[w] = "gate" /\ req[w] \in EmailChange /\ req[w] \in Requests
      /\ u \in UserIds /\ tx[w] \in Transaction /\ tx[w] = NoTransaction
  BY ChangeStage DEF GateOpen, Runs
<1>2. e \in Entry
  BY <1>1 DEF EmailChange, Entry
<1>3. t \in Transaction
  BY <1>1, <1>2 DEF Transaction
<1>4. t.user = u /\ t.row = Null
  BY <1>1 DEF NoTransaction
<1>5. StageOf("change", req[w], t)
  BY <1>1, <1>4 DEF StageOf, Outcomes
<1>6. users[u] # Null
  BY DEF GateOpen, Known
<1> QED
  BY <1>3, <1>5, <1>6, ContinueKeepsTypes DEF GateOpen, Statements

LEMMA ChangeEmailKeepsTypes ==
    ASSUME TypeInv, NEW w \in Workers, ChangeEmail(w)
    PROVE  TypeInv'
BY ChangeStage, WriteRowKeepsTypes DEF ChangeEmail, Runs

\* What a worker with a message of the sync can rely on.
LEMMA UpsertStage ==
    ASSUME TypeInv, NEW w \in Workers, pc[w] = "upsert"
    PROVE  /\ req[w] \in Requests /\ req[w] \in Upserted
           /\ req[w].op = "upserted"
           /\ tx[w] \in Transaction /\ tx[w] = NoTransaction
<1>1. StageOf(pc[w], req[w], tx[w]) /\ tx[w] \in Transaction
  BY DEF TypeInv, TypeOK, Stages
<1> QED
  BY <1>1 DEF StageOf, Upserted

LEMMA UpsertKeepsTypes ==
    ASSUME TypeInv, NEW w \in Workers, NEW u \in UserIds, NEW row \in User,
           pc[w] = "upsert",
           ToContacts(w, [tx[w] EXCEPT !.user = u, !.row = row])
    PROVE  TypeInv'
<1> DEFINE t == [tx[w] EXCEPT !.user = u, !.row = row]
<1>1. t \in Transaction /\ t.user = u /\ t.row = row
  BY UpsertStage DEF Transaction
<1>2. u # Null /\ row # Null
  BY NullIsNoValue
<1>3. ToContacts(w, t)
  OBVIOUS
<1> HIDE DEF t
<1> QED
  BY <1>1, <1>2, <1>3, UpsertStage, ToContactsKeepsTypes

LEMMA UpsertInsertsKeepsTypes ==
    ASSUME TypeInv, NEW w \in Workers, UpsertInserts(w)
    PROVE  TypeInv'
<1>1. pc[w] = "upsert" /\ ImportedUser(req[w]) \in User
  BY UpsertStage, ImportedUserType DEF UpsertInserts, Runs
<1> QED
  BY <1>1, UpsertKeepsTypes DEF UpsertInserts, FreshIds

LEMMA UpsertUpdatesKeepsTypes ==
    ASSUME TypeInv, NEW w \in Workers, UpsertUpdates(w)
    PROVE  TypeInv'
<1>1. pc[w] = "upsert" /\ req[w] \in Upserted
  BY UpsertStage DEF UpsertUpdates, Runs
<1>2. \A u \in UserIds : Known(u) => RefreshedUser(users[u], req[w]) \in User
  BY <1>1, RefreshedUserType DEF Known, TypeInv, TypeOK
<1> QED
  BY <1>1, <1>2, UpsertKeepsTypes DEF UpsertUpdates

-----------------------------------------------------------------------------
\* A worker at its contacts or past them.
LEMMA ContactStage ==
    ASSUME TypeInv, NEW w \in Workers,
           pc[w] \in {"contacts", "fk", "entry", "commit"}
    PROVE  /\ req[w] \in Requests /\ tx[w] \in Transaction
           /\ tx[w].user \in UserIds /\ tx[w].user # Null
           /\ pc[w] = "contacts" =>
                /\ BatchEmail(w) \in Emails
                /\ UserBatch(w) \in Contacts
                /\ UserBatch(w)[EmailChannel] = BatchEmail(w)
                /\ tx[w].wants \in AllChannels
                /\ tx[w].row = Null => req[w] \in PatchRequest
                /\ req[w].op = "patch" /\ req[w].email # Null
                      => tx[w].seen # Null
<1>1. StageOf(pc[w], req[w], tx[w]) /\ tx[w] \in Transaction
  BY DEF TypeInv, TypeOK, Stages
<1>2. req[w] \in Requests /\ tx[w].user \in UserIds /\ tx[w].user # Null
  BY <1>1 DEF StageOf, Transaction
<1>3. CASE pc[w] = "contacts"
  <2>1. BatchEmail(w) \in Emails
    BY <1>1, <1>3 DEF StageOf, BatchEmail, Transaction, User
  <2> QED
    BY <1>1, <1>2, <1>3, <2>1, BatchType DEF UserBatch, StageOf
<1> QED
  BY <1>1, <1>2, <1>3

\* What a batch has written is a part of a row of contacts.
LEMMA ExtendedType ==
    ASSUME TypeInv, NEW w \in Workers, pc[w] = "contacts"
    PROVE  Extended(w) \in Contacts
BY ContactStage DEF Extended, Contacts, Transaction

LEMMA UpsertContactKeepsTypes ==
    ASSUME TypeInv, NEW w \in Workers, UpsertContact(w)
    PROVE  TypeInv'
<1>1. /\ pc[w] = "contacts" /\ tx[w] \in Transaction
      /\ StageOf("contacts", req[w], tx[w]) /\ Extended(w) \in Contacts
  BY ExtendedType DEF UpsertContact, Runs, TypeInv, TypeOK, Stages
<1>2. PICK c \in AllChannels :
        Continue(w, [tx[w] EXCEPT !.contacts = Extended(w), !.wants = c],
                 "contacts")
  BY NextChannelsType DEF UpsertContact, Left
<1> DEFINE t == [tx[w] EXCEPT !.contacts = Extended(w), !.wants = c]
<1>3. /\ t \in Transaction /\ t.wants = c
      /\ t.user = tx[w].user /\ t.row = tx[w].row /\ t.seen = tx[w].seen
  BY <1>1 DEF Transaction
<1>4. Continue(w, t, "contacts")
  BY <1>2
<1> HIDE DEF t
<1>5. StageOf("contacts", req[w], t)
  BY <1>1, <1>3 DEF StageOf, Outcomes
<1> QED
  BY <1>3, <1>4, <1>5, ContinueKeepsTypes DEF Statements

LEMMA UpsertContactsKeepsTypes ==
    ASSUME TypeInv, NEW w \in Workers, UpsertContacts(w)
    PROVE  TypeInv'
<1> DEFINE t == [tx[w] EXCEPT !.contacts = Extended(w), !.wants = Null]
           at == IF ChecksUser(w) THEN "fk"
                 ELSE IF AddsEntry(w) THEN "entry" ELSE "commit"
<1>1. /\ pc[w] = "contacts" /\ req[w] \in Requests /\ tx[w] \in Transaction
      /\ tx[w].user # Null /\ Extended(w) \in Contacts
      /\ tx[w].row = Null => req[w] \in PatchRequest
      /\ req[w].op = "patch" /\ req[w].email # Null => tx[w].seen # Null
  BY ContactStage, ExtendedType DEF UpsertContacts, Runs
<1>2. t \in Transaction /\ t.user = tx[w].user /\ t.seen = tx[w].seen
  BY <1>1 DEF Transaction
<1>3. Continue(w, t, at)
  BY DEF UpsertContacts
<1> HIDE DEF t
<1>4. CASE ChecksUser(w)
  <2>1. req[w] \in PatchRequest
    BY <1>1, <1>4 DEF ChecksUser
  <2>2. StageOf("fk", req[w], t)
    BY <1>1, <1>2, <2>1 DEF StageOf, Outcomes
  <2> QED
    BY <1>2, <1>3, <1>4, <2>2, ContinueKeepsTypes DEF Statements
<1>5. CASE ~ChecksUser(w) /\ AddsEntry(w)
  <2>1. req[w] \in PatchRequest /\ req[w].email # Null /\ tx[w].seen # Null
    BY <1>1, <1>5, RequestKinds DEF AddsEntry, MarksAdmin
  <2>2. StageOf("entry", req[w], t)
    BY <1>1, <1>2, <2>1 DEF StageOf, Outcomes
  <2> QED
    BY <1>2, <1>3, <1>5, <2>2, ContinueKeepsTypes DEF Statements
<1>6. CASE ~ChecksUser(w) /\ ~AddsEntry(w)
  <2>1. StageOf("commit", req[w], t)
    BY <1>1, <1>2 DEF StageOf, Outcomes
  <2> QED
    BY <1>2, <1>3, <1>6, <2>1, ContinueKeepsTypes DEF Statements
<1> QED
  BY <1>4, <1>5, <1>6

LEMMA CheckUserKeepsTypes ==
    ASSUME TypeInv, NEW w \in Workers, CheckUser(w)
    PROVE  TypeInv'
<1> DEFINE t == [tx[w] EXCEPT !.shared = TRUE]
<1>1. /\ pc[w] = "fk" /\ req[w] \in Requests /\ tx[w] \in Transaction
      /\ tx[w].user # Null
  BY ContactStage DEF CheckUser, Runs
<1>2. t \in Transaction /\ t.user = tx[w].user
  BY <1>1 DEF Transaction
<1>3. StageOf("commit", req[w], t)
  BY <1>1, <1>2 DEF StageOf, Outcomes
<1> QED
  BY <1>2, <1>3, ContinueKeepsTypes DEF CheckUser, Statements

(***************************************************************************)
(* The commit, answered or not.                                            *)
(***************************************************************************)
LEMMA ApplyKeepsTypes ==
    ASSUME TypeInv, NEW w \in Workers, NEW outcome \in Outcomes,
           pc[w] = "commit", Apply(w), Goto(w, outcome)
    PROVE  TypeInv'
<1> DEFINE t == tx[w]
<1>1. /\ req[w] \in Requests /\ t \in Transaction /\ t.user \in UserIds
  BY ContactStage
<1>2. users' \in [UserIds -> User \cup {Null}]
      /\ \A u \in UserIds : Known(u) => users'[u] # Null
  BY <1>1, NullIsNoValue DEF TypeInv, TypeOK, Apply, Transaction, Known
<1>3. contacts' \in [UserIds -> Contacts]
  <2>1. Merge(contacts[t.user], t.contacts) \in Contacts
    BY <1>1, MergeType DEF TypeInv, TypeOK, Transaction
  <2> QED
    BY <1>1, <2>1 DEF TypeInv, TypeOK, Apply
<1>4. changelog' \in Seq(Entry)
  BY <1>1 DEF TypeInv, TypeOK, Apply, Transaction
<1>5. /\ pc' \in [Workers -> {"idle"} \cup Statements \cup Outcomes]
      /\ req' \in [Workers -> Requests \cup {Null}]
      /\ tx' \in [Workers -> Transaction]
  BY NoTransactionType DEF TypeInv, TypeOK, Apply, Goto
<1>6. ASSUME NEW v \in Workers
      PROVE  /\ StageOf(pc[v], req[v], tx[v])'
             /\ (pc[v] = "change" => users[req[v].user] # Null)'
  <2>1. CASE v = w
    BY <1>1, <2>1 DEF TypeInv, TypeOK, Apply, Goto, StageOf, Outcomes
  <2>2. CASE v # w
    <3>1. pc'[v] = pc[v] /\ req'[v] = req[v] /\ tx'[v] = tx[v]
      BY <2>2 DEF TypeInv, TypeOK, Apply, Goto
    <3>2. StageOf(pc[v], req[v], tx[v])
      BY DEF TypeInv, Stages
    <3>3. CASE pc[v] = "change"
      <4>1. req[v].user \in UserIds /\ Known(req[v].user)
        BY <3>3, ChangeStage
      <4> QED
        BY <1>2, <3>1, <3>2, <4>1
    <3> QED
      BY <3>1, <3>2, <3>3
  <2> QED
    BY <2>1, <2>2
<1> QED
  BY <1>2, <1>3, <1>4, <1>5, <1>6 DEF TypeInv, TypeOK, Stages, ChangesKnown

-----------------------------------------------------------------------------
\* Every statement that fails ends its transaction.
LEMMA FailureKeepsTypes ==
    ASSUME TypeInv, NEW w \in Workers,
           \/ UpdateNoUser(w) \/ IndexConflict(w) \/ GateDuplicate(w)
           \/ GateNoUser(w) \/ Lose(w) \/ Victim(w)
    PROVE  TypeInv'
<1>1. \E outcome \in Outcomes : Discard(w, outcome)
  BY DEF UpdateNoUser, IndexConflict, GateDuplicate, GateNoUser, Lose,
         Victim, Outcomes
<1>2. CASE ~Victim(w)
  <2>1. pc[w] \in Statements
    BY <1>2 DEF UpdateNoUser, IndexConflict, GateDuplicate, GateNoUser, Lose,
           Runs, Statements
  <2> QED
    BY <1>1, <2>1, DiscardKeepsTypes
<1>3. CASE Victim(w)
  <2>1. Blockers(w) # {}
    BY <1>3 DEF Victim, Deadlocked
  <2>2. pc[w] \in {"update", "change", "index", "gate", "insert", "upsert",
                   "contacts", "fk"}
    BY <2>1 DEF Blockers
  <2> QED
    BY <1>1, <2>2, DiscardKeepsTypes DEF Statements
<1> QED
  BY <1>2, <1>3

LEMMA StatementKeepsTypes ==
    ASSUME TypeInv, NEW w \in Workers, Statement(w)
    PROVE  TypeInv'
<1>1. CASE Commit(w) \/ CommitUnanswered(w)
  BY <1>1, ApplyKeepsTypes DEF Commit, CommitUnanswered, Runs, Outcomes
<1>2. CASE ~(Commit(w) \/ CommitUnanswered(w))
  BY <1>2, CreateKeepsTypes, GetUserKeepsTypes, SelectUserKeepsTypes,
     UpdateUserKeepsTypes, IndexRowKeepsTypes, AddEntryKeepsTypes,
     GateOpenKeepsTypes, ChangeEmailKeepsTypes, UpsertInsertsKeepsTypes,
     UpsertUpdatesKeepsTypes, UpsertContactKeepsTypes,
     UpsertContactsKeepsTypes, CheckUserKeepsTypes, FailureKeepsTypes
     DEF Statement
<1> QED
  BY <1>1, <1>2

LEMMA InitTypes == Init => TypeInv
<1> SUFFICES ASSUME Init PROVE TypeInv
  OBVIOUS
<1>1. NoContacts \in Contacts
  BY DEF NoContacts, Contacts
<1>2. TypeOK
  BY <1>1, NoTransactionType DEF Init, TypeOK
<1>3. Stages /\ ChangesKnown
  BY DEF Init, Stages, StageOf, ChangesKnown, Outcomes
<1> QED
  BY <1>2, <1>3 DEF TypeInv

LEMMA NextKeepsTypes == TypeInv /\ [Next]_vars => TypeInv'
<1> SUFFICES ASSUME TypeInv, [Next]_vars PROVE TypeInv'
  OBVIOUS
<1>1. CASE UNCHANGED vars
  BY <1>1 DEF vars, TypeInv, TypeOK, Stages, StageOf, ChangesKnown
<1>2. CASE Next
  <2>1. PICK w \in Workers : \/ \E r \in Requests : Begin(w, r)
                             \/ Statement(w) \/ Victim(w) \/ Lose(w)
                             \/ Finish(w)
    BY <1>2 DEF Next
  <2> QED
    BY <2>1, BeginKeepsTypes, StatementKeepsTypes, FailureKeepsTypes,
       FinishKeepsTypes
<1> QED
  BY <1>1, <1>2

(***************************************************************************)
(* Every reachable state has the types that TypeOK gives, whatever the     *)
(* requests: the handlers of consumer.py and routes.py use what an earlier *)
(* statement of theirs has left.                                           *)
(***************************************************************************)
THEOREM TypeCorrect == Spec => []TypeOK
<1>1. TypeInv => TypeOK
  BY DEF TypeInv
<1> QED
  BY <1>1, InitTypes, NextKeepsTypes, PTL DEF Spec

LEMMA TypeInvariant == Spec => []TypeInv
BY InitTypes, NextKeepsTypes, PTL DEF Spec

-----------------------------------------------------------------------------
(***************************************************************************)
(* EmailRoleUnique.  It is inductive together with what the locks keep     *)
(* true of rows that are not committed: no user has two of them, and the   *)
(* key of each that is in the index is the key of no other user.           *)
(***************************************************************************)
Writes(w)  == tx[w].row # Null
Indexed(w) == Writes(w) /\ pc[w] # "index"

OneWriter ==
    \A v, w \in Workers :
        Writes(v) /\ Writes(w) /\ tx[v].user = tx[w].user => v = w

PendingKeysFree ==
    \A w \in Workers : Indexed(w) =>
        \A x \in UserIds : Known(x) /\ Key(users[x]) = Key(tx[w].row)
                           => x = tx[w].user

PendingKeysDistinct ==
    \A v, w \in Workers :
        Indexed(v) /\ Indexed(w) /\ Key(tx[v].row) = Key(tx[w].row) => v = w

KeyInv == EmailRoleUnique /\ OneWriter /\ PendingKeysFree
          /\ PendingKeysDistinct

\* A write that found the row unlocked, and its key in nobody's use unless
\* that is yet to be seen.
LEMMA WriteKeepsKeys ==
    ASSUME TypeInv, KeyInv, NEW w \in Workers, NEW t, NEW at,
           Continue(w, t, at),
           \A v \in Others(w) : Writes(v) => tx[v].user # t.user,
           at # "index" =>
             /\ \A v \in Others(w) : Indexed(v) => Key(tx[v].row) # Key(t.row)
             /\ \A x \in UserIds : Known(x) /\ Key(users[x]) = Key(t.row)
                                   => x = t.user
    PROVE  KeyInv'
<1>1. /\ users' = users /\ tx'[w] = t /\ pc'[w] = at
      /\ \A v \in Others(w) : tx'[v] = tx[v] /\ pc'[v] = pc[v]
  BY DEF Continue, Goto, tables, TypeInv, TypeOK, Others
<1> QED
  BY <1>1 DEF KeyInv, EmailRoleUnique, OneWriter, PendingKeysFree,
     PendingKeysDistinct, Writes, Indexed, Known, Others

\* A statement that writes no row of users.
LEMMA OtherKeepsKeys ==
    ASSUME TypeInv, KeyInv, NEW w \in Workers, NEW t, NEW at,
           Continue(w, t, at),
           t.row # Null => /\ t.row = tx[w].row /\ t.user = tx[w].user
                           /\ pc[w] # "index"
    PROVE  KeyInv'
<1>1. /\ users' = users /\ tx'[w] = t
      /\ \A v \in Others(w) : tx'[v] = tx[v] /\ pc'[v] = pc[v]
  BY DEF Continue, Goto, tables, TypeInv, TypeOK, Others
<1> QED
  BY <1>1 DEF KeyInv, EmailRoleUnique, OneWriter, PendingKeysFree,
     PendingKeysDistinct, Writes, Indexed, Known, Others

LEMMA DiscardKeepsKeys ==
    ASSUME TypeInv, KeyInv, NEW w \in Workers, NEW outcome,
           Discard(w, outcome)
    PROVE  KeyInv'
BY OtherKeepsKeys DEF Discard, NoTransaction

\* An INSERT of POST or of the sync under a key that was free.
LEMMA InsertKeepsKeys ==
    ASSUME TypeInv, KeyInv, NEW w \in Workers, NEW u \in FreshIds,
           NEW row \in User, pc[w] \in {"insert", "upsert"},
           Key(row) = <<req[w].email, req[w].role>>,
           Blockers(w) = {}, ~KeyTaken(Key(row), Null),
           ToContacts(w, [tx[w] EXCEPT !.user = u, !.row = row])
    PROVE  KeyInv'
<1> DEFINE t == [tx[w] EXCEPT !.user = u, !.row = row]
<1>1. t \in Transaction /\ t.user = u /\ t.row = row
  BY DEF TypeInv, TypeOK, Transaction, FreshIds
<1>2. \A v \in Others(w) : Writes(v) => tx[v].user # u
  BY DEF FreshIds, Others
<1>3. \A v \in Others(w) : Indexed(v) => Key(tx[v].row) # Key(row)
  <2>1. Others(w) \cap KeyHolders(Key(row)) = {}
    BY DEF Blockers
  <2> QED
    BY <2>1 DEF KeyHolders, Writes, Indexed, Others
<1>4. \A x \in UserIds : Known(x) => Key(users[x]) # Key(row)
  BY NullIsNoValue DEF KeyTaken
<1>5. ToContacts(w, t)
  OBVIOUS
<1> HIDE DEF t
<1>6. PICK s : Continue(w, s, "contacts") /\ s.user = u /\ s.row = row
  BY <1>1, <1>5, ToContactsContinues
<1> QED
  BY <1>2, <1>3, <1>4, <1>6, WriteKeepsKeys

\* An UPDATE by PATCH or by an address change.
LEMMA UpdateKeepsKeys ==
    ASSUME TypeInv, KeyInv, NEW w \in Workers,
           Blockers(w) = {}, Known(req[w].user), req[w].user \in UserIds,
           \/ pc[w] = "change"
           \/ pc[w] = "update" /\ ~SetsNothing(req[w]),
           WriteRow(w)
    PROVE  KeyInv'
<1> DEFINE u == req[w].user
           t == [tx[w] EXCEPT !.user = u, !.row = UpdatedRow(w)]
<1>1. Others(w) \cap UpdateBlockers(w) = {}
  BY DEF Blockers
<1>2. \A v \in Others(w) : Writes(v) => tx[v].user # u
  BY <1>1 DEF UpdateBlockers, RowWriters, Writes, Others
<1>3. t \in Transaction /\ t.user = u /\ t.row = UpdatedRow(w)
  BY UpdatedRowType DEF TypeInv, TypeOK, Transaction
<1>4. CASE Continue(w, t, "index")
  <2> HIDE DEF t
  <2> QED
    BY <1>2, <1>3, <1>4, WriteKeepsKeys
<1>5. CASE ~MovesKey(w) /\ ToContacts(w, t)
  <2> HIDE DEF t
  <2>1. Key(t.row) = Key(users[u])
    BY <1>3, <1>5 DEF MovesKey
  <2>2. \A v \in Others(w) : Indexed(v) => Key(tx[v].row) # Key(t.row)
    BY <1>2, <2>1 DEF KeyInv, PendingKeysFree, Indexed, Others
  <2>3. \A x \in UserIds : Known(x) /\ Key(users[x]) = Key(t.row) => x = u
    BY <2>1 DEF KeyInv, EmailRoleUnique
  <2>4. PICK s : /\ Continue(w, s, "contacts")
                 /\ s.user = t.user /\ s.row = t.row
    BY <1>3, <1>5, ToContactsContinues
  <2> QED
    BY <1>2, <1>3, <2>2, <2>3, <2>4, WriteKeepsKeys
<1> QED
  BY <1>4, <1>5 DEF WriteRow

\* The new key of such a row enters the index.
LEMMA IndexRowKeepsKeys ==
    ASSUME TypeInv, KeyInv, NEW w \in Workers, IndexRow(w)
    PROVE  KeyInv'
<1>1. /\ pc[w] = "index" /\ Writes(w) /\ tx[w] \in Transaction
      /\ Others(w) \cap KeyHolders(Key(tx[w].row)) = {}
  BY DEF IndexRow, Runs, Blockers, TypeInv, TypeOK, Stages, StageOf, Writes
<1>2. PICK s : /\ Continue(w, s, "contacts")
               /\ s.user = tx[w].user /\ s.row = tx[w].row
  BY <1>1, ToContactsContinues DEF IndexRow
<1>3. \A v \in Others(w) : Writes(v) => tx[v].user # s.user
  BY <1>1, <1>2 DEF KeyInv, OneWriter, Others
<1>4. \A v \in Others(w) : Indexed(v) => Key(tx[v].row) # Key(s.row)
  BY <1>1, <1>2 DEF KeyHolders, Writes, Indexed, Others
<1>5. \A x \in UserIds : Known(x) /\ Key(users[x]) = Key(s.row) => x = s.user
  BY <1>2 DEF IndexRow, KeyTaken
<1> QED
  BY <1>2, <1>3, <1>4, <1>5, WriteKeepsKeys

LEMMA UpsertUpdatesKeepsKeys ==
    ASSUME TypeInv, KeyInv, NEW w \in Workers, UpsertUpdates(w)
    PROVE  KeyInv'
<1>1. /\ pc[w] = "upsert" /\ req[w] \in Upserted /\ tx[w] \in Transaction
      /\ Others(w) \cap KeyHolders(<<req[w].email, req[w].role>>) = {}
  BY UpsertStage DEF UpsertUpdates, Runs, Blockers
<1>2. PICK u \in UserIds :
        /\ Known(u)
        /\ Key(users[u]) = <<req[w].email, req[w].role>>
        /\ ToContacts(w, [tx[w] EXCEPT !.user = u,
                             !.row = RefreshedUser(users[u], req[w])])
  BY DEF UpsertUpdates
<1> DEFINE row == RefreshedUser(users[u], req[w])
           t == [tx[w] EXCEPT !.user = u, !.row = row]
<1>3. row \in User /\ Key(row) = Key(users[u])
  BY <1>1, <1>2, RefreshedUserType DEF Known, TypeInv, TypeOK
<1>4. t \in Transaction /\ t.user = u /\ t.row = row
  BY <1>1, <1>3 DEF Transaction
<1>5. \A v \in Others(w) :
        /\ Writes(v) => tx[v].user # u
        /\ Indexed(v) => Key(tx[v].row) # Key(row)
  BY <1>1, <1>2, <1>3 DEF KeyHolders, Writes, Indexed, Others, Known
<1>6. \A x \in UserIds : Known(x) /\ Key(users[x]) = Key(row) => x = u
  BY <1>2, <1>3 DEF KeyInv, EmailRoleUnique
<1>7. ToContacts(w, t)
  BY <1>2
<1> HIDE DEF row, t
<1>8. PICK s : Continue(w, s, "contacts") /\ s.user = u /\ s.row = row
  BY <1>4, <1>7, ToContactsContinues
<1> QED
  BY <1>5, <1>6, <1>8, WriteKeepsKeys

LEMMA ApplyKeepsKeys ==
    ASSUME TypeInv, KeyInv, NEW w \in Workers, NEW outcome,
           pc[w] = "commit", Apply(w), Goto(w, outcome)
    PROVE  KeyInv'
<1>1. /\ tx'[w].row = Null
      /\ \A v \in Others(w) : tx'[v] = tx[v] /\ pc'[v] = pc[v]
  BY DEF Apply, Goto, NoTransaction, TypeInv, TypeOK, Others
<1>2. tx[w].user \in UserIds
  BY ContactStage
<1>3. \A u \in UserIds :
        users'[u] = IF Writes(w) /\ u = tx[w].user THEN tx[w].row ELSE users[u]
  BY <1>2 DEF Apply, Writes, TypeInv, TypeOK
<1>4. EmailRoleUnique'
  BY <1>3 DEF KeyInv, EmailRoleUnique, PendingKeysFree, Writes, Indexed, Known
<1>5. PendingKeysFree'
  BY <1>1, <1>3 DEF KeyInv, PendingKeysFree, PendingKeysDistinct, Writes,
     Indexed, Known, Others
<1>6. OneWriter' /\ PendingKeysDistinct'
  BY <1>1 DEF KeyInv, OneWriter, PendingKeysDistinct, Writes, Indexed, Others
<1> QED
  BY <1>4, <1>5, <1>6 DEF KeyInv

LEMMA StatementKeepsKeys ==
    ASSUME TypeInv, KeyInv, NEW w \in Workers, Statement(w)
    PROVE  KeyInv'
<1>1. CASE InsertUser(w) \/ UpsertInserts(w)
  <2>1. CASE InsertUser(w)
    <3>1. pc[w] = "insert" /\ req[w] \in CreateRequest
      BY <2>1 DEF InsertUser, Runs, TypeInv, Stages, StageOf
    <3>2. CreatedUser(req[w]) \in User
          /\ Key(CreatedUser(req[w])) = <<req[w].email, req[w].role>>
      BY <3>1, CreatedUserType DEF CreatedUser, Key
    <3> QED
      BY <2>1, <3>1, <3>2, InsertKeepsKeys DEF InsertUser, Runs
  <2>2. CASE UpsertInserts(w)
    <3>1. pc[w] = "upsert" /\ req[w] \in Upserted
      BY <2>2, UpsertStage DEF UpsertInserts, Runs
    <3>2. ImportedUser(req[w]) \in User
          /\ Key(ImportedUser(req[w])) = <<req[w].email, req[w].role>>
      BY <3>1, ImportedUserType DEF ImportedUser, Key
    <3> QED
      BY <2>2, <3>1, <3>2, InsertKeepsKeys DEF UpsertInserts, Runs
  <2> QED
    BY <1>1, <2>1, <2>2
<1>2. CASE UpdateUser(w)
  BY <1>2, PatchStage, UpdateKeepsKeys DEF UpdateUser, Runs
<1>3. CASE ChangeEmail(w)
  BY <1>3, ChangeStage, UpdateKeepsKeys DEF ChangeEmail, Runs
<1>4. CASE GetUser(w) \/ SelectUser(w) \/ GateOpen(w)
  <2>1. tx[w].row = Null /\ tx[w] \in Transaction
    BY <1>4, PatchStage, ChangeStage
       DEF GetUser, SelectUser, GateOpen, Runs, NoTransaction
  <2>2. CASE SelectUser(w)
    <3> DEFINE t == [tx[w] EXCEPT !.user = req[w].user,
                                  !.seen = users[req[w].user].email]
    <3>1. pc[w] = "update" /\ req[w].user \in UserIds
          /\ users[req[w].user] \in User
      BY <2>2, PatchStage DEF SelectUser, Runs, Known, TypeInv, TypeOK
    <3>2. t \in Transaction /\ t.row = Null
      BY <2>1, <3>1 DEF Transaction, User
    <3>3. ToContacts(w, t)
      BY <2>2 DEF SelectUser
    <3> HIDE DEF t
    <3>4. PICK s : Continue(w, s, "contacts") /\ s.row = Null
      BY <3>2, <3>3, ToContactsContinues
    <3> QED
      BY <3>4, OtherKeepsKeys
  <2>3. CASE GetUser(w) \/ GateOpen(w)
    <3>1. \E t, at : t.row = Null /\ Continue(w, t, at)
      BY <2>1, <2>3
         DEF GetUser, GateOpen, Discard, NoTransaction, Transaction
    <3> QED
      BY <3>1, OtherKeepsKeys
  <2> QED
    BY <1>4, <2>2, <2>3
<1>5. CASE UpsertContact(w) \/ UpsertContacts(w) \/ CheckUser(w) \/ AddEntry(w)
  <2>1. tx[w] \in Transaction /\ pc[w] # "index"
    BY <1>5 DEF UpsertContact, UpsertContacts, CheckUser, AddEntry, Runs,
       TypeInv, TypeOK
  <2>2. \E t, at : /\ t.row = tx[w].row /\ t.user = tx[w].user
                   /\ Continue(w, t, at)
    BY <1>5, <2>1
       DEF UpsertContact, UpsertContacts, CheckUser, AddEntry, Transaction
  <2> QED
    BY <2>1, <2>2, OtherKeepsKeys
<1>6. CASE UpsertUpdates(w)
  BY <1>6, UpsertUpdatesKeepsKeys
<1>7. CASE Commit(w) \/ CommitUnanswered(w)
  BY <1>7, ApplyKeepsKeys DEF Commit, CommitUnanswered, Runs
<1>8. CASE \/ InsertConflict(w) \/ UpdateNoUser(w) \/ IndexConflict(w)
           \/ GateDuplicate(w) \/ GateNoUser(w)
  BY <1>8, DiscardKeepsKeys DEF InsertConflict, UpdateNoUser, IndexConflict,
     GateDuplicate, GateNoUser
<1>9. CASE IndexRow(w)
  BY <1>9, IndexRowKeepsKeys
<1> QED
  BY <1>1, <1>2, <1>3, <1>4, <1>5, <1>6, <1>7, <1>8, <1>9 DEF Statement

LEMMA NextKeepsKeys == TypeInv /\ KeyInv /\ [Next]_vars => KeyInv'
<1> SUFFICES ASSUME TypeInv, KeyInv, [Next]_vars PROVE KeyInv'
  OBVIOUS
<1> USE DEF KeyInv, EmailRoleUnique, OneWriter, PendingKeysFree,
            PendingKeysDistinct, Writes, Indexed, Known
<1>1. CASE UNCHANGED <<users, pc, tx>>
  BY <1>1
<1>2. CASE Next
  <2>1. PICK w \in Workers : \/ \E r \in Requests : Begin(w, r)
                             \/ Statement(w) \/ Victim(w) \/ Lose(w)
                             \/ Finish(w)
    BY <1>2 DEF Next
  <2>2. CASE Statement(w)
    BY <2>2, StatementKeepsKeys
  <2>3. CASE Victim(w) \/ Lose(w)
    BY <2>3, DiscardKeepsKeys DEF Victim, Lose
  <2>4. CASE (\E r \in Requests : Begin(w, r)) \/ Finish(w)
    <3>1. /\ UNCHANGED <<users, tx>> /\ tx[w].row = Null
          /\ \A v \in Others(w) : pc'[v] = pc[v]
      BY <2>4 DEF Begin, Finish, Goto, tables, TypeInv, TypeOK, Stages,
         StageOf, NoTransaction, Others
    <3> QED
      BY <3>1 DEF Others
  <2> QED
    BY <2>1, <2>2, <2>3, <2>4
<1> QED
  BY <1>1, <1>2 DEF vars

LEMMA InitKeys == Init => KeyInv
BY DEF Init, KeyInv, EmailRoleUnique, OneWriter, PendingKeysFree,
       PendingKeysDistinct, Writes, Indexed, Known, NoTransaction

(***************************************************************************)
(* No two users ever share an address and a role, whatever POST, PATCH and *)
(* messages race: the promise that get_user_by_email_role and the upsert   *)
(* of the sync rest on.                                                    *)
(***************************************************************************)
THEOREM EmailRoleStaysUnique == Spec => []EmailRoleUnique
<1>1. TypeInv /\ KeyInv /\ [Next]_vars => (TypeInv /\ KeyInv)'
  BY NextKeepsTypes, NextKeepsKeys
<1>2. KeyInv => EmailRoleUnique
  BY DEF KeyInv
<1> QED
  BY <1>1, <1>2, InitTypes, InitKeys, PTL DEF Spec

-----------------------------------------------------------------------------
(***************************************************************************)
(* MessageOnce.  An entry that is not committed has a message id that no   *)
(* other entry has, committed or not: its worker waited at the gate.       *)
(***************************************************************************)
Carries(w, m) == tx[w].entry # Null /\ tx[w].entry.id = m /\ m # Null

PendingMessagesNew ==
    /\ \A w \in Workers : \A i \in DOMAIN changelog :
          ~Carries(w, changelog[i].id)
    /\ \A v, w \in Workers :
          Carries(v, tx[w].entry.id) /\ tx[w].entry # Null => v = w

MessageInv == MessageOnce /\ PendingMessagesNew

LEMMA ContinueKeepsMessages ==
    ASSUME TypeInv, MessageInv, NEW w \in Workers, NEW t, NEW at,
           Continue(w, t, at),
           \/ t.entry = tx[w].entry
           \/ t.entry = Null
           \/ t.entry.id = Null
           \/ /\ \A i \in DOMAIN changelog : changelog[i].id # t.entry.id
              /\ \A v \in Others(w) : ~Carries(v, t.entry.id)
    PROVE  MessageInv'
<1>1. changelog' = changelog /\ tx'[w] = t
      /\ \A v \in Others(w) : tx'[v] = tx[v]
  BY DEF Continue, tables, TypeInv, TypeOK, Others
<1> QED
  BY <1>1 DEF MessageInv, MessageOnce, PendingMessagesNew, Carries, Others

LEMMA DiscardKeepsMessages ==
    ASSUME TypeInv, MessageInv, NEW w \in Workers, NEW outcome,
           Discard(w, outcome)
    PROVE  MessageInv'
BY ContinueKeepsMessages DEF Discard, NoTransaction

LEMMA GateOpenKeepsMessages ==
    ASSUME TypeInv, MessageInv, NEW w \in Workers, GateOpen(w)
    PROVE  MessageInv'
<1> DEFINE u == req[w].user
           m == req[w].id
           e == [user |-> u, old |-> req[w].old, new |-> req[w].new, id |-> m]
           t == [tx[w] EXCEPT !.user = u, !.entry = e, !.shared = TRUE]
<1>1. pc[w] = "gate" /\ tx[w] \in Transaction
      /\ Others(w) \cap GateBlockers(w) = {} /\ m \notin MessagesIn(changelog)
  BY DEF GateOpen, Runs, Blockers, TypeInv, TypeOK
<1>2. t.entry.id = m
  BY <1>1 DEF Transaction
<1>3. \A v \in Others(w) : ~Carries(v, m)
  BY <1>1 DEF GateBlockers, MessageHolders, Carries, Others
<1>4. m # Null => \A i \in DOMAIN changelog : changelog[i].id # m
  BY <1>1 DEF MessagesIn
<1>5. Continue(w, t, "change")
  BY DEF GateOpen
<1> HIDE DEF t, m
<1> QED
  BY <1>2, <1>3, <1>4, <1>5, ContinueKeepsMessages

LEMMA ApplyKeepsMessages ==
    ASSUME TypeInv, MessageInv, NEW w \in Workers, pc[w] = "commit", Apply(w)
    PROVE  MessageInv'
<1> DEFINE e == tx[w].entry
<1>1. /\ tx'[w].entry = Null /\ changelog \in Seq(Entry)
      /\ \A v \in Others(w) : tx'[v] = tx[v]
  BY DEF Apply, NoTransaction, TypeInv, TypeOK, Others
<1>2. CASE e = Null
  <2>1. changelog' = changelog
    BY <1>2 DEF Apply
  <2> QED
    BY <1>1, <2>1 DEF MessageInv, MessageOnce, PendingMessagesNew, Carries,
       Others
<1>3. CASE e # Null
  <2>1. changelog' = Append(changelog, e)
    BY <1>3 DEF Apply
  <2>2. e \in Entry
    BY <1>3 DEF TypeInv, TypeOK, Transaction
  <2>3. /\ DOMAIN changelog' = DOMAIN changelog \cup {Len(changelog) + 1}
        /\ changelog'[Len(changelog) + 1] = e
        /\ \A i \in DOMAIN changelog : changelog'[i] = changelog[i]
    BY <1>1, <2>1, <2>2
  <2>4. \A i \in DOMAIN changelog : changelog[i].id = e.id => e.id = Null
    BY <1>3 DEF MessageInv, PendingMessagesNew, Carries
  <2>5. MessageOnce'
    BY <2>3, <2>4 DEF MessageInv, MessageOnce
  <2>6. PendingMessagesNew'
    BY <1>1, <1>3, <2>3 DEF MessageInv, PendingMessagesNew, Carries, Others
  <2> QED
    BY <2>5, <2>6 DEF MessageInv
<1> QED
  BY <1>2, <1>3

LEMMA StatementKeepsMessages ==
    ASSUME TypeInv, MessageInv, NEW w \in Workers, Statement(w)
    PROVE  MessageInv'
<1>1. tx[w] \in Transaction
  BY DEF TypeInv, TypeOK
<1>2. CASE GateOpen(w)
  BY <1>2, GateOpenKeepsMessages
<1>3. CASE AddEntry(w)
  <2>1. \E t, at : t.entry.id = Null /\ Continue(w, t, at)
    BY <1>1, <1>3 DEF AddEntry, Transaction
  <2> QED
    BY <2>1, ContinueKeepsMessages
<1>4. CASE Commit(w) \/ CommitUnanswered(w)
  BY <1>4, ApplyKeepsMessages DEF Commit, CommitUnanswered, Runs
<1>5. CASE \/ InsertUser(w) \/ GetUser(w) \/ SelectUser(w) \/ UpdateUser(w)
           \/ IndexRow(w) \/ ChangeEmail(w) \/ UpsertInserts(w)
           \/ UpsertUpdates(w) \/ UpsertContact(w) \/ UpsertContacts(w)
           \/ CheckUser(w)
  <2> DEFINE Keeps == \E t, at : /\ t.entry = tx[w].entry \/ t.entry = Null
                               /\ Continue(w, t, at)
  <2>1. InsertUser(w) \/ UpsertInserts(w) \/ UpsertUpdates(w) => Keeps
    BY <1>1
       DEF InsertUser, UpsertInserts, UpsertUpdates, ToContacts, Transaction
  <2>2. GetUser(w) => Keeps
    BY <1>1 DEF GetUser, Discard, NoTransaction, Transaction
  <2>3. SelectUser(w) \/ IndexRow(w) => Keeps
    BY <1>1 DEF SelectUser, IndexRow, ToContacts, Transaction
  <2>4. UpdateUser(w) \/ ChangeEmail(w) => Keeps
    BY <1>1 DEF UpdateUser, ChangeEmail, WriteRow, ToContacts, Transaction
  <2>5. UpsertContact(w) \/ UpsertContacts(w) \/ CheckUser(w) => Keeps
    BY <1>1 DEF UpsertContact, UpsertContacts, CheckUser, Transaction
  <2> QED
    BY <1>5, <2>1, <2>2, <2>3, <2>4, <2>5, ContinueKeepsMessages
<1>6. CASE \/ InsertConflict(w) \/ UpdateNoUser(w) \/ IndexConflict(w)
           \/ GateDuplicate(w) \/ GateNoUser(w)
  BY <1>6, DiscardKeepsMessages DEF InsertConflict, UpdateNoUser,
     IndexConflict, GateDuplicate, GateNoUser
<1> QED
  BY <1>2, <1>3, <1>4, <1>5, <1>6 DEF Statement

LEMMA NextKeepsMessages == TypeInv /\ MessageInv /\ [Next]_vars => MessageInv'
<1> SUFFICES ASSUME TypeInv, MessageInv, [Next]_vars PROVE MessageInv'
  OBVIOUS
<1>1. CASE UNCHANGED <<changelog, tx>>
  BY <1>1 DEF MessageInv, MessageOnce, PendingMessagesNew, Carries
<1>2. CASE Next
  <2>1. PICK w \in Workers : \/ \E r \in Requests : Begin(w, r)
                             \/ Statement(w) \/ Victim(w) \/ Lose(w)
                             \/ Finish(w)
    BY <1>2 DEF Next
  <2>2. CASE Statement(w)
    BY <2>2, StatementKeepsMessages
  <2>3. CASE Victim(w) \/ Lose(w)
    BY <2>3, DiscardKeepsMessages DEF Victim, Lose
  <2>4. CASE (\E r \in Requests : Begin(w, r)) \/ Finish(w)
    BY <1>1, <2>4 DEF Begin, Finish, tables
  <2> QED
    BY <2>1, <2>2, <2>3, <2>4
<1> QED
  BY <1>1, <1>2 DEF vars

LEMMA InitMessages == Init => MessageInv
BY DEF Init, MessageInv, MessageOnce, PendingMessagesNew, Carries,
       NoTransaction

(***************************************************************************)
(* However often a message is delivered and however its deliveries         *)
(* overlap, handle_email_change commits its entry, and the change that is  *)
(* in the same transaction, at most once.                                  *)
(***************************************************************************)
THEOREM MessagesAppliedOnce == Spec => []MessageOnce
<1>1. TypeInv /\ MessageInv /\ [Next]_vars => (TypeInv /\ MessageInv)'
  BY NextKeepsTypes, NextKeepsMessages
<1>2. MessageInv => MessageOnce
  BY DEF MessageInv
<1> QED
  BY <1>1, <1>2, InitTypes, InitMessages, PTL DEF Spec

-----------------------------------------------------------------------------
(***************************************************************************)
(* ContactFollowsEmail, when every PATCH sets a column of users.  Without  *)
(* that it does not hold: such a PATCH upserts the address it has read     *)
(* without a lock.                                                         *)
(***************************************************************************)
EveryPatchWrites == \A r \in Requests : r.op = "patch" => ~SetsNothing(r)

\* Contacts that are not committed carry the address of the row that is not
\* committed with them.
PendingContactsFollow ==
    \A w \in Workers :
        /\ pc[w] \in {"index", "contacts", "fk", "entry", "commit"} => Writes(w)
        /\ pc[w] = "contacts" =>
             tx[w].contacts[EmailChannel] \in {Null, tx[w].row.email}
        /\ pc[w] \in {"fk", "entry", "commit"} =>
             tx[w].contacts[EmailChannel] = tx[w].row.email
        /\ pc[w] \notin {"contacts", "fk", "entry", "commit"} =>
             tx[w].contacts[EmailChannel] = Null

ContactInv == ContactFollowsEmail /\ PendingContactsFollow

LEMMA ContinueKeepsContacts ==
    ASSUME TypeInv, ContactInv, NEW w \in Workers, NEW t, NEW at,
           Continue(w, t, at),
           at \in {"index", "contacts", "fk", "entry", "commit"}
               => t.row # Null,
           at = "contacts" => t.contacts[EmailChannel] \in {Null, t.row.email},
           at \in {"fk", "entry", "commit"} =>
               t.contacts[EmailChannel] = t.row.email,
           at \notin {"contacts", "fk", "entry", "commit"} =>
               t.contacts[EmailChannel] = Null
    PROVE  ContactInv'
<1>1. users' = users /\ contacts' = contacts /\ tx'[w] = t /\ pc'[w] = at
      /\ \A v \in Others(w) : tx'[v] = tx[v] /\ pc'[v] = pc[v]
  BY DEF Continue, Goto, tables, TypeInv, TypeOK, Others
<1> QED
  BY <1>1 DEF ContactInv, ContactFollowsEmail, PendingContactsFollow, Writes,
     Known, Others

\* A statement before the batch, with the batch ahead.
LEMMA ToContactsKeepsContacts ==
    ASSUME TypeInv, ContactInv, NEW w \in Workers, NEW t \in Transaction,
           ToContacts(w, t), t.row # Null, t.contacts = tx[w].contacts,
           pc[w] \notin {"contacts", "fk", "entry", "commit"}
    PROVE  ContactInv'
<1>1. PICK s : /\ Continue(w, s, "contacts")
               /\ s.row = t.row /\ s.contacts = t.contacts
  BY ToContactsContinues
<1> QED
  BY <1>1, ContinueKeepsContacts DEF ContactInv, PendingContactsFollow

LEMMA DiscardKeepsContacts ==
    ASSUME TypeInv, ContactInv, NEW w \in Workers, NEW outcome \in Outcomes,
           Discard(w, outcome)
    PROVE  ContactInv'
<1>1. NoTransaction.contacts[EmailChannel] = Null
  BY DEF NoTransaction, NoContacts, AllChannels
<1> QED
  BY <1>1, ContinueKeepsContacts DEF Discard, Outcomes

LEMMA ApplyKeepsContacts ==
    ASSUME TypeInv, ContactInv, NEW w \in Workers, NEW outcome \in Outcomes,
           pc[w] = "commit", Apply(w), Goto(w, outcome)
    PROVE  ContactInv'
<1> DEFINE t == tx[w]
<1>1. /\ t \in Transaction /\ t.user \in UserIds /\ t.row # Null
      /\ t.contacts[EmailChannel] = t.row.email
  BY ContactStage DEF ContactInv, PendingContactsFollow, Writes
<1>2. t.row.email # Null /\ EmailChannel \in AllChannels
  BY <1>1, NullIsNoValue DEF Transaction, User, AllChannels
<1>3. /\ users' = [users EXCEPT ![t.user] = t.row]
      /\ contacts' = [contacts EXCEPT
                        ![t.user] = Merge(contacts[t.user], t.contacts)]
  BY <1>1 DEF Apply
<1>4. Merge(contacts[t.user], t.contacts)[EmailChannel] = t.row.email
  BY <1>1, <1>2 DEF Merge, Coalesce
<1>5. ContactFollowsEmail'
  BY <1>1, <1>3, <1>4
     DEF ContactInv, ContactFollowsEmail, Known, TypeInv, TypeOK
<1>6. /\ pc'[w] = outcome /\ tx'[w].contacts[EmailChannel] = Null
      /\ \A v \in Others(w) : tx'[v] = tx[v] /\ pc'[v] = pc[v]
  BY DEF Apply, Goto, TypeInv, TypeOK, Others, NoTransaction, NoContacts,
     AllChannels
<1>7. PendingContactsFollow'
  BY <1>6 DEF ContactInv, PendingContactsFollow, Writes, Others, Outcomes
<1> QED
  BY <1>5, <1>7 DEF ContactInv

LEMMA StatementKeepsContacts ==
    ASSUME TypeInv, ContactInv, EveryPatchWrites, NEW w \in Workers,
           Statement(w)
    PROVE  ContactInv'
<1>1. tx[w] \in Transaction
  BY DEF TypeInv, TypeOK
<1>2. CASE InsertUser(w) \/ UpsertInserts(w) \/ UpsertUpdates(w)
  <2>1. /\ pc[w] \in {"insert", "upsert"}
        /\ \E u \in UserIds, row \in User :
               ToContacts(w, [tx[w] EXCEPT !.user = u, !.row = row])
    <3>1. InsertUser(w) => CreatedUser(req[w]) \in User
      BY CreatedUserType DEF InsertUser, Runs, TypeInv, Stages, StageOf
    <3>2. UpsertInserts(w) => ImportedUser(req[w]) \in User
      BY UpsertStage, ImportedUserType DEF UpsertInserts, Runs
    <3>3. UpsertUpdates(w) =>
            \A u \in UserIds :
                Known(u) => RefreshedUser(users[u], req[w]) \in User
      BY UpsertStage, RefreshedUserType
         DEF UpsertUpdates, Runs, Known, TypeInv, TypeOK
    <3> QED
      BY <1>2, <3>1, <3>2, <3>3
         DEF InsertUser, UpsertInserts, UpsertUpdates, Runs, FreshIds
  <2>2. \E t \in Transaction : /\ ToContacts(w, t) /\ t.row # Null
                               /\ t.contacts = tx[w].contacts
    <3>1. PICK u \in UserIds, row \in User :
            ToContacts(w, [tx[w] EXCEPT !.user = u, !.row = row])
      BY <2>1
    <3> DEFINE t == [tx[w] EXCEPT !.user = u, !.row = row]
    <3>2. /\ t \in Transaction /\ t.row # Null
          /\ t.contacts = tx[w].contacts
      BY <1>1, NullIsNoValue DEF Transaction
    <3>3. ToContacts(w, t)
      BY <3>1
    <3> HIDE DEF t
    <3> QED
      BY <3>2, <3>3
  <2> QED
    BY <2>1, <2>2, ToContactsKeepsContacts
<1>3. CASE UpdateUser(w) \/ ChangeEmail(w)
  <2> DEFINE t == [tx[w] EXCEPT !.user = req[w].user, !.row = UpdatedRow(w)]
  <2>1. /\ pc[w] \in {"update", "change"} /\ req[w].user \in UserIds
        /\ UpdatedRow(w) \in User /\ UpdatedRow(w) # Null /\ WriteRow(w)
    BY <1>3, PatchStage, UpdatedRowType, ChangeStage, NullIsNoValue
       DEF UpdateUser, ChangeEmail, Runs
  <2>2. /\ t \in Transaction /\ t.row # Null /\ t.contacts = tx[w].contacts
    BY <1>1, <2>1 DEF Transaction
  <2>3. Continue(w, t, "index") \/ ToContacts(w, t)
    BY <2>1 DEF WriteRow
  <2> HIDE DEF t
  <2>4. tx[w].contacts[EmailChannel] = Null
    BY <2>1 DEF ContactInv, PendingContactsFollow
  <2> QED
    BY <2>1, <2>2, <2>3, <2>4, ToContactsKeepsContacts, ContinueKeepsContacts
<1>4. CASE SelectUser(w)
  <2>1. req[w] \in Requests /\ req[w].op = "patch"
    BY <1>4, PatchStage DEF SelectUser, Runs, PatchRequest
  <2> QED
    BY <1>4, <2>1 DEF EveryPatchWrites, SelectUser
<1>5. CASE UpsertContact(w) \/ UpsertContacts(w)
  <2>1. /\ pc[w] = "contacts" /\ Writes(w)
        /\ UserBatch(w)[EmailChannel] = BatchEmail(w)
        /\ tx[w].wants \in AllChannels
        /\ tx[w].contacts \in [AllChannels -> ContactIds \cup Emails \cup {Null}]
    BY <1>1, <1>5, ContactStage DEF UpsertContact, UpsertContacts, Runs,
       ContactInv, PendingContactsFollow, Transaction, Contacts
  <2>2. BatchEmail(w) = tx[w].row.email
    BY <2>1 DEF BatchEmail, Writes
  <2>3. Extended(w)[EmailChannel] \in {Null, tx[w].row.email}
    BY <2>1, <2>2 DEF Extended, AllChannels, ContactInv, PendingContactsFollow
  <2>4. CASE UpsertContact(w)
    <3>1. PICK c : Continue(w, [tx[w] EXCEPT !.contacts = Extended(w),
                                             !.wants = c], "contacts")
      BY <2>4 DEF UpsertContact
    <3> DEFINE t == [tx[w] EXCEPT !.contacts = Extended(w), !.wants = c]
    <3>2. t.row = tx[w].row /\ t.contacts = Extended(w)
      BY <1>1 DEF Transaction
    <3>3. Continue(w, t, "contacts")
      BY <3>1
    <3> HIDE DEF t
    <3> QED
      BY <2>1, <2>3, <3>2, <3>3, ContinueKeepsContacts DEF Writes
  <2>5. CASE UpsertContacts(w)
    <3> DEFINE t == [tx[w] EXCEPT !.contacts = Extended(w), !.wants = Null]
               at == IF ChecksUser(w) THEN "fk"
                     ELSE IF AddsEntry(w) THEN "entry" ELSE "commit"
    <3>1. t.row = tx[w].row /\ t.contacts = Extended(w)
      BY <1>1 DEF Transaction
    <3>2. Left(w) = {} /\ Continue(w, t, at)
      BY <2>5 DEF UpsertContacts
    <3>3. Extended(w)[EmailChannel] # Null
      BY <3>2 DEF Left, NextChannels, Listed, AllChannels
    <3>4. at \in {"fk", "entry", "commit"}
      OBVIOUS
    <3> HIDE DEF t, at
    <3> QED
      BY <2>1, <2>3, <3>1, <3>2, <3>3, <3>4, ContinueKeepsContacts DEF Writes
  <2> QED
    BY <1>5, <2>4, <2>5
<1>6. CASE CheckUser(w) \/ AddEntry(w)
  <2>1. Writes(w) /\ tx[w].contacts[EmailChannel] = tx[w].row.email
    BY <1>6 DEF CheckUser, AddEntry, Runs, ContactInv, PendingContactsFollow
  <2>2. \E t : /\ t.row = tx[w].row /\ t.contacts = tx[w].contacts
               /\ Continue(w, t, "commit")
    BY <1>1, <1>6 DEF CheckUser, AddEntry, Transaction
  <2> QED
    BY <2>1, <2>2, ContinueKeepsContacts DEF Writes
<1>7. CASE GetUser(w) \/ GateOpen(w)
  <2>1. /\ pc[w] \in {"get", "gate"}
        /\ tx[w].contacts[EmailChannel] = Null
        /\ NoTransaction.contacts = NoContacts /\ NoContacts[EmailChannel] = Null
    BY <1>7 DEF GetUser, GateOpen, Runs, ContactInv, PendingContactsFollow,
       NoTransaction, NoContacts, AllChannels
  <2>2. \E t, at : /\ at \in {"update", "change", "not_found"}
                   /\ t.contacts \in {tx[w].contacts, NoContacts}
                   /\ Continue(w, t, at)
    BY <1>1, <1>7, <2>1 DEF GetUser, GateOpen, Discard, Transaction
  <2> QED
    BY <2>1, <2>2, ContinueKeepsContacts
<1>8. CASE Commit(w) \/ CommitUnanswered(w)
  BY <1>8, ApplyKeepsContacts DEF Commit, CommitUnanswered, Runs, Outcomes
<1>9. CASE \/ InsertConflict(w) \/ UpdateNoUser(w) \/ IndexConflict(w)
           \/ GateDuplicate(w) \/ GateNoUser(w)
  BY <1>9, DiscardKeepsContacts DEF InsertConflict, UpdateNoUser,
     IndexConflict, GateDuplicate, GateNoUser, Outcomes
<1>10. CASE IndexRow(w)
  <2>1. pc[w] = "index" /\ tx[w].row # Null
    BY <1>10 DEF IndexRow, Runs, ContactInv, PendingContactsFollow, Writes
  <2> QED
    BY <1>1, <1>10, <2>1, ToContactsKeepsContacts DEF IndexRow
<1> QED
  BY <1>2, <1>3, <1>4, <1>5, <1>6, <1>7, <1>8, <1>9, <1>10 DEF Statement

LEMMA NextKeepsContacts ==
    EveryPatchWrites => (TypeInv /\ ContactInv /\ [Next]_vars => ContactInv')
<1> SUFFICES ASSUME EveryPatchWrites, TypeInv, ContactInv, [Next]_vars
             PROVE  ContactInv'
  OBVIOUS
<1>1. CASE UNCHANGED vars
  BY <1>1 DEF vars, ContactInv, ContactFollowsEmail, PendingContactsFollow,
     Writes, Known
<1>2. CASE Next
  <2>1. PICK w \in Workers : \/ \E r \in Requests : Begin(w, r)
                             \/ Statement(w) \/ Victim(w) \/ Lose(w)
                             \/ Finish(w)
    BY <1>2 DEF Next
  <2>2. CASE Statement(w)
    BY <2>2, StatementKeepsContacts
  <2>3. CASE Victim(w) \/ Lose(w)
    BY <2>3, DiscardKeepsContacts DEF Victim, Lose, Outcomes
  <2>4. CASE (\E r \in Requests : Begin(w, r)) \/ Finish(w)
    <3>1. /\ UNCHANGED <<users, contacts, tx>>
          /\ {pc[w], pc'[w]} \cap
               {"index", "contacts", "fk", "entry", "commit"} = {}
          /\ \A v \in Others(w) : pc'[v] = pc[v]
      BY <2>4, RequestKinds
         DEF Begin, Finish, tables, Goto, FirstStatement, TypeInv, TypeOK,
             Others, Outcomes
    <3> QED
      BY <3>1 DEF ContactInv, ContactFollowsEmail, PendingContactsFollow,
         Writes, Known, Others
  <2> QED
    BY <2>1, <2>2, <2>3, <2>4
<1> QED
  BY <1>1, <1>2

LEMMA InitContacts == Init => ContactInv
BY DEF Init, ContactInv, ContactFollowsEmail, PendingContactsFollow, Known,
       NoTransaction, NoContacts, AllChannels

(***************************************************************************)
(* Where every PATCH names a column of users, the email contact that       *)
(* _upsert_contacts and the consumer maintain is always the address of its *)
(* user.                                                                   *)
(***************************************************************************)
THEOREM ContactsFollow ==
    ASSUME EveryPatchWrites
    PROVE  Spec => []ContactFollowsEmail
<1>1. TypeInv /\ ContactInv /\ [Next]_vars => (TypeInv /\ ContactInv)'
  BY NextKeepsTypes, NextKeepsContacts, EveryPatchWrites
<1>2. ContactInv => ContactFollowsEmail
  BY DEF ContactInv
<1> QED
  BY <1>1, <1>2, InitTypes, InitContacts, PTL DEF Spec
=============================================================================
