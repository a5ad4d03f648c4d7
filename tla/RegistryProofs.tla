--------------------------- MODULE RegistryProofs ---------------------------
(***************************************************************************)
(* Proofs about what a commit of UserTransactions does to the tables: that *)
(* it serves its request as UserRegistry says, which changes of address it *)
(* records, and who waits for whom; for every set of users, requests and   *)
(* workers.                                                                *)
(***************************************************************************)
EXTENDS UserTransactionsProofs

PastContacts == {"fk", "entry", "commit"}
PastRow      == {"index", "contacts"} \cup PastContacts

(***************************************************************************)
(* The effect that a transaction t has prepared for its request r.         *)
(***************************************************************************)
\* MarksAdmin, of a transaction that is not the one of any worker yet.
Marks(r, t) == r.email # Null /\ t.seen # r.email

PatchEntry(r, t) ==
    [user |-> r.user, old |-> t.seen, new |-> r.email, id |-> Null]
ChangeEntry(r) ==
    [user |-> r.user, old |-> r.old, new |-> r.new, id |-> r.id]

\* The row of t is what r makes of the row that is committed now: the lock on
\* the row keeps that one so until the commit.
RowFollows(r, t, row) ==
    /\ t.row # Null
    /\ \/ r.op = "create" /\ row = Null /\ t.row = CreatedUser(r)
       \/ /\ r.op = "patch" /\ row # Null /\ t.user = r.user
          /\ t.row = PatchedUser(row, r, Marks(r, t))
       \/ /\ r.op = "email_change" /\ row # Null /\ t.user = r.user
          /\ t.row = ReaddressedUser(row, r)
       \/ r.op = "upserted" /\ row = Null /\ t.row = ImportedUser(r)
       \/ /\ r.op = "upserted" /\ row # Null
          /\ Key(row) = <<r.email, r.role>>
          /\ t.row = RefreshedUser(row, r)

\* A PATCH without a column of users.
OnlyReads(r, t, row) ==
    /\ r.op = "patch" /\ SetsNothing(r)
    /\ t.row = Null /\ t.seen # Null /\ t.user = r.user /\ row # Null

\* The entry of t, at the statement at and later ones.
EntryFollows(at, r, t) ==
    /\ at \in PastRow \cup {"change"} /\ r.op = "email_change"
         => t.entry = ChangeEntry(r)
    /\ at \in PastRow /\ r.op \in {"create", "upserted"} => t.entry = Null
    /\ at \in PastRow \ {"commit"} /\ r.op = "patch" => t.entry = Null
    /\ at = "commit" /\ r.op = "patch"
         => t.entry = IF Marks(r, t) THEN PatchEntry(r, t) ELSE Null
    /\ at = "entry" => Marks(r, t)

BatchOf(r, t) ==
    Batch(GivenContacts(r), IF t.row # Null THEN t.row.email ELSE t.seen)

EffectOf(at, r, t, row) ==
    /\ at \in Statements /\ r.op \in {"create", "patch"}
         => ZoneAccepted(r.time_zone)
    /\ at = "update" => ~t.shared
    /\ at \in PastRow => RowFollows(r, t, row) \/ OnlyReads(r, t, row)
    /\ at \in PastRow /\ r.op = "patch" /\ r.email # Null => t.seen # Null
    /\ at \notin {"contacts"} \cup PastContacts => t.contacts = NoContacts
    /\ at = "contacts" =>
         \A c \in AllChannels : t.contacts[c] \in {Null, BatchOf(r, t)[c]}
    /\ at \in PastContacts => t.contacts = BatchOf(r, t)
    /\ at = "fk" => t.row = Null
    /\ EntryFollows(at, r, t)

\* The effects of all workers, on the rows that are committed.
EffectInv ==
    \A w \in Workers : EffectOf(pc[w], req[w], tx[w], users[tx[w].user])

\* The inductive invariant.
IInv == TypeInv /\ KeyInv /\ MessageInv /\ EffectInv

-----------------------------------------------------------------------------
\* Before the row is written or read, the committed row does not matter.
LEMMA EffectBeforeRow ==
    ASSUME NEW at, NEW r, NEW t, NEW row, NEW other,
           at \notin PastRow, EffectOf(at, r, t, row)
    PROVE  EffectOf(at, r, t, other)
BY DEF EffectOf, PastRow, PastContacts

\* A transaction that has done nothing fits every place where it may be.
LEMMA NoEffect ==
    ASSUME NEW at, NEW r, NEW row,
           at \notin PastRow \cup {"change", "update"},
           at \in Statements /\ r.op \in {"create", "patch"}
             => ZoneAccepted(r.time_zone)
    PROVE  EffectOf(at, r, NoTransaction, row)
BY DEF EffectOf, EntryFollows, PastRow, PastContacts, NoTransaction

\* A statement that leaves the tables alone.
LEMMA ContinueKeepsEffects ==
    ASSUME TypeInv, EffectInv, NEW w \in Workers, NEW t, NEW at,
           Continue(w, t, at), EffectOf(at, req[w], t, users[t.user])
    PROVE  EffectInv'
<1>1. /\ users' = users /\ req' = req /\ tx'[w] = t /\ pc'[w] = at
      /\ \A v \in Others(w) : tx'[v] = tx[v] /\ pc'[v] = pc[v]
  BY DEF Continue, Goto, tables, TypeInv, TypeOK, Others
<1> QED
  BY <1>1 DEF EffectInv, Others

LEMMA DiscardKeepsEffects ==
    ASSUME TypeInv, EffectInv, NEW w \in Workers, NEW outcome \in Outcomes,
           Discard(w, outcome)
    PROVE  EffectInv'
<1>1. outcome \notin PastRow \cup {"change", "update"} \cup Statements
  BY DEF Outcomes, PastRow, PastContacts, Statements
<1> QED
  BY <1>1, NoEffect, ContinueKeepsEffects DEF Discard

LEMMA BeginKeepsEffects ==
    ASSUME TypeInv, EffectInv, NEW w \in Workers,
           (\E r \in Requests : Begin(w, r)) \/ Finish(w)
    PROVE  EffectInv'
<1>1. /\ users' = users /\ tx' = tx
      /\ \A v \in Others(w) : req'[v] = req[v] /\ pc'[v] = pc[v]
  BY DEF Begin, Finish, Goto, tables, TypeInv, TypeOK, Others
<1>2. tx[w] = NoTransaction
  BY DEF Begin, Finish, TypeInv, Stages, StageOf
<1>3. EffectOf(pc'[w], req'[w], NoTransaction, users[tx[w].user])
  <2>1. ASSUME NEW r \in Requests, Begin(w, r)
        PROVE  EffectOf(pc'[w], req'[w], NoTransaction, users[tx[w].user])
    <3>1. pc'[w] = FirstStatement(r) /\ req'[w] = r
      BY <2>1 DEF Begin, Goto, TypeInv, TypeOK
    <3>2. CASE FirstStatement(r) # "update"
      <4>1. FirstStatement(r) \notin PastRow \cup {"change", "update"}
        BY <3>2, RequestKinds DEF FirstStatement, PastRow, PastContacts
      <4>2. FirstStatement(r) \in Statements /\ r.op \in {"create", "patch"}
              => ZoneAccepted(r.time_zone)
        BY DEF FirstStatement, Statements
      <4> QED
        BY <3>1, <4>1, <4>2, NoEffect
    <3>3. CASE FirstStatement(r) = "update"
      <4>1. r.op = "patch" /\ ZoneAccepted(r.time_zone)
        BY <3>3, RequestKinds DEF FirstStatement
      <4> QED
        BY <3>1, <3>3, <4>1
           DEF EffectOf, EntryFollows, PastRow, PastContacts, NoTransaction
    <3> QED
      BY <3>2, <3>3
  <2>2. CASE Finish(w)
    <3>1. pc'[w] = "idle"
      BY <2>2 DEF Finish, Goto, TypeInv, TypeOK
    <3> QED
      BY <3>1, NoEffect DEF PastRow, PastContacts, Statements
  <2> QED
    BY <2>1, <2>2
<1> QED
  BY <1>1, <1>2, <1>3 DEF EffectInv, Others

-----------------------------------------------------------------------------
(***************************************************************************)
(* The statements that write or read the row.                              *)
(***************************************************************************)
\* What depends on the user, the row and the address of a transaction alone.
LEMMA SameRow ==
    ASSUME NEW r, NEW s, NEW t, NEW row,
           s.user = t.user, s.row = t.row, s.seen = t.seen
    PROVE  /\ RowFollows(r, s, row) = RowFollows(r, t, row)
           /\ OnlyReads(r, s, row) = OnlyReads(r, t, row)
           /\ Marks(r, s) = Marks(r, t)
           /\ BatchOf(r, s) = BatchOf(r, t)
           /\ PatchEntry(r, s) = PatchEntry(r, t)
BY DEF RowFollows, OnlyReads, Marks, BatchOf, PatchEntry

\* The row is as the request wants it, and the batch of contacts is next.
LEMMA RowWritten ==
    ASSUME TypeInv, EffectInv, NEW w \in Workers, NEW t \in Transaction,
           ToContacts(w, t), t.contacts = NoContacts,
           \/ RowFollows(req[w], t, users[t.user])
           \/ OnlyReads(req[w], t, users[t.user]),
           req[w].op \in {"create", "patch"} => ZoneAccepted(req[w].time_zone),
           req[w].op = "patch" /\ req[w].email # Null => t.seen # Null,
           t.entry = IF req[w].op = "email_change" THEN ChangeEntry(req[w])
                     ELSE Null
    PROVE  EffectInv'
<1> DEFINE r == req[w]
<1>1. PICK s \in Transaction :
        /\ Continue(w, s, "contacts")
        /\ s.user = t.user /\ s.row = t.row /\ s.contacts = NoContacts
        /\ s.entry = t.entry /\ s.seen = t.seen
  BY ToContactsContinues
<1>2. RowFollows(r, s, users[s.user]) \/ OnlyReads(r, s, users[s.user])
  BY <1>1, SameRow
<1>3. \A c \in AllChannels : s.contacts[c] = Null
  BY <1>1 DEF NoContacts
<1>4. EntryFollows("contacts", r, s)
  BY <1>1 DEF EntryFollows, PastRow, PastContacts
<1>5. EffectOf("contacts", r, s, users[s.user])
  BY <1>1, <1>2, <1>3, <1>4 DEF EffectOf, PastRow, PastContacts
<1> QED
  BY <1>1, <1>5, ContinueKeepsEffects

LEMMA InsertKeepsEffects ==
    ASSUME TypeInv, EffectInv, NEW w \in Workers,
           InsertUser(w) \/ UpsertInserts(w)
    PROVE  EffectInv'
<1> DEFINE row == IF InsertUser(w) THEN CreatedUser(req[w])
                                   ELSE ImportedUser(req[w])
<1>1. /\ tx[w] = NoTransaction /\ NoTransaction \in Transaction
      /\ row # Null /\ row \in User
      /\ InsertUser(w) => req[w].op = "create" /\ ZoneAccepted(req[w].time_zone)
      /\ ~InsertUser(w) => req[w].op = "upserted"
  <2>1. CASE InsertUser(w)
    <3>1. pc[w] = "insert" /\ req[w] \in CreateRequest /\ tx[w] = NoTransaction
      BY <2>1 DEF InsertUser, Runs, TypeInv, Stages, StageOf
    <3>2. req[w].op = "create"
      BY <3>1 DEF CreateRequest
    <3>3. ZoneAccepted(req[w].time_zone)
      BY <3>1, <3>2 DEF EffectInv, EffectOf, Statements
    <3> QED
      BY <2>1, <3>1, <3>2, <3>3, CreatedUserType, NullIsNoValue,
         NoTransactionType
  <2>2. CASE ~InsertUser(w)
    BY <2>2, UpsertStage, ImportedUserType, NullIsNoValue, NoTransactionType
       DEF UpsertInserts, Runs
  <2> QED
    BY <2>1, <2>2
<1>2. PICK u \in FreshIds :
          ToContacts(w, [tx[w] EXCEPT !.user = u, !.row = row])
  BY DEF InsertUser, UpsertInserts
<1> DEFINE t == [tx[w] EXCEPT !.user = u, !.row = row]
<1>3. /\ t.user = u /\ t.row = row /\ t.contacts = NoContacts
      /\ t.entry = Null
  BY <1>1 DEF NoTransaction
<1>4. users[u] = Null /\ u \in UserIds
  BY DEF FreshIds, Known
<1>5. RowFollows(req[w], t, users[u])
  BY <1>1, <1>3, <1>4 DEF RowFollows
<1>6. t \in Transaction
  BY <1>1, <1>4 DEF Transaction
<1>7. ToContacts(w, t)
  BY <1>2
<1> HIDE DEF t, row
<1> QED
  BY <1>1, <1>3, <1>5, <1>6, <1>7, RowWritten

LEMMA UpsertUpdatesKeepsEffects ==
    ASSUME TypeInv, EffectInv, NEW w \in Workers, UpsertUpdates(w)
    PROVE  EffectInv'
<1>1. /\ tx[w] = NoTransaction /\ tx[w] \in Transaction
      /\ req[w] \in Upserted /\ req[w].op = "upserted"
  BY UpsertStage DEF UpsertUpdates, Runs
<1>2. PICK u \in UserIds :
        /\ Known(u)
        /\ Key(users[u]) = <<req[w].email, req[w].role>>
        /\ ToContacts(w, [tx[w] EXCEPT !.user = u,
                             !.row = RefreshedUser(users[u], req[w])])
  BY DEF UpsertUpdates
<1> DEFINE row == RefreshedUser(users[u], req[w])
           t == [tx[w] EXCEPT !.user = u, !.row = row]
<1>3. row # Null /\ row \in User
  BY <1>1, <1>2, RefreshedUserType, NullIsNoValue
     DEF Known, TypeInv, TypeOK
<1>4. /\ t.user = u /\ t.row = row /\ t.contacts = NoContacts
      /\ t.entry = Null
  BY <1>1 DEF NoTransaction
<1>5. RowFollows(req[w], t, users[u])
  BY <1>1, <1>2, <1>3, <1>4 DEF RowFollows, Known
<1>6. t \in Transaction
  BY <1>1, <1>3 DEF Transaction
<1>7. ToContacts(w, t)
  BY <1>2
<1> HIDE DEF t, row
<1> QED
  BY <1>1, <1>4, <1>5, <1>6, <1>7, RowWritten

\* A PATCH at its first two statements.
LEMMA PatchEffect ==
    ASSUME TypeInv, EffectInv, NEW w \in Workers, pc[w] \in {"get", "update"}
    PROVE  /\ req[w].op = "patch" /\ ZoneAccepted(req[w].time_zone)
           /\ ~tx[w].shared /\ tx[w].contacts = NoContacts
<1>1. /\ req[w].op = "patch"
      /\ pc[w] = "get" => tx[w] = NoTransaction
  BY PatchStage DEF PatchRequest
<1>2. EffectOf(pc[w], req[w], tx[w], users[tx[w].user])
  BY DEF EffectInv
<1>3. ZoneAccepted(req[w].time_zone)
  BY <1>1, <1>2 DEF EffectOf, Statements
<1>4. ~tx[w].shared /\ tx[w].contacts = NoContacts
  BY <1>1, <1>2 DEF EffectOf, NoTransaction, PastContacts
<1> QED
  BY <1>1, <1>3, <1>4

LEMMA GetUserKeepsEffects ==
    ASSUME TypeInv, EffectInv, NEW w \in Workers, GetUser(w)
    PROVE  EffectInv'
<1>1. CASE Known(req[w].user)
  <2> DEFINE t == [tx[w] EXCEPT !.seen = users[req[w].user].email]
  <2>1. pc[w] = "get"
    BY DEF GetUser, Runs
  <2>2. t.shared = FALSE /\ t.contacts = NoContacts
    BY <2>1, PatchStage DEF NoTransaction
  <2>3. EffectOf("update", req[w], t, users[t.user])
    BY <2>1, <2>2, PatchEffect
       DEF EffectOf, EntryFollows, PastRow, PastContacts
  <2>4. Continue(w, t, "update")
    BY <1>1 DEF GetUser
  <2> HIDE DEF t
  <2> QED
    BY <2>3, <2>4, ContinueKeepsEffects
<1>2. CASE ~Known(req[w].user)
  BY <1>2, DiscardKeepsEffects DEF GetUser, Outcomes
<1> QED
  BY <1>1, <1>2

LEMMA SelectUserKeepsEffects ==
    ASSUME TypeInv, EffectInv, NEW w \in Workers, SelectUser(w)
    PROVE  EffectInv'
<1> DEFINE u == req[w].user
           t == [tx[w] EXCEPT !.user = u, !.seen = users[u].email]
<1>1. /\ pc[w] = "update" /\ tx[w] \in Transaction /\ u \in UserIds
      /\ tx[w].row = Null /\ tx[w].contacts = NoContacts
      /\ tx[w].entry = Null
  BY PatchStage, PatchEffect DEF SelectUser, Runs
<1>2. users[u] \in User /\ users[u] # Null
  BY <1>1 DEF SelectUser, Known, TypeInv, TypeOK
<1>3. users[u].email # Null /\ users[u].email \in Emails
  BY <1>2, NullIsNoValue DEF User
<1>4. /\ t \in Transaction /\ t.user = u /\ t.seen # Null
      /\ t.row = Null /\ t.contacts = NoContacts /\ t.entry = Null
  BY <1>1, <1>3 DEF Transaction
<1>5. OnlyReads(req[w], t, users[u])
  BY <1>1, <1>2, <1>4, PatchEffect DEF OnlyReads, SelectUser
<1>6. ToContacts(w, t)
  BY DEF SelectUser
<1> HIDE DEF t
<1> QED
  BY <1>1, <1>4, <1>5, <1>6, PatchEffect, RowWritten

\* The UPDATE of either path, whatever its key.
LEMMA WriteRowKeepsEffects ==
    ASSUME TypeInv, EffectInv, NEW w \in Workers, WriteRow(w),
           pc[w] \in {"update", "change"}, Known(req[w].user),
           req[w].user \in UserIds
    PROVE  EffectInv'
<1> DEFINE r == req[w]
           u == r.user
           t == [tx[w] EXCEPT !.user = u, !.row = UpdatedRow(w)]
<1>1. /\ tx[w] \in Transaction /\ tx[w].contacts = NoContacts
      /\ r.op = IF pc[w] = "update" THEN "patch" ELSE "email_change"
      /\ r.op = "patch" =>
           /\ ZoneAccepted(r.time_zone) /\ tx[w].entry = Null
           /\ r.email # Null => tx[w].seen # Null
      /\ r.op = "email_change" => tx[w].entry = ChangeEntry(r)
  <2>1. CASE pc[w] = "update"
    BY <2>1, PatchStage, PatchEffect
  <2>2. CASE pc[w] = "change"
    BY <2>2, ChangeStage
       DEF EffectInv, EffectOf, EntryFollows, PastContacts
  <2> QED
    BY <2>1, <2>2
<1>2. UpdatedRow(w) \in User /\ UpdatedRow(w) # Null
  BY UpdatedRowType, NullIsNoValue
<1>3. /\ t \in Transaction /\ t.user = u /\ t.row = UpdatedRow(w)
      /\ t.seen = tx[w].seen /\ t.contacts = NoContacts
      /\ t.entry = tx[w].entry
  BY <1>1, <1>2 DEF Transaction
<1>4. Continue(w, t, "index") \/ ToContacts(w, t)
  BY DEF WriteRow
<1> HIDE DEF t
<1>5. RowFollows(r, t, users[t.user])
  BY <1>1, <1>2, <1>3
     DEF RowFollows, Known, UpdatedRow, MarksAdmin, Marks
<1>6. CASE ToContacts(w, t)
  BY <1>1, <1>3, <1>5, <1>6, RowWritten
<1>7. CASE Continue(w, t, "index")
  <2>1. EntryFollows("index", r, t)
    BY <1>1, <1>3 DEF EntryFollows, PastRow, PastContacts
  <2>2. EffectOf("index", r, t, users[t.user])
    BY <1>1, <1>3, <1>5, <2>1 DEF EffectOf, PastRow, PastContacts
  <2> QED
    BY <1>7, <2>2, ContinueKeepsEffects
<1> QED
  BY <1>4, <1>6, <1>7

LEMMA UpdateKeepsEffects ==
    ASSUME TypeInv, EffectInv, NEW w \in Workers,
           UpdateUser(w) \/ ChangeEmail(w)
    PROVE  EffectInv'
BY PatchStage, ChangeStage, WriteRowKeepsEffects
   DEF UpdateUser, ChangeEmail, Runs

LEMMA IndexRowKeepsEffects ==
    ASSUME TypeInv, EffectInv, NEW w \in Workers, IndexRow(w)
    PROVE  EffectInv'
<1> DEFINE r == req[w]
           t == tx[w]
<1>1. /\ t \in Transaction /\ ToContacts(w, t)
      /\ StageOf("index", r, t) /\ EffectOf("index", r, t, users[t.user])
  BY DEF IndexRow, Runs, TypeInv, TypeOK, Stages, EffectInv
<1>2. r.op \in {"patch", "email_change"}
  BY <1>1 DEF StageOf, PatchRequest, EmailChange
<1>3. /\ t.contacts = NoContacts
      /\ RowFollows(r, t, users[t.user]) \/ OnlyReads(r, t, users[t.user])
      /\ r.op = "patch" => ZoneAccepted(r.time_zone)
      /\ r.op = "patch" /\ r.email # Null => t.seen # Null
      /\ t.entry = IF r.op = "email_change" THEN ChangeEntry(r) ELSE Null
  BY <1>1, <1>2
     DEF EffectOf, EntryFollows, PastRow, PastContacts, Statements
<1> QED
  BY <1>1, <1>2, <1>3, RowWritten

LEMMA GateOpenKeepsEffects ==
    ASSUME TypeInv, EffectInv, NEW w \in Workers, GateOpen(w)
    PROVE  EffectInv'
<1> DEFINE t == [tx[w] EXCEPT !.user = req[w].user,
                              !.entry = ChangeEntry(req[w]), !.shared = TRUE]
<1>1. pc[w] = "gate" /\ tx[w] \in Transaction /\ req[w].op = "email_change"
  BY ChangeStage DEF GateOpen, Runs
<1>2. t.entry = ChangeEntry(req[w]) /\ t.contacts = NoContacts
  BY <1>1, ChangeStage DEF Transaction, GateOpen, Runs, NoTransaction
<1>3. EffectOf("change", req[w], t, users[t.user])
  BY <1>1, <1>2 DEF EffectOf, EntryFollows, PastRow, PastContacts
<1>4. Continue(w, t, "change")
  BY DEF GateOpen, ChangeEntry
<1> HIDE DEF t
<1> QED
  BY <1>3, <1>4, ContinueKeepsEffects

-----------------------------------------------------------------------------
(***************************************************************************)
(* The statements after the row.                                           *)
(***************************************************************************)
\* What a batch has written so far agrees with the whole of it; when no
\* channel is left it is the whole.
LEMMA ExtendedFollows ==
    ASSUME TypeInv, EffectInv, NEW w \in Workers, pc[w] = "contacts"
    PROVE  /\ \A c \in AllChannels :
                Extended(w)[c] \in {Null, BatchOf(req[w], tx[w])[c]}
           /\ Left(w) = {} => Extended(w) = BatchOf(req[w], tx[w])
<1> DEFINE r == req[w]
           b == BatchOf(r, tx[w])
<1>1. b = UserBatch(w)
  BY DEF BatchOf, UserBatch, BatchEmail
<1>2. /\ tx[w] \in Transaction /\ tx[w].wants \in AllChannels
      /\ b \in Contacts /\ b[EmailChannel] \in Emails
  BY <1>1, ContactStage
<1>3. \A c \in AllChannels : tx[w].contacts[c] \in {Null, b[c]}
  BY DEF EffectInv, EffectOf
<1>4. \A c \in AllChannels : Extended(w)[c] \in {Null, b[c]}
  BY <1>1, <1>2, <1>3 DEF Extended, Transaction, Contacts
<1>5. ASSUME Left(w) = {}
      PROVE  Extended(w) = b
  <2>1. \A c \in Listed(r) : c \in AllChannels /\ Extended(w)[c] # Null
    BY <1>5 DEF Left, NextChannels, Listed, AllChannels
  <2>2. ASSUME NEW c \in AllChannels \ Listed(r)
        PROVE  b[c] = Null
    <3>1. /\ c # EmailChannel /\ GivenContacts(r)[c] = Null
          /\ GivenContacts(r) \in Contacts
      <4>1. GivenContacts(r) \in Contacts
        BY ContactStage, RequestKinds DEF GivenContacts, NoContacts, Contacts,
           CreateRequest, PatchRequest, EmailChange, Upserted
      <4> QED
        BY <4>1 DEF Listed
    <3> QED
      BY <3>1 DEF BatchOf, Batch, Contacts
  <2>3. \A c \in AllChannels : Extended(w)[c] = b[c]
    BY <1>4, <2>1, <2>2
  <2>4. Extended(w) \in Contacts
    BY ExtendedType
  <2> HIDE DEF b
  <2> QED
    BY <1>2, <2>3, <2>4 DEF Contacts
<1> QED
  BY <1>4, <1>5

LEMMA UpsertContactKeepsEffects ==
    ASSUME TypeInv, EffectInv, NEW w \in Workers, UpsertContact(w)
    PROVE  EffectInv'
<1> DEFINE r == req[w]
           row == users[tx[w].user]
<1>1. pc[w] = "contacts" /\ tx[w] \in Transaction
  BY ContactStage DEF UpsertContact, Runs
<1>2. EffectOf("contacts", r, tx[w], row)
  BY <1>1 DEF EffectInv
<1>3. PICK c : Continue(w, [tx[w] EXCEPT !.contacts = Extended(w),
                                         !.wants = c], "contacts")
  BY DEF UpsertContact
<1> DEFINE t == [tx[w] EXCEPT !.contacts = Extended(w), !.wants = c]
<1>4. /\ t.user = tx[w].user /\ t.row = tx[w].row /\ t.seen = tx[w].seen
      /\ t.entry = tx[w].entry /\ t.contacts = Extended(w)
  BY <1>1 DEF Transaction
<1>5. Continue(w, t, "contacts")
  BY <1>3
<1> HIDE DEF t
<1>6. /\ RowFollows(r, t, row) = RowFollows(r, tx[w], row)
      /\ OnlyReads(r, t, row) = OnlyReads(r, tx[w], row)
      /\ BatchOf(r, t) = BatchOf(r, tx[w])
  BY <1>4, SameRow
<1>7. \A d \in AllChannels : t.contacts[d] \in {Null, BatchOf(r, t)[d]}
  BY <1>1, <1>4, <1>6, ExtendedFollows
<1>8. EffectOf("contacts", r, t, row)
  BY <1>2, <1>4, <1>6, <1>7
     DEF EffectOf, EntryFollows, PastRow, PastContacts
<1> QED
  BY <1>4, <1>5, <1>8, ContinueKeepsEffects

LEMMA UpsertContactsKeepsEffects ==
    ASSUME TypeInv, EffectInv, NEW w \in Workers, UpsertContacts(w)
    PROVE  EffectInv'
<1> DEFINE r == req[w]
           t == [tx[w] EXCEPT !.contacts = Extended(w), !.wants = Null]
           at == IF ChecksUser(w) THEN "fk"
                 ELSE IF AddsEntry(w) THEN "entry" ELSE "commit"
           row == users[tx[w].user]
<1>1. pc[w] = "contacts" /\ tx[w] \in Transaction /\ r \in Requests
  BY ContactStage DEF UpsertContacts, Runs
<1>2. EffectOf("contacts", r, tx[w], row)
  BY <1>1 DEF EffectInv
<1>3. /\ t.user = tx[w].user /\ t.row = tx[w].row /\ t.seen = tx[w].seen
      /\ t.entry = tx[w].entry /\ t.contacts = Extended(w)
  BY <1>1 DEF Transaction
<1>4. Left(w) = {} /\ Continue(w, t, at)
  BY DEF UpsertContacts
<1> HIDE DEF t
<1>5. /\ RowFollows(r, t, row) = RowFollows(r, tx[w], row)
      /\ OnlyReads(r, t, row) = OnlyReads(r, tx[w], row)
      /\ Marks(r, t) = Marks(r, tx[w]) /\ BatchOf(r, t) = BatchOf(r, tx[w])
  BY <1>3, SameRow
<1>6. t.contacts = BatchOf(r, t)
  BY <1>1, <1>3, <1>4, <1>5, ExtendedFollows
<1>7. /\ at \in {"fk", "entry", "commit"}
      /\ at = "fk" => tx[w].row = Null
      /\ at = "entry" => r.op = "patch" /\ Marks(r, t)
      /\ at = "commit" /\ r.op = "patch" => ~Marks(r, t)
  BY <1>5 DEF ChecksUser, AddsEntry, MarksAdmin, Marks
<1> HIDE DEF at
<1>8. EntryFollows(at, r, t)
  <2>1. /\ r.op = "email_change" => t.entry = ChangeEntry(r)
        /\ r.op \in {"create", "upserted", "patch"} => t.entry = Null
    BY <1>2, <1>3 DEF EffectOf, EntryFollows, PastRow, PastContacts
  <2> QED
    BY <1>7, <2>1 DEF EntryFollows, PastRow, PastContacts
<1>9. EffectOf(at, r, t, row)
  BY <1>2, <1>3, <1>5, <1>6, <1>7, <1>8
     DEF EffectOf, PastRow, PastContacts, Statements
<1> QED
  BY <1>3, <1>4, <1>9, ContinueKeepsEffects

LEMMA CheckUserKeepsEffects ==
    ASSUME TypeInv, EffectInv, NEW w \in Workers, CheckUser(w)
    PROVE  EffectInv'
<1> DEFINE r == req[w]
           t == [tx[w] EXCEPT !.shared = TRUE]
           row == users[tx[w].user]
<1>1. pc[w] = "fk" /\ tx[w] \in Transaction
  BY ContactStage DEF CheckUser, Runs
<1>2. EffectOf("fk", r, tx[w], row)
  BY <1>1 DEF EffectInv
<1>3. /\ t.user = tx[w].user /\ t.row = tx[w].row /\ t.seen = tx[w].seen
      /\ t.entry = tx[w].entry /\ t.contacts = tx[w].contacts
  BY <1>1 DEF Transaction
<1>4. Continue(w, t, "commit")
  BY DEF CheckUser
<1> HIDE DEF t
<1>5. OnlyReads(r, t, row) /\ BatchOf(r, t) = BatchOf(r, tx[w])
  BY <1>2, <1>3, SameRow DEF EffectOf, PastRow, PastContacts, RowFollows
<1>6. r.op = "patch" /\ ~Marks(r, t) /\ t.entry = Null
  BY <1>2, <1>3, <1>5 DEF OnlyReads, SetsNothing, Marks, EffectOf,
     EntryFollows, PastRow, PastContacts
<1>7. EffectOf("commit", r, t, row)
  BY <1>2, <1>3, <1>5, <1>6
     DEF EffectOf, EntryFollows, PastRow, PastContacts, Statements
<1> QED
  BY <1>3, <1>4, <1>7, ContinueKeepsEffects

LEMMA AddEntryKeepsEffects ==
    ASSUME TypeInv, EffectInv, NEW w \in Workers, AddEntry(w)
    PROVE  EffectInv'
<1> DEFINE r == req[w]
           t == [tx[w] EXCEPT !.entry = PatchEntry(r, tx[w]), !.shared = TRUE]
           row == users[tx[w].user]
<1>1. pc[w] = "entry" /\ tx[w] \in Transaction /\ r.op = "patch"
  BY ContactStage
     DEF AddEntry, Runs, TypeInv, Stages, StageOf, PatchRequest
<1>2. EffectOf("entry", r, tx[w], row)
  BY <1>1 DEF EffectInv
<1>3. /\ t.user = tx[w].user /\ t.row = tx[w].row /\ t.seen = tx[w].seen
      /\ t.entry = PatchEntry(r, tx[w]) /\ t.contacts = tx[w].contacts
  BY <1>1 DEF Transaction
<1>4. Continue(w, t, "commit")
  BY DEF AddEntry, PatchEntry
<1> HIDE DEF t
<1>5. /\ RowFollows(r, t, row) = RowFollows(r, tx[w], row)
      /\ OnlyReads(r, t, row) = OnlyReads(r, tx[w], row)
      /\ Marks(r, t) = Marks(r, tx[w]) /\ BatchOf(r, t) = BatchOf(r, tx[w])
      /\ PatchEntry(r, t) = PatchEntry(r, tx[w])
  BY <1>3, SameRow
<1>6. EffectOf("commit", r, t, row)
  BY <1>1, <1>2, <1>3, <1>5
     DEF EffectOf, EntryFollows, PastRow, PastContacts, Statements
<1> QED
  BY <1>3, <1>4, <1>6, ContinueKeepsEffects

(***************************************************************************)
(* The commit changes the row of no user whose row another has prepared.   *)
(***************************************************************************)
LEMMA ApplyKeepsEffects ==
    ASSUME TypeInv, KeyInv, EffectInv, NEW w \in Workers,
           NEW outcome \in Outcomes,
           pc[w] = "commit", Apply(w), Goto(w, outcome)
    PROVE  EffectInv'
<1>1. /\ req' = req /\ tx'[w] = NoTransaction /\ pc'[w] = outcome
      /\ \A v \in Others(w) : tx'[v] = tx[v] /\ pc'[v] = pc[v]
  BY DEF Apply, Goto, TypeInv, TypeOK, Others
<1>2. tx[w].user \in UserIds
  BY ContactStage
<1>3. \A u \in UserIds :
        users'[u] = IF Writes(w) /\ u = tx[w].user THEN tx[w].row ELSE users[u]
  BY <1>2 DEF Apply, Writes, TypeInv, TypeOK
<1>4. EffectOf(outcome, req[w], NoTransaction, users'[NoTransaction.user])
  BY NoEffect DEF Outcomes, PastRow, PastContacts, Statements
<1>5. ASSUME NEW v \in Others(w)
      PROVE  EffectOf(pc[v], req[v], tx[v], users'[tx[v].user])
  <2>1. v \in Workers /\ EffectOf(pc[v], req[v], tx[v], users[tx[v].user])
    BY DEF Others, EffectInv
  <2>2. CASE pc[v] \notin PastRow
    BY <2>1, <2>2, EffectBeforeRow
  <2>3. CASE pc[v] \in PastRow
    <3>1. tx[v].user \in UserIds
      <4>1. CASE pc[v] = "index"
        BY <2>1, <4>1
           DEF TypeInv, Stages, StageOf, PatchRequest, EmailChange
      <4> QED
        BY <2>1, <2>3, <4>1, ContactStage DEF PastRow, PastContacts
    <3>2. CASE users'[tx[v].user] = users[tx[v].user]
      BY <2>1, <3>2
    <3>3. CASE users'[tx[v].user] # users[tx[v].user]
      <4>1. Writes(w) /\ tx[v].user = tx[w].user
        BY <1>3, <3>1, <3>3
      <4>2. tx[v].row = Null
        BY <2>1, <4>1 DEF KeyInv, OneWriter, Writes, Others
      <4>3. users'[tx[v].user] # Null
        BY <1>3, <3>1, <4>1 DEF Writes
      <4>4. OnlyReads(req[v], tx[v], users'[tx[v].user])
        BY <2>1, <2>3, <4>2, <4>3 DEF EffectOf, RowFollows, OnlyReads
      <4> QED
        BY <2>1, <4>4 DEF EffectOf
    <3> QED
      BY <3>2, <3>3
  <2> QED
    BY <2>2, <2>3
<1> QED
  BY <1>1, <1>4, <1>5 DEF EffectInv, Others

-----------------------------------------------------------------------------
LEMMA StatementKeepsEffects ==
    ASSUME TypeInv, KeyInv, EffectInv, NEW w \in Workers, Statement(w)
    PROVE  EffectInv'
<1>1. CASE Commit(w) \/ CommitUnanswered(w)
  BY <1>1, ApplyKeepsEffects DEF Commit, CommitUnanswered, Runs, Outcomes
<1>2. CASE \/ InsertConflict(w) \/ UpdateNoUser(w) \/ IndexConflict(w)
           \/ GateDuplicate(w) \/ GateNoUser(w)
  BY <1>2, DiscardKeepsEffects DEF InsertConflict, UpdateNoUser,
     IndexConflict, GateDuplicate, GateNoUser, Outcomes
<1> QED
  BY <1>1, <1>2, InsertKeepsEffects, UpsertUpdatesKeepsEffects,
     GetUserKeepsEffects, SelectUserKeepsEffects, UpdateKeepsEffects,
     IndexRowKeepsEffects, GateOpenKeepsEffects, UpsertContactKeepsEffects,
     UpsertContactsKeepsEffects, CheckUserKeepsEffects, AddEntryKeepsEffects
     DEF Statement

LEMMA NextKeepsEffects ==
    TypeInv /\ KeyInv /\ EffectInv /\ [Next]_vars => EffectInv'
<1> SUFFICES ASSUME TypeInv, KeyInv, EffectInv, [Next]_vars PROVE EffectInv'
  OBVIOUS
<1>1. CASE UNCHANGED vars
  BY <1>1 DEF vars, EffectInv
<1>2. CASE Next
  <2>1. PICK w \in Workers : \/ \E r \in Requests : Begin(w, r)
                             \/ Statement(w) \/ Victim(w) \/ Lose(w)
                             \/ Finish(w)
    BY <1>2 DEF Next
  <2>2. CASE Victim(w) \/ Lose(w)
    BY <2>2, DiscardKeepsEffects DEF Victim, Lose, Outcomes
  <2> QED
    BY <2>1, <2>2, StatementKeepsEffects, BeginKeepsEffects
<1> QED
  BY <1>1, <1>2

LEMMA InitEffects == Init => EffectInv
BY NoEffect DEF Init, EffectInv, PastRow, PastContacts, Statements

\* The inductive invariant holds.
LEMMA IInvHolds == Spec => []IInv
<1>1. Init => IInv
  BY InitTypes, InitKeys, InitMessages, InitEffects DEF IInv
<1>2. IInv /\ [Next]_vars => IInv'
  BY NextKeepsTypes, NextKeepsKeys, NextKeepsMessages, NextKeepsEffects
     DEF IInv
<1> QED
  BY <1>1, <1>2, PTL DEF Spec

-----------------------------------------------------------------------------
(***************************************************************************)
(* A commit serves its request, as UserRegistry defines it, unless it      *)
(* relies on a stale read.                                                 *)
(***************************************************************************)
\* The operators of the registry are the ones of the tables.
LEMMA RegistryOperators ==
    /\ \A row : Registry!Key(row) = Key(row)
    /\ \A kept, batch : Registry!Merge(kept, batch) = Merge(kept, batch)
    /\ \A given, email : Registry!Batch(given, email) = Batch(given, email)
    /\ \A log : Registry!MessagesIn(log) = MessagesIn(log)
    /\ \A zone : Registry!ZoneAccepted(zone) = ZoneAccepted(zone)
    /\ \A r : Registry!ImportedUser(r) = ImportedUser(r)
    /\ \A r : Registry!CreatedUser(r) = CreatedUser(r)
    /\ \A row, r : Registry!RefreshedUser(row, r) = RefreshedUser(row, r)
    /\ \A row, r : Registry!ReaddressedUser(row, r) = ReaddressedUser(row, r)
    /\ \A row, r, mark :
          Registry!PatchedUser(row, r, mark) = PatchedUser(row, r, mark)
    /\ Registry!NoContacts = NoContacts
BY DEF Registry!Key, Key, Registry!Merge, Merge, Registry!Batch, Batch,
       Registry!MessagesIn, MessagesIn, Registry!ZoneAccepted, ZoneAccepted,
       Registry!ImportedUser, ImportedUser, Registry!CreatedUser,
       CreatedUser, Registry!RefreshedUser, RefreshedUser,
       Registry!ReaddressedUser, ReaddressedUser, Registry!PatchedUser,
       PatchedUser, Registry!NoContacts, NoContacts, Registry!Coalesce,
       Coalesce, Registry!AllChannels, AllChannels, Registry!EmailChannel,
       EmailChannel

\* What is known at a commit.
LEMMA CommitStage ==
    ASSUME IInv, NEW w \in Workers, pc[w] = "commit"
    PROVE  /\ req[w] \in Requests /\ tx[w] \in Transaction
           /\ tx[w].user \in UserIds
           /\ users[tx[w].user] \in User \cup {Null}
           /\ EffectOf("commit", req[w], tx[w], users[tx[w].user])
           /\ tx[w].contacts = BatchOf(req[w], tx[w])
<1>1. /\ req[w] \in Requests /\ tx[w] \in Transaction
      /\ tx[w].user \in UserIds
      /\ users[tx[w].user] \in User \cup {Null}
  BY ContactStage DEF IInv, TypeInv, TypeOK
<1>2. EffectOf("commit", req[w], tx[w], users[tx[w].user])
  BY DEF IInv, EffectInv
<1>3. tx[w].contacts = BatchOf(req[w], tx[w])
  BY <1>2 DEF EffectOf, PastContacts
<1> QED
  BY <1>1, <1>2, <1>3

\* A commit with a row stores it, with the contacts of its request.
LEMMA RowIsStored ==
    ASSUME IInv, NEW w \in Workers, pc[w] = "commit", Apply(w),
           tx[w].row # Null
    PROVE  Registry!Store(tx[w].user, tx[w].row, GivenContacts(req[w]))
<1> DEFINE t == tx[w]
           u == tx[w].user
<1>1. /\ users' = [users EXCEPT ![u] = t.row]
      /\ contacts' = [contacts EXCEPT
           ![u] = Merge(contacts[u], Batch(GivenContacts(req[w]), t.row.email))]
  BY CommitStage DEF Apply, BatchOf
<1>2. \A x \in UserIds \ {u} : Known(x) => Key(users[x]) # Key(t.row)
  BY DEF IInv, KeyInv, PendingKeysFree, Writes, Indexed
<1> QED
  BY <1>1, <1>2, RegistryOperators
     DEF Registry!Store, Registry!KeyIsFree, Registry!Exists, Known

\* A PATCH that sets nothing keeps the row.
LEMMA NothingPatched ==
    ASSUME NEW row \in User, NEW r, SetsNothing(r)
    PROVE  PatchedUser(row, r, FALSE) = row
BY DEF User, SetsNothing, PatchedUser, Coalesce

LEMMA PatchServed ==
    ASSUME IInv, NEW w \in Workers, pc[w] = "commit", Apply(w),
           req[w].op = "patch", ~ReadIsStale(w)
    PROVE  Registry!Patch(req[w])
<1> DEFINE r == req[w]
           t == tx[w]
           u == r.user
           moves == r.email # Null /\ r.email # users[u].email
<1>1. /\ t \in Transaction /\ t.user \in UserIds
      /\ EffectOf("commit", r, t, users[t.user])
  BY CommitStage
<1>2. /\ t.user = u /\ users[u] # Null /\ ZoneAccepted(r.time_zone)
      /\ t.entry = IF Marks(r, t) THEN PatchEntry(r, t) ELSE Null
      /\ r.email # Null => t.seen # Null
      /\ \/ /\ t.row # Null
            /\ t.row = PatchedUser(users[u], r, Marks(r, t))
         \/ OnlyReads(r, t, users[u])
  BY <1>1 DEF EffectOf, EntryFollows, RowFollows, OnlyReads, PastRow,
     PastContacts, Statements
<1>3. t.seen # Null => t.seen = users[u].email
  BY DEF ReadIsStale
<1>4. Marks(r, t) = moves
  BY <1>2, <1>3 DEF Marks
<1>5. users[u] \in User /\ u \in UserIds
  BY <1>1, <1>2, CommitStage
<1>6. changelog' =
        IF moves
        THEN Append(changelog, [user |-> u, old |-> users[u].email,
                                new |-> r.email, id |-> Null])
        ELSE changelog
  <2>1. CASE moves
    <3>1. t.entry = [user |-> u, old |-> users[u].email,
                     new |-> r.email, id |-> Null]
      BY <1>2, <1>3, <1>4, <2>1 DEF PatchEntry
    <3>2. t.entry # Null
      BY <1>1, <1>5, <2>1, <3>1, NullIsNoValue, CommitStage, RequestKinds
         DEF Entry, PatchRequest, User
    <3> QED
      BY <2>1, <3>1, <3>2 DEF Apply
  <2>2. CASE ~moves
    BY <1>2, <1>4, <2>2 DEF Apply
  <2> QED
    BY <2>1, <2>2
<1>7. Registry!Store(u, PatchedUser(users[u], r, moves), r.contacts)
  <2>1. GivenContacts(r) = r.contacts
    BY DEF GivenContacts
  <2>2. CASE t.row # Null
    <3>1. t.row = PatchedUser(users[u], r, moves)
      BY <1>2, <1>4, <2>2 DEF OnlyReads
    <3> QED
      BY <1>2, <2>1, <2>2, <3>1, RowIsStored
  <2>3. CASE t.row = Null
    <3>1. OnlyReads(r, t, users[u]) /\ SetsNothing(r) /\ ~moves
      BY <1>2, <2>3 DEF OnlyReads, SetsNothing
    <3>2. PatchedUser(users[u], r, moves) = users[u]
      BY <1>5, <3>1, NothingPatched
    <3>3. users' = [users EXCEPT ![u] = users[u]]
      BY <1>5, <2>3 DEF Apply, IInv, TypeInv, TypeOK
    <3>4. t.contacts = Batch(r.contacts, users[u].email)
      BY <1>3, <2>1, <2>3, <3>1, CommitStage DEF BatchOf, OnlyReads
    <3>5. contacts' = [contacts EXCEPT
             ![u] = Merge(contacts[u], Batch(r.contacts, users[u].email))]
      BY <1>2, <3>4 DEF Apply
    <3>6. \A x \in UserIds \ {u} : Known(x) => Key(users[x]) # Key(users[u])
      BY <1>2, <1>5 DEF IInv, KeyInv, EmailRoleUnique, Known
    <3> QED
      BY <3>2, <3>3, <3>5, <3>6, RegistryOperators
         DEF Registry!Store, Registry!KeyIsFree, Registry!Exists, Known
  <2> QED
    BY <2>2, <2>3
<1> QED
  BY <1>2, <1>6, <1>7, RegistryOperators DEF Registry!Patch, Registry!Exists

LEMMA ChangeServed ==
    ASSUME IInv, NEW w \in Workers, pc[w] = "commit", Apply(w),
           req[w].op = "email_change"
    PROVE  Registry!ChangeAddress(req[w])
<1> DEFINE r == req[w]
           t == tx[w]
<1>1. t \in Transaction /\ EffectOf("commit", r, t, users[t.user])
      /\ r \in EmailChange /\ t.user \in UserIds
  BY CommitStage, RequestKinds
<1>2. /\ t.user = r.user /\ users[r.user] # Null
      /\ t.entry = ChangeEntry(r) /\ t.row # Null
      /\ t.row = ReaddressedUser(users[r.user], r)
  BY <1>1 DEF EffectOf, EntryFollows, RowFollows, OnlyReads, PastRow,
     PastContacts
<1>3. t.entry \in Entry /\ t.entry # Null /\ t.entry.id = r.id
  BY <1>1, <1>2, NullIsNoValue DEF ChangeEntry, EmailChange, Entry
<1>4. changelog' = Append(changelog, [user |-> r.user, old |-> r.old,
                                      new |-> r.new, id |-> r.id])
  BY <1>2, <1>3 DEF Apply, ChangeEntry
<1>5. r.id \notin MessagesIn(changelog)
  BY <1>3 DEF IInv, MessageInv, PendingMessagesNew, Carries, MessagesIn
<1>6. Registry!Store(r.user, ReaddressedUser(users[r.user], r), NoContacts)
  BY <1>2, RowIsStored DEF GivenContacts
<1> QED
  BY <1>2, <1>4, <1>5, <1>6, RegistryOperators
     DEF Registry!ChangeAddress, Registry!Exists

LEMMA CreateServed ==
    ASSUME IInv, NEW w \in Workers, pc[w] = "commit", Apply(w),
           req[w].op = "create"
    PROVE  Registry!Create(req[w])
<1> DEFINE r == req[w]
           t == tx[w]
<1>1. EffectOf("commit", r, t, users[t.user]) /\ t.user \in UserIds
  BY CommitStage
<1>2. /\ users[t.user] = Null /\ ZoneAccepted(r.time_zone)
      /\ t.entry = Null /\ t.row # Null /\ t.row = CreatedUser(r)
  BY <1>1 DEF EffectOf, EntryFollows, RowFollows, OnlyReads, PastRow,
     PastContacts, Statements
<1>3. Registry!Store(t.user, CreatedUser(r), r.contacts)
  BY <1>2, RowIsStored DEF GivenContacts
<1> QED
  BY <1>1, <1>2, <1>3, RegistryOperators
     DEF Registry!Create, Registry!Exists, Apply

LEMMA UpsertServed ==
    ASSUME IInv, NEW w \in Workers, pc[w] = "commit", Apply(w),
           req[w].op = "upserted"
    PROVE  Registry!Upsert(req[w])
<1> DEFINE r == req[w]
           t == tx[w]
           u == tx[w].user
<1>1. EffectOf("commit", r, t, users[u]) /\ u \in UserIds
  BY CommitStage
<1>2. /\ t.entry = Null /\ t.row # Null
      /\ \/ users[u] = Null /\ t.row = ImportedUser(r)
         \/ /\ users[u] # Null /\ Key(users[u]) = <<r.email, r.role>>
            /\ t.row = RefreshedUser(users[u], r)
  BY <1>1 DEF EffectOf, EntryFollows, RowFollows, OnlyReads, PastRow,
     PastContacts
<1>3. Registry!Store(u, t.row, r.contacts)
  BY <1>2, RowIsStored DEF GivenContacts
<1> QED
  BY <1>1, <1>2, <1>3, RegistryOperators
     DEF Registry!Upsert, Registry!Exists, Apply

LEMMA CommitServes ==
    ASSUME IInv, NEW w \in Workers, pc[w] = "commit", Apply(w),
           ~ReadIsStale(w)
    PROVE  Registry!Serve(req[w])
<1>1. req[w].op \in {"create", "patch", "email_change", "upserted"}
  BY CommitStage, RequestKinds
<1> QED
  BY <1>1, CreateServed, PatchServed, ChangeServed, UpsertServed
     DEF Registry!Serve

\* Only a commit changes the tables.
LEMMA OtherStepsKeepTables ==
    ASSUME [Next]_vars, ~UNCHANGED tables
    PROVE  \E w \in Workers, outcome \in {"ok", "error"} :
              pc[w] = "commit" /\ Apply(w) /\ Goto(w, outcome)
<1>1. PICK w \in Workers : Statement(w)
  BY DEF Next, vars, tables, Begin, Victim, Lose, Finish, Discard, Continue
<1>2. Commit(w) \/ CommitUnanswered(w)
  BY <1>1 DEF Statement, InsertUser, InsertConflict, GetUser, UpdateNoUser,
     SelectUser, UpdateUser, IndexRow, IndexConflict, AddEntry,
     GateDuplicate, GateNoUser, GateOpen, ChangeEmail, WriteRow,
     UpsertInserts, UpsertUpdates, UpsertContact, UpsertContacts, CheckUser,
     ToContacts, Discard, Continue
<1> QED
  BY <1>2 DEF Commit, CommitUnanswered, Runs

LEMMA CommitEnds ==
    ASSUME TypeInv, NEW w \in Workers, NEW outcome \in {"ok", "error"},
           Goto(w, outcome)
    PROVE  pc'[w] # "commit"
BY DEF Goto, TypeInv, TypeOK

\* users_db.py:67-183, consumer.py:36-126.  Whatever is requested, a commit
\* does what the request it serves would have done alone on those tables,
\* unless it relies on an address that has been replaced since it was read.
THEOREM CommitsServe == Spec => ServedUnlessStale
<1>1. ASSUME IInv, [Next]_vars, ~UNCHANGED tables
      PROVE  \E w \in Workers : /\ pc[w] = "commit" /\ pc'[w] # "commit"
                                /\ Registry!Serve(req[w]) \/ ReadIsStale(w)
  <2>1. PICK w \in Workers, outcome \in {"ok", "error"} :
               pc[w] = "commit" /\ Apply(w) /\ Goto(w, outcome)
    BY <1>1, OtherStepsKeepTables
  <2>2. pc'[w] # "commit"
    BY <1>1, <2>1, CommitEnds DEF IInv
  <2>3. Registry!Serve(req[w]) \/ ReadIsStale(w)
    BY <1>1, <2>1, CommitServes
  <2> QED
    BY <2>1, <2>2, <2>3
<1> QED
  BY <1>1, IInvHolds, PTL DEF Spec, ServedUnlessStale

-----------------------------------------------------------------------------
(***************************************************************************)
(* Without requests that read the address they rely on, UserTransactions   *)
(* implements UserRegistry.                                                *)
(***************************************************************************)
\* A PATCH with an address, or without any column of users.
ReadsAddress(r) == r.op = "patch" /\ (r.email # Null \/ SetsNothing(r))

OnlyTheseRead == \A w \in Workers : tx[w].seen # Null => ReadsAddress(req[w])

LEMMA ContinueKeepsReads ==
    ASSUME TypeInv, OnlyTheseRead, NEW w \in Workers, NEW t, NEW at,
           Continue(w, t, at),
           t.seen \in {Null, tx[w].seen} \/ ReadsAddress(req[w])
    PROVE  OnlyTheseRead'
<1>1. /\ req' = req /\ tx'[w] = t
      /\ \A v \in Others(w) : tx'[v] = tx[v]
  BY DEF Continue, TypeInv, TypeOK, Others
<1> QED
  BY <1>1 DEF OnlyTheseRead, Others

LEMMA DiscardKeepsReads ==
    ASSUME TypeInv, OnlyTheseRead, NEW w \in Workers, NEW outcome,
           Discard(w, outcome)
    PROVE  OnlyTheseRead'
BY ContinueKeepsReads DEF Discard, NoTransaction

LEMMA StatementKeepsReads ==
    ASSUME TypeInv, OnlyTheseRead, NEW w \in Workers, Statement(w)
    PROVE  OnlyTheseRead'
<1>1. tx[w] \in Transaction
  BY DEF TypeInv, TypeOK
<1> DEFINE Keeps == \E t, at : t.seen = tx[w].seen /\ Continue(w, t, at)
<1>2. CASE GetUser(w) \/ SelectUser(w)
  <2>1. ReadsAddress(req[w])
    BY <1>2, PatchStage
       DEF GetUser, SelectUser, Runs, ReadsAddress, PatchRequest
  <2>2. \E t, at : Continue(w, t, at)
    BY <1>2 DEF GetUser, SelectUser, ToContacts, Discard
  <2> QED
    BY <2>1, <2>2, ContinueKeepsReads
<1>3. CASE \/ InsertUser(w) \/ UpdateUser(w) \/ ChangeEmail(w)
           \/ UpsertInserts(w) \/ UpsertUpdates(w)
  <2>1. InsertUser(w) \/ UpsertInserts(w) \/ UpsertUpdates(w) => Keeps
    BY <1>1
       DEF InsertUser, UpsertInserts, UpsertUpdates, ToContacts, Transaction
  <2>2. UpdateUser(w) \/ ChangeEmail(w) => Keeps
    BY <1>1 DEF UpdateUser, ChangeEmail, WriteRow, ToContacts, Transaction
  <2> QED
    BY <1>3, <2>1, <2>2, ContinueKeepsReads
<1>4. CASE \/ IndexRow(w) \/ GateOpen(w) \/ AddEntry(w) \/ UpsertContact(w)
           \/ UpsertContacts(w) \/ CheckUser(w)
  <2>1. Keeps
    BY <1>1, <1>4 DEF IndexRow, ToContacts, GateOpen, AddEntry,
       UpsertContact, UpsertContacts, CheckUser, Transaction
  <2> QED
    BY <2>1, ContinueKeepsReads
<1>5. CASE Commit(w) \/ CommitUnanswered(w)
  BY <1>5 DEF Commit, CommitUnanswered, Apply, OnlyTheseRead, NoTransaction,
     TypeInv, TypeOK
<1>6. CASE \/ InsertConflict(w) \/ UpdateNoUser(w) \/ IndexConflict(w)
           \/ GateDuplicate(w) \/ GateNoUser(w)
  BY <1>6, DiscardKeepsReads DEF InsertConflict, UpdateNoUser, IndexConflict,
     GateDuplicate, GateNoUser
<1> QED
  BY <1>2, <1>3, <1>4, <1>5, <1>6 DEF Statement

LEMMA NextKeepsReads ==
    TypeInv /\ OnlyTheseRead /\ [Next]_vars => OnlyTheseRead'
<1> SUFFICES ASSUME TypeInv, OnlyTheseRead, [Next]_vars PROVE OnlyTheseRead'
  OBVIOUS
<1>1. CASE UNCHANGED vars
  BY <1>1 DEF vars, OnlyTheseRead
<1>2. CASE Next
  <2>1. PICK w \in Workers : \/ \E r \in Requests : Begin(w, r)
                             \/ Statement(w) \/ Victim(w) \/ Lose(w)
                             \/ Finish(w)
    BY <1>2 DEF Next
  <2>2. CASE (\E r \in Requests : Begin(w, r)) \/ Finish(w)
    <3>1. tx[w].seen = Null
      BY <2>2 DEF Begin, Finish, TypeInv, Stages, StageOf, NoTransaction
    <3> QED
      BY <2>2, <3>1 DEF Begin, Finish, OnlyTheseRead, TypeInv, TypeOK
  <2>3. CASE Victim(w) \/ Lose(w)
    BY <2>3, DiscardKeepsReads DEF Victim, Lose
  <2> QED
    BY <2>1, <2>2, <2>3, StatementKeepsReads
<1> QED
  BY <1>1, <1>2

LEMMA ReadsInvariant == Spec => [](IInv /\ OnlyTheseRead)
<1>1. Init => OnlyTheseRead
  BY DEF Init, OnlyTheseRead, NoTransaction
<1>2. IInv /\ OnlyTheseRead /\ [Next]_vars => OnlyTheseRead'
  BY NextKeepsReads DEF IInv
<1> QED
  BY <1>1, <1>2, IInvHolds, PTL DEF Spec

PatchesKeepAddress == \A r \in Requests : r.op = "patch" => r.email = Null

LEMMA NextIsRegistry ==
    ASSUME EveryPatchWrites, PatchesKeepAddress, IInv, OnlyTheseRead,
           [Next]_vars
    PROVE  [Registry!Next]_(Registry!registry)
<1>1. CASE UNCHANGED tables
  BY <1>1 DEF tables, Registry!registry
<1>2. CASE ~UNCHANGED tables
  <2>1. PICK w \in Workers, outcome \in {"ok", "error"} :
               pc[w] = "commit" /\ Apply(w) /\ Goto(w, outcome)
    BY <1>2, OtherStepsKeepTables
  <2>2. req[w] \in Requests
    BY <2>1, CommitStage
  <2>3. ~ReadIsStale(w)
    BY <2>2 DEF EveryPatchWrites, PatchesKeepAddress, OnlyTheseRead,
       ReadsAddress, ReadIsStale
  <2> QED
    BY <2>1, <2>2, <2>3, CommitServes DEF Registry!Next
<1> QED
  BY <1>1, <1>2

(***************************************************************************)
(* The readers of the database see a registry that serves requests one at  *)
(* a time, in spite of transactions of many statements at READ COMMITTED,  *)
(* if every PATCH sets a column and none sets the address: POST, messages  *)
(* of both kinds, and PATCH of other columns in any number and order.      *)
(***************************************************************************)
THEOREM TransactionsAreRegistry ==
    ASSUME EveryPatchWrites, PatchesKeepAddress
    PROVE  Spec => RegistrySpec
<1>1. Init => Registry!Init
  BY RegistryOperators DEF Init, Registry!Init
<1>2. IInv /\ OnlyTheseRead /\ [Next]_vars
        => [Registry!Next]_(Registry!registry)
  BY NextIsRegistry, EveryPatchWrites, PatchesKeepAddress
<1> QED
  BY <1>1, <1>2, ReadsInvariant, PTL DEF Spec, RegistrySpec, Registry!Spec

-----------------------------------------------------------------------------
(***************************************************************************)
(* Which changes of address a commit records.                              *)
(***************************************************************************)
\* A commit that replaces an address serves a PATCH or a message about it.
LEMMA ReaddressingCommit ==
    ASSUME IInv, NEW w \in Workers, pc[w] = "commit", Apply(w),
           NEW u \in UserIds, Readdresses(u)
    PROVE  /\ req[w].user = u /\ users[u] \in User
           /\ users' = [users EXCEPT ![u] = tx[w].row]
           /\ \/ /\ req[w].op = "patch" /\ req[w].email # Null
                 /\ users'[u].email = req[w].email
                 /\ tx[w].entry = IF Marks(req[w], tx[w])
                                  THEN PatchEntry(req[w], tx[w]) ELSE Null
              \/ /\ req[w].op = "email_change"
                 /\ users'[u].email = req[w].new
                 /\ tx[w].entry = ChangeEntry(req[w])
<1> DEFINE r == req[w]
           t == tx[w]
<1>1. /\ r \in Requests /\ t.user \in UserIds /\ users[u] \in User
      /\ EffectOf("commit", r, t, users[t.user])
      /\ users \in [UserIds -> User \cup {Null}]
  BY CommitStage DEF IInv, TypeInv, TypeOK, Readdresses, Known
<1>2. /\ t.row # Null /\ t.user = u /\ users'[u] = t.row
      /\ users' = [users EXCEPT ![u] = t.row]
  BY <1>1 DEF Apply, Readdresses
<1>3. RowFollows(r, t, users[u]) /\ EntryFollows("commit", r, t)
  BY <1>1, <1>2 DEF EffectOf, OnlyReads, PastRow, PastContacts
<1>4. users[u] # Null /\ t.row.email # users[u].email
  BY <1>2 DEF Readdresses, Known
<1>5. r.op \in {"patch", "email_change"} /\ r.user = u
  BY <1>1, <1>2, <1>3, <1>4 DEF RowFollows, RefreshedUser, User
<1>6. CASE r.op = "patch"
  <2>1. t.row.email = Coalesce(r.email, users[u].email)
    BY <1>3, <1>6 DEF RowFollows, PatchedUser
  <2>2. r.email # Null /\ t.row.email = r.email
    BY <1>4, <2>1 DEF Coalesce
  <2>3. t.entry = IF Marks(r, t) THEN PatchEntry(r, t) ELSE Null
    BY <1>3, <1>6 DEF EntryFollows
  <2> QED
    BY <1>1, <1>2, <1>5, <1>6, <2>2, <2>3
<1>7. CASE r.op = "email_change"
  <2>1. t.row.email = r.new
    BY <1>1, <1>3, <1>7 DEF RowFollows, ReaddressedUser, User
  <2>2. t.entry = ChangeEntry(r)
    BY <1>3, <1>7 DEF EntryFollows, PastRow, PastContacts
  <2> QED
    BY <1>1, <1>2, <1>5, <1>7, <2>1, <2>2
<1> QED
  BY <1>5, <1>6, <1>7

\* A commit with an entry adds it to the changelog.
LEMMA EntryIsAdded ==
    ASSUME IInv, NEW w \in Workers, pc[w] = "commit", Apply(w),
           tx[w].entry # Null
    PROVE  /\ tx[w].entry \in Entry
           /\ changelog \in Seq(Entry) /\ changelog' \in Seq(Entry)
           /\ Len(changelog') = Len(changelog) + 1
           /\ changelog'[Len(changelog')] = tx[w].entry
           /\ \A i \in 1 .. Len(changelog) : changelog'[i] = changelog[i]
<1>1. tx[w].entry \in Entry /\ changelog \in Seq(Entry)
  BY CommitStage DEF IInv, TypeInv, TypeOK, Transaction
<1> QED
  BY <1>1 DEF Apply

LEMMA AuditFails ==
    ASSUME IInv, NEW w \in Workers, pc[w] = "commit", Apply(w),
           NEW u \in UserIds, Readdresses(u),
           ~(Audits(u) /\ NamesReplaced(u))
    PROVE  Believed(w) # users[u].email
<1> DEFINE r == req[w]
           t == tx[w]
<1>1. r.op = "email_change" => t.entry = ChangeEntry(r) /\ t.entry # Null
  <2>1. ASSUME r.op = "email_change"
        PROVE  ChangeEntry(r) \in Entry
    BY <2>1, CommitStage, RequestKinds DEF ChangeEntry, Entry, EmailChange
  <2> QED
    BY <2>1, ReaddressingCommit, NullIsNoValue
<1>2. CASE t.entry # Null
  <2>1. /\ r.user = u
        /\ \/ /\ r.op = "patch" /\ users'[u].email = r.email
              /\ t.entry = PatchEntry(r, t)
           \/ /\ r.op = "email_change" /\ users'[u].email = r.new
              /\ t.entry = ChangeEntry(r)
    BY <1>2, ReaddressingCommit
  <2>2. /\ t.entry.user = u /\ t.entry.new = users'[u].email
        /\ t.entry.old = Believed(w)
    BY <2>1 DEF PatchEntry, ChangeEntry, Believed
  <2> QED
    BY <1>2, <2>2, EntryIsAdded DEF Audits, NamesReplaced
<1>3. CASE t.entry = Null
  <2>1. /\ r.op = "patch" /\ r.email # Null /\ users'[u].email = r.email
        /\ Marks(r, t) => PatchEntry(r, t) = Null
    BY <1>1, <1>3, ReaddressingCommit
  <2>2. CASE Marks(r, t)
    <3>1. t.seen # Null
      BY <2>1, CommitStage DEF EffectOf, PastRow, PastContacts
    <3>2. PatchEntry(r, t) \in Entry
      BY <2>1, <3>1, CommitStage, RequestKinds
         DEF PatchEntry, Entry, PatchRequest, Transaction
    <3> QED
      BY <2>1, <2>2, <3>2, NullIsNoValue
  <2>3. CASE ~Marks(r, t)
    BY <2>1, <2>3 DEF Marks, Believed, Readdresses
  <2> QED
    BY <2>2, <2>3
<1> QED
  BY <1>2, <1>3

\* controllers/users.py:38-54, consumer.py:45-69, docs/DATA_MODEL.md:87-94.
\* Whatever is requested, an address changes without an entry, or with one that names
\* a wrong old address, only where the request relies on an address that has
\* been replaced since it was read or sent.
THEOREM AuditFailsOnlyThen == Spec => AuditFailsOnlyByStaleRead
<1>1. ASSUME IInv, [Next]_vars, NEW u \in UserIds, Readdresses(u),
             ~(Audits(u) /\ NamesReplaced(u))
      PROVE  \E w \in Workers :
                /\ pc[w] = "commit" /\ pc'[w] # "commit"
                /\ req[w].op \in {"patch", "email_change"}
                /\ req[w].user = u
                /\ Believed(w) # users[u].email
  <2>1. ~UNCHANGED tables
    BY <1>1 DEF Readdresses, tables
  <2>2. PICK w \in Workers, outcome \in {"ok", "error"} :
               pc[w] = "commit" /\ Apply(w) /\ Goto(w, outcome)
    BY <1>1, <2>1, OtherStepsKeepTables
  <2>3. pc'[w] # "commit"
    BY <1>1, <2>2, CommitEnds DEF IInv
  <2> QED
    BY <1>1, <2>2, <2>3, ReaddressingCommit, AuditFails
<1>2. IInv /\ [Next]_vars =>
        \A u \in UserIds :
          Readdresses(u) /\ ~(Audits(u) /\ NamesReplaced(u)) =>
          \E w \in Workers : /\ pc[w] = "commit" /\ pc'[w] # "commit"
                             /\ req[w].op \in {"patch", "email_change"}
                             /\ req[w].user = u
                             /\ Believed(w) # users[u].email
  BY <1>1
<1> QED
  BY <1>2, IInvHolds, PTL DEF Spec, AuditFailsOnlyByStaleRead

(***************************************************************************)
(* Without a PATCH of the address, the changelog ends with the address of  *)
(* every user whom an administrator has moved.                             *)
(***************************************************************************)
IsLastOf(i, u, log) ==
    /\ i \in DOMAIN log /\ log[i].user = u
    /\ \A j \in DOMAIN log : log[j].user = u => j <= i

AuditInv ==
    \A u \in UserIds : Known(u) /\ users[u].email_source = "admin" =>
        \E i \in DOMAIN changelog :
            IsLastOf(i, u, changelog) /\ changelog[i].new = users[u].email

LEMMA LastEntryIsUnique ==
    ASSUME TypeOK, NEW u, NEW i \in DOMAIN changelog, IsLastOf(i, u, changelog)
    PROVE  LastEntryOf(u) = changelog[i]
<1> DEFINE own == {j \in DOMAIN changelog : changelog[j].user = u}
           last == CHOOSE k \in own : \A j \in own : j <= k
<1>1. i \in own /\ \A j \in own : j <= i
  BY DEF IsLastOf
<1>2. last \in own /\ \A j \in own : j <= last
  BY <1>1
<1>3. \A j \in own : j \in Nat
  BY DEF TypeOK
<1>4. last = i
  BY <1>1, <1>2, <1>3
<1> QED
  BY <1>4 DEF LastEntryOf

LEMMA AuditInvSuffices == TypeInv /\ AuditInv => AdminAddressAudited
<1> SUFFICES ASSUME TypeInv, AuditInv, NEW u \in UserIds, Known(u),
                    users[u].email_source = "admin"
             PROVE  /\ \E i \in DOMAIN changelog : changelog[i].user = u
                    /\ LastEntryOf(u).new = users[u].email
  BY DEF AdminAddressAudited
<1>1. PICK i \in DOMAIN changelog :
          IsLastOf(i, u, changelog) /\ changelog[i].new = users[u].email
  BY DEF AuditInv
<1> QED
  BY <1>1, LastEntryIsUnique DEF TypeInv, IsLastOf

LEMMA CommitKeepsAudit ==
    ASSUME PatchesKeepAddress, IInv, AuditInv,
           NEW w \in Workers, pc[w] = "commit", Apply(w)
    PROVE  AuditInv'
<1> DEFINE r == req[w]
           t == tx[w]
<1>1. /\ r \in Requests /\ t.user \in UserIds
      /\ EffectOf("commit", r, t, users[t.user])
      /\ users[t.user] \in User \cup {Null}
      /\ users \in [UserIds -> User \cup {Null}]
      /\ changelog \in Seq(Entry)
  BY CommitStage DEF IInv, TypeInv, TypeOK
<1> SUFFICES ASSUME NEW u \in UserIds,
                    users'[u] # Null, users'[u].email_source = "admin"
             PROVE  \E i \in DOMAIN changelog' :
                       /\ IsLastOf(i, u, changelog')
                       /\ changelog'[i].new = users'[u].email
  BY DEF AuditInv, Known
<1>2. users'[u] = IF t.row # Null /\ u = t.user THEN t.row ELSE users[u]
  BY <1>1 DEF Apply
<1>3. EntryFollows("commit", r, t)
      /\ (RowFollows(r, t, users[t.user]) \/ OnlyReads(r, t, users[t.user]))
  BY <1>1 DEF EffectOf, PastRow, PastContacts
<1>4. CASE r.op = "email_change"
  <2>1. /\ t.entry = ChangeEntry(r) /\ t.user = r.user
        /\ t.row # Null /\ users[t.user] # Null
        /\ t.row = ReaddressedUser(users[t.user], r)
    BY <1>3, <1>4 DEF EntryFollows, RowFollows, OnlyReads, PastRow,
       PastContacts
  <2>2. t.row.email = r.new
    BY <1>1, <2>1 DEF ReaddressedUser, User
  <2>3. ChangeEntry(r) \in Entry
    BY <1>1, <1>4, RequestKinds DEF ChangeEntry, Entry, EmailChange
  <2>4. /\ changelog' \in Seq(Entry)
        /\ Len(changelog') = Len(changelog) + 1
        /\ changelog'[Len(changelog')] = ChangeEntry(r)
        /\ \A i \in 1 .. Len(changelog) : changelog'[i] = changelog[i]
    BY <2>1, <2>3, EntryIsAdded, NullIsNoValue
  <2>5. CASE u = r.user
    <3>1. users'[u].email = r.new
      BY <1>2, <2>1, <2>2, <2>5
    <3>2. IsLastOf(Len(changelog'), u, changelog')
      <4>1. ChangeEntry(r).user = u
        BY <2>5 DEF ChangeEntry
      <4> HIDE DEF r
      <4> QED
        BY <1>1, <2>4, <4>1 DEF IsLastOf
    <3>3. ChangeEntry(r).new = r.new
      BY DEF ChangeEntry
    <3> QED
      BY <2>4, <3>1, <3>2, <3>3 DEF IsLastOf
  <2>6. CASE u # r.user
    <3>1. users'[u] = users[u]
      BY <1>2, <2>1, <2>6
    <3>2. PICK i \in DOMAIN changelog :
              IsLastOf(i, u, changelog) /\ changelog[i].new = users[u].email
      BY <3>1 DEF AuditInv, Known
    <3>3. i \in DOMAIN changelog' /\ changelog'[i] = changelog[i]
      BY <1>1, <2>4
    <3>4. IsLastOf(i, u, changelog')
      BY <1>1, <2>4, <2>6, <3>2, <3>3 DEF IsLastOf, ChangeEntry
    <3> QED
      BY <3>1, <3>2, <3>3, <3>4
  <2> QED
    BY <2>5, <2>6
<1>5. CASE r.op # "email_change"
  <2>1. r.op = "patch" => r.email = Null /\ ~Marks(r, t)
    BY <1>1 DEF PatchesKeepAddress, Marks
  <2>2. t.entry = Null
    BY <1>1, <1>3, <1>5, <2>1, RequestKinds
       DEF EntryFollows, PastRow, PastContacts
  <2>3. changelog' = changelog
    BY <2>2 DEF Apply
  <2>4. /\ users[u] # Null /\ users[u].email_source = "admin"
        /\ users'[u].email = users[u].email
    <3>1. CASE users'[u] = users[u]
      BY <3>1
    <3>2. CASE users'[u] # users[u]
      <4>1. u = t.user /\ users'[u] = t.row /\ t.row # Null
        BY <1>2, <3>2
      <4>2. RowFollows(r, t, users[u])
        BY <1>3, <4>1 DEF OnlyReads
      <4>3. ~(r.op \in {"create", "upserted"})
        <5>1. t.row.email_source = "admin"
          BY <4>1
        <5>2. CreatedUser(r).email_source = "crm"
              /\ ImportedUser(r).email_source = "crm"
          BY DEF CreatedUser, ImportedUser
        <5>3. users[u] # Null => RefreshedUser(users[u], r).email_source = "crm"
          BY <1>1, <4>1 DEF RefreshedUser, User
        <5> QED
          BY <4>2, <5>1, <5>2, <5>3 DEF RowFollows
      <4>4. /\ users[u] # Null
            /\ t.row = PatchedUser(users[u], r, Marks(r, t))
        BY <1>5, <4>2, <4>3 DEF RowFollows
      <4>5. r.op = "patch" /\ r.email = Null /\ Marks(r, t) = FALSE
        BY <1>5, <2>1, <4>2, <4>3 DEF RowFollows, Marks
      <4> QED
        BY <4>1, <4>4, <4>5 DEF PatchedUser, Coalesce
    <3> QED
      BY <3>1, <3>2
  <2>5. PICK i \in DOMAIN changelog :
            IsLastOf(i, u, changelog) /\ changelog[i].new = users[u].email
    BY <2>4 DEF AuditInv, Known
  <2> QED
    BY <2>3, <2>4, <2>5 DEF IsLastOf
<1> QED
  BY <1>4, <1>5

LEMMA NextKeepsAudit ==
    ASSUME PatchesKeepAddress, IInv, AuditInv, [Next]_vars
    PROVE  AuditInv'
<1>1. CASE UNCHANGED tables
  BY <1>1 DEF tables, AuditInv, IsLastOf, Known
<1>2. CASE ~UNCHANGED tables
  BY <1>2, OtherStepsKeepTables, CommitKeepsAudit
<1> QED
  BY <1>1, <1>2

\* consumer.py:45-69, docs/DATA_MODEL.md:87.  If no PATCH sets the address,
\* the changelog of a user whose address came from an administrator ends
\* with that address, in whatever order the messages are handled.
THEOREM AdminAddressIsAudited ==
    ASSUME PatchesKeepAddress
    PROVE  Spec => []AdminAddressAudited
<1>1. Init => AuditInv
  BY DEF Init, AuditInv, Known
<1>2. IInv /\ AuditInv /\ [Next]_vars => AuditInv'
  BY NextKeepsAudit, PatchesKeepAddress
<1>3. IInv /\ AuditInv => AdminAddressAudited
  BY AuditInvSuffices DEF IInv
<1> QED
  BY <1>1, <1>2, <1>3, IInvHolds, PTL DEF Spec

-----------------------------------------------------------------------------
(***************************************************************************)
(* Who waits for whom.                                                     *)
(***************************************************************************)
Waiting == {"insert", "update", "gate", "change", "index", "upsert",
            "contacts", "fk"}

LEMMA OnlyTheseWait ==
    ASSUME NEW w \in Workers, Blockers(w) # {}
    PROVE  pc[w] \in Waiting
BY DEF Blockers, Waiting

\* What a transaction that waits holds, by the statement that waits.
LEMMA HeldWhileWaiting ==
    ASSUME IInv, NEW w \in Workers, pc[w] \in Waiting
    PROVE  /\ pc[w] \in {"insert", "update", "gate", "upsert"} =>
                 /\ tx[w].row = Null /\ tx[w].contacts = NoContacts
                 /\ tx[w].entry = Null /\ ~tx[w].shared
           /\ pc[w] = "change" =>
                 /\ tx[w].row = Null /\ tx[w].contacts = NoContacts
                 /\ tx[w].user = req[w].user
           /\ pc[w] = "index" =>
                 tx[w].row # Null /\ tx[w].contacts = NoContacts
           /\ pc[w] = "contacts" => tx[w].wants \in AllChannels
           /\ pc[w] = "fk" => tx[w].row = Null
           /\ pc[w] \in {"change", "index", "contacts", "fk"} =>
                 tx[w].user \in UserIds
<1>1. /\ StageOf(pc[w], req[w], tx[w])
      /\ EffectOf(pc[w], req[w], tx[w], users[tx[w].user])
  BY DEF IInv, TypeInv, Stages, EffectInv
<1>2. CASE pc[w] \in {"insert", "gate", "upsert"}
  BY <1>1, <1>2 DEF StageOf, NoTransaction
<1>3. CASE pc[w] = "update"
  BY <1>1, <1>3 DEF StageOf, EffectOf, PastContacts
<1>4. CASE pc[w] = "change"
  BY <1>1, <1>4, ChangeStage DEF IInv, EffectOf, PastContacts
<1>5. CASE pc[w] = "index"
  <2>1. tx[w].row # Null /\ tx[w].contacts = NoContacts
        /\ tx[w].user = req[w].user
        /\ req[w] \in PatchRequest \cup EmailChange
    BY <1>1, <1>5 DEF StageOf, EffectOf, PastContacts
  <2>2. req[w].user \in UserIds
    BY <2>1 DEF PatchRequest, EmailChange
  <2> QED
    BY <1>5, <2>1, <2>2
<1>6. CASE pc[w] \in {"contacts", "fk"}
  BY <1>1, <1>6, ContactStage DEF IInv, EffectOf
<1> QED
  BY <1>2, <1>3, <1>4, <1>5, <1>6 DEF Waiting

\* A worker that is waited for has a row, contacts, an entry or a key share.
LEMMA BlockersHold ==
    ASSUME IInv, NEW w \in Workers, NEW v \in Blockers(w)
    PROVE  /\ v \in Workers /\ v # w
           /\ \/ tx[v].row # Null \/ tx[v].contacts # NoContacts
              \/ tx[v].entry # Null \/ tx[v].shared
           /\ pc[w] = "change" => tx[v].user = tx[w].user
           /\ pc[w] = "index" =>
                 /\ tx[v].row # Null
                 /\ pc[v] = "index" =>
                       Key(users[tx[v].user]) = Key(tx[w].row)
           /\ pc[w] = "contacts" =>
                 tx[v].user = tx[w].user /\ tx[v].contacts # NoContacts
           /\ pc[w] = "fk" => tx[v].user = tx[w].user /\ tx[v].row # Null
<1>1. v \in Workers /\ v # w /\ pc[w] \in Waiting
  BY OnlyTheseWait DEF Blockers, Others
<1>2. CASE pc[w] \in {"update", "change"}
  <2>1. v \in UpdateBlockers(w)
    BY <1>2 DEF Blockers
  <2>2. v \in RowWriters(req[w].user) \cup KeySharers(req[w].user)
    BY <2>1 DEF UpdateBlockers
  <2> QED
    BY <1>1, <1>2, <2>2, HeldWhileWaiting DEF RowWriters, KeySharers
<1>3. CASE pc[w] = "gate"
  BY <1>1, <1>3 DEF Blockers, GateBlockers, MessageHolders, KeyWriters,
     RowWriters
<1>4. CASE pc[w] \in {"insert", "upsert", "index"}
  BY <1>1, <1>4 DEF Blockers, KeyHolders
<1>5. CASE pc[w] = "contacts"
  <2>1. tx[w].wants \in AllChannels
    BY <1>1, <1>5, HeldWhileWaiting
  <2>2. tx[v].user = tx[w].user /\ tx[v].contacts[tx[w].wants] # Null
    BY <1>5 DEF Blockers, ContactWriters
  <2>3. tx[v].contacts # NoContacts
    BY <2>1, <2>2 DEF NoContacts
  <2> QED
    BY <1>1, <1>5, <2>2, <2>3
<1>6. CASE pc[w] = "fk"
  BY <1>1, <1>6 DEF Blockers, KeyWriters, RowWriters
<1> QED
  BY <1>1, <1>2, <1>3, <1>4, <1>5, <1>6 DEF Waiting

\* Who waits and is waited for is past its first locks.
LEMMA WaitingBlocker ==
    ASSUME IInv, NEW w \in Workers, NEW v \in Blockers(w), Blockers(v) # {}
    PROVE  /\ v \in Workers /\ v # w
           /\ pc[v] \in {"change", "index", "contacts", "fk"}
           /\ pc[w] = "change" => tx[v].user = tx[w].user
           /\ pc[w] = "index" =>
                 /\ tx[v].row # Null /\ pc[v] \in {"index", "contacts"}
                 /\ pc[v] = "index" =>
                       Key(users[tx[v].user]) = Key(tx[w].row)
           /\ pc[w] = "contacts" =>
                 tx[v].user = tx[w].user /\ pc[v] \in {"contacts", "fk"}
           /\ pc[w] = "fk" =>
                 /\ tx[v].user = tx[w].user /\ tx[v].row # Null
                 /\ pc[v] \in {"index", "contacts"}
<1>1. v \in Workers /\ pc[v] \in Waiting
  BY BlockersHold, OnlyTheseWait
<1>2. pc[v] \in {"change", "index", "contacts", "fk"}
  BY <1>1, BlockersHold, HeldWhileWaiting DEF Waiting
<1> QED
  BY <1>1, <1>2, BlockersHold, HeldWhileWaiting DEF Waiting

\* In a deadlock everybody waits for a member that waits.
LEMMA MemberWaits ==
    ASSUME NEW set \in SUBSET Workers, Deadlocked(set), NEW w \in set
    PROVE  \E v \in set : v \in Blockers(w) /\ Blockers(v) # {}
BY DEF Deadlocked

\* Batches of contacts of one user, if no change of a key waits in the index,
\* or if the one who writes the user's row waits for its contacts.
LEMMA ContactCore ==
    ASSUME IInv, NEW set \in SUBSET Workers, Deadlocked(set),
           NEW x \in set, pc[x] \in {"contacts", "fk"},
           \/ \A w \in set : pc[w] # "index"
           \/ pc[x] = "contacts" /\ tx[x].row # Null
    PROVE  \E core \in SUBSET set :
              /\ Deadlocked(core) /\ OfOneUser(core)
              /\ \A w \in core : pc[w] \in {"contacts", "fk"}
<1> DEFINE core == {w \in set : /\ pc[w] \in {"contacts", "fk"}
                                /\ tx[w].user = tx[x].user}
<1>1. tx[x].user \in UserIds
  BY HeldWhileWaiting DEF Waiting
<1>2. ASSUME NEW w \in core
      PROVE  \E v \in core : v \in Blockers(w)
  <2>1. PICK v \in set : v \in Blockers(w) /\ Blockers(v) # {}
    BY MemberWaits
  <2>2. tx[v].user = tx[x].user /\ pc[v] \in {"index", "contacts", "fk"}
    BY <2>1, WaitingBlocker
  <2>3. pc[v] # "index"
    <3>1. SUFFICES ASSUME pc[v] = "index"
                   PROVE  FALSE
      OBVIOUS
    <3>2. tx[v].row # Null
      BY <3>1, HeldWhileWaiting DEF Waiting
    <3>3. v # x /\ tx[x].row # Null
      BY <3>1
    <3> QED
      BY <2>2, <3>2, <3>3 DEF IInv, KeyInv, OneWriter, Writes
  <2> QED
    BY <2>1, <2>2, <2>3
<1>3. x \in core
  OBVIOUS
<1>4. Deadlocked(core)
  BY <1>2, <1>3 DEF Deadlocked
<1>5. OfOneUser(core)
  BY <1>1 DEF OfOneUser
<1> QED
  BY <1>4, <1>5

\* Changes of keys that wait for each other in the index.
LEMMA IndexCore ==
    ASSUME IInv, NEW set \in SUBSET Workers, Deadlocked(set),
           \A w \in set : ~(pc[w] = "contacts" /\ tx[w].row # Null),
           NEW x \in set, pc[x] = "index"
    PROVE  \E core \in SUBSET set :
              /\ Deadlocked(core)
              /\ \A w \in core :
                    /\ pc[w] = "index"
                    /\ \E v \in core :
                          /\ tx[v].user # tx[w].user
                          /\ Key(users[tx[v].user]) = Key(tx[w].row)
<1> DEFINE core == {w \in set : pc[w] = "index"}
<1>1. ASSUME NEW w \in core
      PROVE  \E v \in core :
                /\ v \in Blockers(w) /\ tx[v].user # tx[w].user
                /\ Key(users[tx[v].user]) = Key(tx[w].row)
  <2>1. PICK v \in set : v \in Blockers(w) /\ Blockers(v) # {}
    BY MemberWaits
  <2>2. v # w /\ pc[v] = "index" /\ Key(users[tx[v].user]) = Key(tx[w].row)
    BY <2>1, WaitingBlocker
  <2>3. tx[v].row # Null /\ tx[w].row # Null
    BY <2>2, HeldWhileWaiting DEF Waiting
  <2>4. tx[v].user # tx[w].user
    BY <2>2, <2>3 DEF IInv, KeyInv, OneWriter, Writes
  <2> QED
    BY <2>1, <2>2, <2>4
<1>2. Deadlocked(core)
  BY <1>1 DEF Deadlocked
<1> QED
  BY <1>1, <1>2

\* Changes of the address of one user, past the gate.
LEMMA ChangeCore ==
    ASSUME IInv, NEW set \in SUBSET Workers, Deadlocked(set),
           \A w \in set : pc[w] \notin {"index", "contacts", "fk"}
    PROVE  \E core \in SUBSET set :
              /\ Deadlocked(core) /\ OfOneUser(core)
              /\ \A w \in core : pc[w] = "change"
<1>1. ASSUME NEW w \in set
      PROVE  \E v \in set :
                /\ v \in Blockers(w) /\ pc[v] = "change"
                /\ pc[w] = "change" => tx[v].user = tx[w].user
  <2>1. PICK v \in set : v \in Blockers(w) /\ Blockers(v) # {}
    BY MemberWaits
  <2> QED
    BY <2>1, WaitingBlocker
<1>2. PICK x \in set : pc[x] = "change"
  BY <1>1 DEF Deadlocked
<1> DEFINE core == {w \in set : pc[w] = "change" /\ tx[w].user = tx[x].user}
<1>3. \A w \in core : \E v \in core : v \in Blockers(w)
  BY <1>1
<1>4. Deadlocked(core)
  BY <1>2, <1>3 DEF Deadlocked
<1>5. OfOneUser(core)
  BY <1>2, HeldWhileWaiting DEF OfOneUser, Waiting
<1> QED
  BY <1>4, <1>5

\* users_db.py:96-183, consumer.py:45-82.  However many writers of however
\* many users run, a deadlock has a core of one of three kinds: address
\* changes of one user that are past the gate, batches of contacts of one
\* user, or users whose new keys are the old keys of one another.
THEOREM DeadlocksAreOfThreeKinds == Spec => []DeadlocksHaveKinds
<1>1. ASSUME IInv, NEW set \in SUBSET Workers, Deadlocked(set)
      PROVE  \E core \in SUBSET set :
                /\ Deadlocked(core)
                /\ \/ OfOneUser(core) /\ \A w \in core : pc[w] = "change"
                   \/ /\ OfOneUser(core)
                      /\ \A w \in core : pc[w] \in {"contacts", "fk"}
                   \/ \A w \in core :
                         /\ pc[w] = "index"
                         /\ \E v \in core :
                               /\ tx[v].user # tx[w].user
                               /\ Key(users[tx[v].user]) = Key(tx[w].row)
  <2>1. CASE \E x \in set : pc[x] = "contacts" /\ tx[x].row # Null
    BY <1>1, <2>1, ContactCore
  <2>2. CASE /\ ~\E x \in set : pc[x] = "contacts" /\ tx[x].row # Null
             /\ \E x \in set : pc[x] = "index"
    BY <1>1, <2>2, IndexCore
  <2>3. CASE /\ \A x \in set : pc[x] # "index"
             /\ \E x \in set : pc[x] \in {"contacts", "fk"}
    BY <1>1, <2>3, ContactCore
  <2>4. CASE \A x \in set : pc[x] \notin {"index", "contacts", "fk"}
    BY <1>1, <2>4, ChangeCore
  <2> QED
    BY <2>1, <2>2, <2>3, <2>4
<1>2. IInv => DeadlocksHaveKinds
  BY <1>1 DEF DeadlocksHaveKinds
<1> QED
  BY <1>2, IInvHolds, PTL
=============================================================================
