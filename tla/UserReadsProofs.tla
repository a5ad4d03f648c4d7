--------------------------- MODULE UserReadsProofs ---------------------------
(***************************************************************************)
(* Proofs about UserReads, for every set of users, requests, queries and   *)
(* writers.                                                                *)
(***************************************************************************)
EXTENDS UserReads, UserTablesProofs, FiniteSetTheorems

\* The operators of the registry are the ones of the tables.
LEMMA RegistryOperators ==
    /\ \A row : Registry!Key(row) = Key(row)
    /\ \A kept, batch : Registry!Merge(kept, batch) = Merge(kept, batch)
    /\ \A given, email : Registry!Batch(given, email) = Batch(given, email)
    /\ \A r : Registry!ImportedUser(r) = ImportedUser(r)
    /\ \A r : Registry!CreatedUser(r) = CreatedUser(r)
    /\ \A row, r : Registry!RefreshedUser(row, r) = RefreshedUser(row, r)
    /\ \A row, r : Registry!ReaddressedUser(row, r) = ReaddressedUser(row, r)
    /\ \A row, r, mark :
          Registry!PatchedUser(row, r, mark) = PatchedUser(row, r, mark)
    /\ Registry!NoContacts = NoContacts
BY DEF Registry!Key, Key, Registry!Merge, Merge, Registry!Batch, Batch,
       Registry!ImportedUser, ImportedUser, Registry!CreatedUser,
       CreatedUser, Registry!RefreshedUser, RefreshedUser,
       Registry!ReaddressedUser, ReaddressedUser, Registry!PatchedUser,
       PatchedUser, Registry!NoContacts, NoContacts, Registry!Coalesce,
       Coalesce, Registry!AllChannels, AllChannels, Registry!EmailChannel,
       EmailChannel

-----------------------------------------------------------------------------
(***************************************************************************)
(* The tables.                                                             *)
(***************************************************************************)
TablesTyped ==
    /\ users \in [UserIds -> User \cup {Null}]
    /\ contacts \in [UserIds -> Contacts]
    /\ changelog \in Seq(Entry)
    /\ created \in [UserIds -> 0 .. MaxTransactions]
    /\ changed \in Seq(1 .. MaxTransactions)
    /\ Len(changed) = Len(changelog)
    /\ clock \in 0 .. MaxTransactions
    /\ writer \in [Writers -> Transaction \cup {Null}]
    /\ overlapped \subseteq UserIds
    /\ misled \subseteq Requests

KnownUsers == {u \in UserIds : users[u] # Null}

\* now() of every transaction is past.
TimesPast ==
    /\ \A w \in Writers : writer[w] # Null => writer[w].since \in 1 .. clock
    /\ \A i \in DOMAIN changed : changed[i] <= clock

\* The contact is the address, unless a PATCH has put an older one back.
ContactsFollow ==
    \A u \in KnownUsers :
        ContactPutBack(u) \/ contacts[u][EmailChannel] = users[u].email

IsLastOf(i, u, log) ==
    /\ i \in DOMAIN log /\ log[i].user = u
    /\ \A j \in DOMAIN log : log[j].user = u => j <= i

\* The changelog of whom an administrator has moved ends with the address,
\* unless a PATCH has put an older one back.
AuditInv ==
    \A u \in KnownUsers :
        users[u].email_source = "admin" /\ ~AddressPutBack(u) =>
        \E i \in DOMAIN changelog :
            IsLastOf(i, u, changelog) /\ changelog[i].new = users[u].email

\* The entry i about u is not newer than the ones after it, nor than the ones
\* that open transactions may add.
InOrder(i, u) ==
    /\ \A j \in DOMAIN changelog :
          changelog[j].user = u /\ i < j => changed[i] <= changed[j]
    /\ \A w \in Writers :
          writer[w] # Null /\ Readdresses(writer[w].req, u)
            => changed[i] <= writer[w].since

TimesInOrder ==
    \A u \in UserIds \ overlapped, i \in DOMAIN changelog :
        changelog[i].user = u => InOrder(i, u)

TablesInv ==
    /\ TablesTyped /\ TimesPast /\ IsFiniteSet(KnownUsers)
    /\ ContactsFollow /\ AuditInv /\ TimesInOrder

-----------------------------------------------------------------------------
(***************************************************************************)
(* What a transaction t does: it stores one row and an address for the     *)
(* contact, and adds an entry about the row unless that keeps an address   *)
(* that an administrator gave; or it puts an address back.                 *)
(***************************************************************************)
Stores(u, row, given, email) ==
    /\ users' = [users EXCEPT ![u] = row]
    /\ contacts' = [contacts EXCEPT
                      ![u] = Merge(contacts[u], Batch(given, email))]

KeepsAddress(u, row) ==
    row.email_source = "admin" =>
        /\ users[u] # Null /\ users[u].email_source = "admin"
        /\ users[u].email = row.email

AddsEntryOf(r, u, row) ==
    /\ Readdresses(r, u)
    /\ \E e \in Entry : /\ e.user = u /\ e.new = row.email
                        /\ changelog' = Append(changelog, e)

PutsContactBack(t, u) == PutsBack(t) /\ t.req.user = u /\ t.req.email = Null
PutsAddressBack(t, u) == PutsBack(t) /\ t.req.user = u /\ t.req.email # Null

Effect(t, u, row, given, email) ==
    /\ Stores(u, row, given, email)
    /\ email = row.email \/ PutsContactBack(t, u)
    /\ \/ /\ changelog' = changelog
          /\ KeepsAddress(u, row) \/ PutsAddressBack(t, u)
       \/ AddsEntryOf(t.req, u, row)

\* What a request does that is served at once.
WholeEffect(r, u, row, given) ==
    /\ Stores(u, row, given, row.email)
    /\ \/ changelog' = changelog /\ KeepsAddress(u, row)
       \/ AddsEntryOf(r, u, row)

LEMMA StoreStores ==
    ASSUME NEW u, NEW row, NEW given, Registry!Store(u, row, given)
    PROVE  Stores(u, row, given, row.email)
BY RegistryOperators DEF Registry!Store, Stores

LEMMA CreateEffect ==
    ASSUME NEW r \in CreateRequest, Registry!Create(r)
    PROVE  \E u \in UserIds, row \in User, given \in Contacts :
              WholeEffect(r, u, row, given)
<1>1. PICK u \in UserIds : Registry!Store(u, CreatedUser(r), r.contacts)
  BY RegistryOperators DEF Registry!Create
<1>2. changelog' = changelog
  BY DEF Registry!Create
<1>3. CreatedUser(r).email_source = "crm" /\ r.contacts \in Contacts
  BY DEF CreatedUser, CreateRequest
<1>4. WholeEffect(r, u, CreatedUser(r), r.contacts)
  BY <1>1, <1>2, <1>3, StoreStores DEF WholeEffect, KeepsAddress
<1> QED
  BY <1>3, <1>4, CreatedUserType

LEMMA UpsertEffect ==
    ASSUME TablesTyped, NEW r \in Upserted, Registry!Upsert(r)
    PROVE  \E u \in UserIds, row \in User, given \in Contacts :
              WholeEffect(r, u, row, given)
<1>1. changelog' = changelog /\ r.contacts \in Contacts
  BY DEF Registry!Upsert, Upserted
<1>2. CASE \E u \in UserIds : Registry!Store(u, ImportedUser(r), r.contacts)
  <2>1. PICK u \in UserIds : Registry!Store(u, ImportedUser(r), r.contacts)
    BY <1>2
  <2>2. ImportedUser(r).email_source = "crm"
    BY DEF ImportedUser
  <2>3. WholeEffect(r, u, ImportedUser(r), r.contacts)
    BY <1>1, <2>1, <2>2, StoreStores DEF WholeEffect, KeepsAddress
  <2> QED
    BY <1>1, <2>3, ImportedUserType
<1>3. CASE \E u \in UserIds :
              /\ users[u] # Null
              /\ Registry!Store(u, RefreshedUser(users[u], r), r.contacts)
  <2>1. PICK u \in UserIds :
              /\ users[u] # Null
              /\ Registry!Store(u, RefreshedUser(users[u], r), r.contacts)
    BY <1>3
  <2>2. users[u] \in User
    BY <2>1 DEF TablesTyped
  <2>3. RefreshedUser(users[u], r).email_source = "crm"
    BY <2>2 DEF RefreshedUser, User
  <2>4. WholeEffect(r, u, RefreshedUser(users[u], r), r.contacts)
    BY <1>1, <2>1, <2>3, StoreStores DEF WholeEffect, KeepsAddress
  <2> QED
    BY <1>1, <2>2, <2>4, RefreshedUserType
<1> QED
  BY <1>2, <1>3, RegistryOperators DEF Registry!Upsert, Registry!Exists

LEMMA PatchEffect ==
    ASSUME TablesTyped, NEW r \in PatchRequest, Registry!Patch(r)
    PROVE  \E u \in UserIds, row \in User, given \in Contacts :
              WholeEffect(r, u, row, given)
<1> DEFINE u == r.user
           moves == r.email # Null /\ r.email # users[u].email
           row == PatchedUser(users[u], r, moves)
<1>1. u \in UserIds /\ r.op = "patch" /\ r.contacts \in Contacts
  BY DEF PatchRequest
<1>2. users[u] # Null /\ users[u] \in User
  BY <1>1 DEF Registry!Patch, Registry!Exists, TablesTyped
<1>3. row \in User
  BY <1>2, PatchedUserType
<1>4. Stores(u, row, r.contacts, row.email)
  BY RegistryOperators, StoreStores DEF Registry!Patch
<1>5. CASE moves
  <2> DEFINE e == [user |-> u, old |-> users[u].email, new |-> r.email,
                   id |-> Null]
  <2>1. e \in Entry
    BY <1>1, <1>2, <1>5 DEF Entry, User, PatchRequest
  <2>2. changelog' = Append(changelog, e)
    BY <1>5 DEF Registry!Patch
  <2>3. row.email = r.email
    BY <1>5 DEF PatchedUser, Coalesce
  <2>4. Readdresses(r, u)
    BY <1>1, <1>5 DEF Readdresses
  <2>5. e.user = u /\ e.new = row.email
    BY <2>3
  <2> HIDE DEF e, row
  <2>6. AddsEntryOf(r, u, row)
    BY <2>1, <2>2, <2>4, <2>5 DEF AddsEntryOf
  <2> QED
    BY <1>1, <1>3, <1>4, <2>6 DEF WholeEffect
<1>6. CASE ~moves
  <2>1. changelog' = changelog
    BY <1>6 DEF Registry!Patch
  <2>2. KeepsAddress(u, row)
    BY <1>2, <1>6 DEF KeepsAddress, PatchedUser, Coalesce
  <2> HIDE DEF row
  <2> QED
    BY <1>1, <1>3, <1>4, <2>1, <2>2 DEF WholeEffect
<1> QED
  BY <1>5, <1>6

LEMMA ChangeEffect ==
    ASSUME TablesTyped, NEW r \in EmailChange, Registry!ChangeAddress(r)
    PROVE  \E u \in UserIds, row \in User, given \in Contacts :
              WholeEffect(r, u, row, given)
<1> DEFINE u == r.user
           row == ReaddressedUser(users[u], r)
           e == [user |-> u, old |-> r.old, new |-> r.new, id |-> r.id]
<1>1. u \in UserIds /\ r.op = "email_change" /\ e \in Entry
  BY DEF EmailChange, Entry
<1>2. users[u] # Null /\ users[u] \in User
  BY <1>1 DEF Registry!ChangeAddress, Registry!Exists, TablesTyped
<1>3. row \in User /\ row.email = r.new
  BY <1>2, ReaddressedUserType DEF ReaddressedUser, User
<1>4. Stores(u, row, NoContacts, row.email) /\ changelog' = Append(changelog, e)
  BY RegistryOperators, StoreStores DEF Registry!ChangeAddress
<1>5. NoContacts \in Contacts
  BY DEF NoContacts, Contacts
<1>6. e.user = u /\ e.new = row.email /\ Readdresses(r, u)
  BY <1>1, <1>3 DEF Readdresses
<1> HIDE DEF e, row
<1>7. AddsEntryOf(r, u, row)
  BY <1>1, <1>4, <1>6 DEF AddsEntryOf
<1> QED
  BY <1>1, <1>3, <1>4, <1>5, <1>7 DEF WholeEffect

\* A PATCH that has read the address before.
LEMMA PatchAfterEffect ==
    ASSUME TablesTyped, NEW t \in Transaction, ReadsAddress(t.req),
           PatchAfter(t.req, t.seen)
    PROVE  \E u \in UserIds, row \in User, given \in Contacts,
              email \in Emails : Effect(t, u, row, given, email)
<1> DEFINE r == t.req
           u == r.user
           marks == r.email # Null /\ t.seen # r.email
           row == PatchedUser(users[u], r, marks)
           email == IF SetsNothing(r) THEN t.seen ELSE row.email
<1>1. /\ r \in PatchRequest /\ u \in UserIds /\ r.contacts \in Contacts
      /\ t.seen \in Emails /\ r.op = "patch"
      /\ r.email \in Emails \cup {Null}
  BY RequestKinds
     DEF ReadsAddress, Transaction, PatchAfter, PatchRequest
<1>2. users[u] # Null /\ users[u] \in User
  BY <1>1 DEF PatchAfter, Registry!Exists, TablesTyped
<1>3. row \in User /\ row.email = Coalesce(r.email, users[u].email)
  BY <1>1, <1>2, PatchedUserType DEF PatchedUser
<1>4. email \in Emails /\ Stores(u, row, r.contacts, email)
  <2>1. email \in Emails
    BY <1>1, <1>3 DEF User
  <2> QED
    BY <2>1, RegistryOperators DEF PatchAfter, Stores
<1>5. email = row.email \/ PutsContactBack(t, u)
  <2>1. CASE SetsNothing(r) /\ t.seen # users[u].email
    BY <2>1 DEF PutsContactBack, PutsBack, SetsNothing
  <2>2. CASE SetsNothing(r) /\ t.seen = users[u].email
    BY <1>3, <2>2 DEF SetsNothing, Coalesce
  <2>3. CASE ~SetsNothing(r)
    BY <2>3
  <2> QED
    BY <2>1, <2>2, <2>3
<1>6. CASE marks
  <2> DEFINE e == [user |-> u, old |-> t.seen, new |-> r.email, id |-> Null]
  <2>1. e \in Entry /\ e.user = u /\ e.new = row.email
    BY <1>1, <1>3, <1>6 DEF Entry, Coalesce
  <2>2. changelog' = Append(changelog, e)
    BY <1>6 DEF PatchAfter
  <2>3. Readdresses(r, u)
    BY <1>1, <1>6 DEF Readdresses
  <2> HIDE DEF e, row
  <2>4. AddsEntryOf(r, u, row)
    BY <2>1, <2>2, <2>3 DEF AddsEntryOf
  <2> HIDE DEF email
  <2> QED
    BY <1>1, <1>3, <1>4, <1>5, <2>4 DEF Effect
<1>7. CASE ~marks
  <2>1. changelog' = changelog /\ row.email_source = users[u].email_source
    BY <1>2, <1>7 DEF PatchAfter, PatchedUser
  <2>2. CASE r.email = Null \/ users[u].email = t.seen
    <3>1. row.email = users[u].email
      BY <1>3, <1>7, <2>2 DEF Coalesce
    <3>2. KeepsAddress(u, row)
      BY <1>2, <2>1, <3>1 DEF KeepsAddress
    <3> HIDE DEF email, row
    <3> QED
      BY <1>1, <1>3, <1>4, <1>5, <2>1, <3>2 DEF Effect
  <2>3. CASE r.email # Null /\ users[u].email # t.seen
    <3>1. PutsAddressBack(t, u)
      BY <1>7, <2>3 DEF PutsAddressBack, PutsBack
    <3> HIDE DEF email, row
    <3> QED
      BY <1>1, <1>3, <1>4, <1>5, <2>1, <3>1 DEF Effect
  <2> QED
    BY <2>2, <2>3
<1> QED
  BY <1>6, <1>7

LEMMA ServeEffect ==
    ASSUME TablesTyped, NEW t \in Transaction, Serve(t)
    PROVE  \E u \in UserIds, row \in User, given \in Contacts,
              email \in Emails : Effect(t, u, row, given, email)
<1>1. CASE ReadsAddress(t.req)
  BY <1>1, PatchAfterEffect DEF Serve
<1>2. CASE ~ReadsAddress(t.req)
  <2>1. t.req \in Requests
    BY DEF Transaction
  <2>2. PICK u \in UserIds, row \in User, given \in Contacts :
            WholeEffect(t.req, u, row, given)
    BY <1>2, <2>1, CreateEffect, UpsertEffect, PatchEffect, ChangeEffect,
       RequestKinds DEF Serve, Registry!Serve
  <2>3. Effect(t, u, row, given, row.email) /\ row.email \in Emails
    BY <2>2 DEF WholeEffect, Effect, User
  <2> QED
    BY <2>3
<1> QED
  BY <1>1, <1>2

-----------------------------------------------------------------------------
(***************************************************************************)
(* A commit keeps the invariant of the tables.                             *)
(***************************************************************************)
\* A commit of w, whose transaction stores a row of u.
CommitStores(w, u, row, given, email) ==
    /\ Commit(w)
    /\ Effect(writer[w], u, row, given, email)

LEMMA CommitHasEffect ==
    ASSUME TablesInv, NEW w \in Writers, Commit(w)
    PROVE  \E u \in UserIds, row \in User, given \in Contacts,
              email \in Emails : CommitStores(w, u, row, given, email)
<1>1. writer[w] \in Transaction
  BY DEF TablesInv, TablesTyped, Commit
<1> QED
  BY <1>1, ServeEffect DEF CommitStores, Commit, TablesInv

\* The entry of a commit, if it adds one, carries the time of its begin.
LEMMA CommitChanges ==
    ASSUME TablesInv, NEW w \in Writers, NEW u \in UserIds, NEW row \in User,
           NEW given \in Contacts, NEW email \in Emails,
           CommitStores(w, u, row, given, email)
    PROVE  /\ writer[w].since \in 1 .. clock
           /\ \/ /\ changelog' = changelog /\ changed' = changed
                 /\ KeepsAddress(u, row) \/ PutsAddressBack(writer[w], u)
              \/ /\ Readdresses(writer[w].req, u)
                 /\ \E e \in Entry : /\ e.user = u /\ e.new = row.email
                                     /\ changelog' = Append(changelog, e)
                 /\ changed' = Append(changed, writer[w].since)
<1>1. writer[w].since \in 1 .. clock /\ changelog \in Seq(Entry)
  BY DEF TablesInv, TablesTyped, TimesPast, CommitStores, Commit
<1>2. \A e \in Entry : Append(changelog, e) # changelog
  BY <1>1
<1> QED
  BY <1>1, <1>2
     DEF CommitStores, Commit, Effect, AddsEntryOf, ChangedAt

LEMMA CommitKeepsTypes ==
    ASSUME TablesInv, NEW w \in Writers, NEW u \in UserIds, NEW row \in User,
           NEW given \in Contacts, NEW email \in Emails,
           CommitStores(w, u, row, given, email)
    PROVE  TablesTyped' /\ TimesPast'
<1> USE DEF TablesInv, TablesTyped, TimesPast
<1>1. /\ clock' = clock /\ writer' = [writer EXCEPT ![w] = Null]
      /\ created' = CreatedAt(writer[w].since)
      /\ writer[w].since \in 1 .. clock
  BY CommitChanges DEF CommitStores, Commit
<1>2. users' \in [UserIds -> User \cup {Null}]
  BY DEF CommitStores, Effect, Stores
<1>3. contacts' \in [UserIds -> Contacts]
  <2>1. Merge(contacts[u], Batch(given, email)) \in Contacts
    BY MergeType, BatchOfContacts
  <2> QED
    BY <2>1 DEF CommitStores, Effect, Stores
<1>4. /\ changelog' \in Seq(Entry) /\ changed' \in Seq(1 .. MaxTransactions)
      /\ Len(changed') = Len(changelog')
      /\ \A i \in DOMAIN changed' : changed'[i] <= clock
  <2>1. CASE changelog' = changelog /\ changed' = changed
    BY <2>1
  <2>2. CASE /\ \E e \in Entry : changelog' = Append(changelog, e)
             /\ changed' = Append(changed, writer[w].since)
    <3>1. PICK e \in Entry : changelog' = Append(changelog, e)
      BY <2>2
    <3>2. writer[w].since \in 1 .. MaxTransactions
      BY <1>1, ReadBoundsAreTyped
    <3> QED
      BY <1>1, <2>2, <3>1, <3>2
  <2> QED
    BY <2>1, <2>2, CommitChanges
<1>5. created' \in [UserIds -> 0 .. MaxTransactions]
  BY <1>1, ReadBoundsAreTyped DEF CreatedAt
<1>6. overlapped' \subseteq UserIds /\ misled' \subseteq Requests
  BY DEF CommitStores, Commit, Remember, Transaction
<1> QED
  BY <1>1, <1>2, <1>3, <1>4, <1>5, <1>6

LEMMA CommitKeepsContacts ==
    ASSUME TablesInv, NEW w \in Writers, NEW u \in UserIds, NEW row \in User,
           NEW given \in Contacts, NEW email \in Emails,
           CommitStores(w, u, row, given, email)
    PROVE  ContactsFollow' /\ IsFiniteSet(KnownUsers')
<1>1. /\ users' = [users EXCEPT ![u] = row]
      /\ contacts' = [contacts EXCEPT
                        ![u] = Merge(contacts[u], Batch(given, email))]
      /\ users \in [UserIds -> User \cup {Null}]
      /\ contacts \in [UserIds -> Contacts]
      /\ misled' = misled \cup {r \in {writer[w].req} : PutsBack(writer[w])}
  BY DEF CommitStores, Commit, Remember, Effect, Stores, TablesInv,
     TablesTyped
<1>2. KnownUsers' \subseteq KnownUsers \cup {u}
  BY <1>1 DEF KnownUsers
<1>3. IsFiniteSet(KnownUsers')
  BY <1>2, FS_AddElement, FS_Subset DEF TablesInv
<1>4. Merge(contacts[u], Batch(given, email))[EmailChannel] = email
  <2>1. email # Null
    BY NullIsNoValue
  <2>2. Batch(given, email)[EmailChannel] = email
    BY BatchOfContacts
  <2>3. EmailChannel \in AllChannels
    BY DEF AllChannels
  <2> QED
    BY <2>1, <2>2, <2>3 DEF Merge, Coalesce
<1>5. ContactPutBack(u)' \/ email = row.email
  BY <1>1 DEF CommitStores, Effect, PutsContactBack, ContactPutBack
<1>6. \A v : ContactPutBack(v) => ContactPutBack(v)'
  BY <1>1 DEF ContactPutBack
<1>7. ContactsFollow'
  BY <1>1, <1>4, <1>5, <1>6 DEF ContactsFollow, KnownUsers, TablesInv
<1> QED
  BY <1>3, <1>7

LEMMA CommitKeepsAudit ==
    ASSUME TablesInv, NEW w \in Writers, NEW u \in UserIds, NEW row \in User,
           NEW given \in Contacts, NEW email \in Emails,
           CommitStores(w, u, row, given, email)
    PROVE  AuditInv'
<1>1. /\ users' = [users EXCEPT ![u] = row] /\ changelog \in Seq(Entry)
      /\ users \in [UserIds -> User \cup {Null}]
      /\ misled' = misled \cup {r \in {writer[w].req} : PutsBack(writer[w])}
  BY DEF CommitStores, Commit, Remember, Effect, Stores, TablesInv,
     TablesTyped
<1> SUFFICES ASSUME NEW v \in UserIds, users'[v] # Null,
                    users'[v].email_source = "admin", ~AddressPutBack(v)'
             PROVE  \E i \in DOMAIN changelog' :
                       /\ IsLastOf(i, v, changelog')
                       /\ changelog'[i].new = users'[v].email
  BY DEF AuditInv, KnownUsers
<1> USE DEF AddressPutBack
<1>2. ~AddressPutBack(v)
  BY <1>1
<1> HIDE DEF AddressPutBack
<1>3. CASE /\ changelog' = changelog
           /\ KeepsAddress(u, row) \/ PutsAddressBack(writer[w], u)
  <2>1. v = u => KeepsAddress(u, row)
    BY <1>1, <1>3 DEF PutsAddressBack, AddressPutBack
  <2>2. /\ users[v] # Null /\ users[v].email_source = "admin"
        /\ users'[v].email = users[v].email
    BY <1>1, <2>1 DEF KeepsAddress
  <2> QED
    BY <1>3, <1>2, <2>2 DEF AuditInv, KnownUsers, TablesInv
<1>4. ASSUME NEW e \in Entry, e.user = u, e.new = row.email,
             changelog' = Append(changelog, e)
      PROVE  \E i \in DOMAIN changelog' :
                       /\ IsLastOf(i, v, changelog')
                       /\ changelog'[i].new = users'[v].email
  <2>1. /\ changelog' \in Seq(Entry)
        /\ Len(changelog') = Len(changelog) + 1
        /\ changelog'[Len(changelog')] = e
        /\ \A i \in 1 .. Len(changelog) : changelog'[i] = changelog[i]
    BY <1>1, <1>4
  <2>2. CASE v = u
    <3>1. IsLastOf(Len(changelog'), v, changelog')
      BY <1>1, <1>4, <2>1, <2>2 DEF IsLastOf
    <3> QED
      BY <1>1, <1>4, <2>1, <2>2, <3>1 DEF IsLastOf
  <2>3. CASE v # u
    <3>1. users'[v] = users[v]
      BY <1>1, <2>3
    <3>2. PICK i \in DOMAIN changelog :
              /\ IsLastOf(i, v, changelog)
              /\ changelog[i].new = users[v].email
      BY <1>2, <3>1 DEF AuditInv, KnownUsers, TablesInv
    <3>3. i \in DOMAIN changelog' /\ changelog'[i] = changelog[i]
      BY <1>1, <2>1
    <3>4. IsLastOf(i, v, changelog')
      BY <1>1, <1>4, <2>1, <2>3, <3>2, <3>3 DEF IsLastOf
    <3> QED
      BY <3>1, <3>2, <3>3, <3>4
  <2> QED
    BY <2>2, <2>3
<1> QED
  BY <1>3, <1>4, CommitChanges

LEMMA CommitKeepsOrder ==
    ASSUME TablesInv, NEW w \in Writers, NEW u \in UserIds, NEW row \in User,
           NEW given \in Contacts, NEW email \in Emails,
           CommitStores(w, u, row, given, email)
    PROVE  TimesInOrder'
<1>1. /\ changelog \in Seq(Entry) /\ changed \in Seq(1 .. MaxTransactions)
      /\ Len(changed) = Len(changelog)
      /\ writer \in [Writers -> Transaction \cup {Null}]
      /\ writer' = [writer EXCEPT ![w] = Null] /\ writer[w] # Null
      /\ overlapped \subseteq overlapped'
      /\ overlapped' \subseteq UserIds
  BY DEF TablesInv, TablesTyped, CommitStores, Commit, Remember
<1>2. \A v \in Writers :
        writer'[v] # Null => v # w /\ writer'[v] = writer[v]
  BY <1>1
<1>3. CASE changelog' = changelog /\ changed' = changed
  BY <1>1, <1>2, <1>3 DEF TimesInOrder, InOrder, TablesInv
<1>4. ASSUME NEW e \in Entry, e.user = u, Readdresses(writer[w].req, u),
             changelog' = Append(changelog, e),
             changed' = Append(changed, writer[w].since)
      PROVE  TimesInOrder'
  <2> DEFINE last == Len(changelog) + 1
  <2>1. /\ writer[w].since \in 1 .. clock
        /\ \A v \in Writers : writer[v] # Null => writer[v].since \in Nat
    BY CommitChanges DEF TablesInv, TimesPast, TablesTyped
  <2>2. /\ DOMAIN changelog' = 1 .. last /\ last \in Nat
        /\ changelog'[last] = e /\ changed'[last] = writer[w].since
        /\ \A i \in DOMAIN changelog : /\ i \in Nat /\ i < last
                                       /\ changelog'[i] = changelog[i]
                                       /\ changed'[i] = changed[i]
        /\ DOMAIN changelog = 1 .. Len(changelog)
    BY <1>1, <1>4, <2>1, ReadBoundsAreTyped DEF TablesInv, TablesTyped
  <2> SUFFICES ASSUME NEW x \in UserIds, x \notin overlapped',
                      NEW i \in 1 .. last, changelog'[i].user = x
               PROVE  /\ \A j \in 1 .. last :
                            changelog'[j].user = x /\ i < j
                              => changed'[i] <= changed'[j]
                      /\ \A v \in Writers :
                            writer'[v] # Null /\ Readdresses(writer'[v].req, x)
                              => changed'[i] <= writer'[v].since
    BY <2>2 DEF TimesInOrder, InOrder, Readdresses
  <2>3. x \notin overlapped
    BY <1>1
  <2>4. CASE i = last
    <3>1. x = u
      BY <1>4, <2>2, <2>4
    <3>2. \A v \in Writers \ {w} :
             writer[v] # Null /\ Readdresses(writer[v].req, x)
               => writer[w].since <= writer[v].since
      <4>1. \A v \in Writers \ {w} :
               writer[v] # Null /\ Readdresses(writer[v].req, x)
                 => ~(writer[v].since < writer[w].since)
        BY <1>4, <3>1 DEF CommitStores, Commit, Remember
      <4> QED
        BY <2>1, <4>1
    <3> QED
      BY <1>2, <2>2, <2>4, <3>2
  <2>5. CASE i # last
    <3>1. i \in DOMAIN changelog /\ changelog[i].user = x
          /\ changed'[i] = changed[i]
      BY <2>2, <2>5
    <3>2. InOrder(i, x)
      BY <2>3, <3>1 DEF TimesInOrder, TablesInv
    <3>3. \A j \in 1 .. last : changelog'[j].user = x /\ i < j
                                 => changed'[i] <= changed'[j]
      <4>1. ASSUME NEW j \in 1 .. last, changelog'[j].user = x, i < j
            PROVE  changed'[i] <= changed'[j]
        <5>1. CASE j = last
          BY <1>1, <1>4, <2>2, <3>1, <3>2, <4>1, <5>1 DEF InOrder
        <5>2. CASE j # last
          <6>1. j \in DOMAIN changelog /\ changelog[j].user = x
                /\ changed'[j] = changed[j]
            BY <2>2, <4>1, <5>2
          <6> QED
            BY <3>1, <3>2, <4>1, <6>1 DEF InOrder
        <5> QED
          BY <5>1, <5>2
      <4> QED
        BY <4>1
    <3> QED
      BY <1>2, <3>1, <3>2, <3>3 DEF InOrder
  <2> QED
    BY <2>4, <2>5
<1> QED
  BY <1>3, <1>4, CommitChanges

-----------------------------------------------------------------------------
(***************************************************************************)
(* The other steps of writers, and the reader, leave the rows alone.       *)
(***************************************************************************)
LEMMA SameRowsKeepTables ==
    ASSUME TablesInv, UNCHANGED <<tables, overlapped, misled>>, TablesTyped',
           TimesPast', TimesInOrder'
    PROVE  TablesInv'
<1>1. KnownUsers' = KnownUsers
  BY DEF KnownUsers, tables
<1> QED
  BY <1>1 DEF TablesInv, tables, ContactsFollow, ContactPutBack, AuditInv,
     AddressPutBack

LEMMA BeginKeepsTables ==
    ASSUME TablesInv, NEW w \in Writers, NEW r \in Requests, Begin(w, r)
    PROVE  TablesInv'
<1> DEFINE t == [req |-> r, since |-> clock + 1, seen |-> Null]
<1>1. /\ UNCHANGED <<tables, overlapped, misled>>
      /\ clock' = clock + 1 /\ clock' \in 1 .. MaxTransactions
      /\ writer' = [writer EXCEPT ![w] = t]
      /\ t \in Transaction /\ t.since = clock'
      /\ writer \in [Writers -> Transaction \cup {Null}]
  BY ReadBoundsAreTyped
     DEF Begin, history, TablesInv, TablesTyped, Transaction
<1> HIDE DEF t
<1>2. TablesTyped'
  BY <1>1 DEF TablesInv, TablesTyped, tables
<1>3. TimesPast'
  <2>1. clock \in Nat /\ \A n \in 1 .. clock : n \in 1 .. clock'
    BY <1>1, ReadBoundsAreTyped DEF TablesInv, TablesTyped
  <2>2. \A v \in Writers : writer'[v] # Null => writer'[v].since \in 1 .. clock'
    BY <1>1, <2>1 DEF TablesInv, TimesPast
  <2>3. \A i \in DOMAIN changed : changed[i] \in Nat /\ changed[i] <= clock
    BY ReadBoundsAreTyped DEF TablesInv, TablesTyped, TimesPast
  <2> QED
    BY <1>1, <2>1, <2>2, <2>3 DEF TimesPast, tables
<1>4. TimesInOrder'
  <2>1. ASSUME NEW u \in UserIds \ overlapped, NEW i \in DOMAIN changelog,
               changelog[i].user = u, NEW v \in Writers,
               writer'[v] # Null, Readdresses(writer'[v].req, u)
        PROVE  changed[i] <= writer'[v].since
    <3>1. CASE v = w
      <4>1. writer'[v].since = clock + 1
        BY <1>1, <3>1
      <4>2. i \in DOMAIN changed /\ changed[i] \in Nat /\ clock \in Nat
        BY ReadBoundsAreTyped DEF TablesInv, TablesTyped
      <4> QED
        BY <4>1, <4>2 DEF TablesInv, TimesPast
    <3>2. CASE v # w
      BY <1>1, <2>1, <3>2 DEF TablesInv, TimesInOrder, InOrder
    <3> QED
      BY <3>1, <3>2
  <2> QED
    BY <1>1, <2>1 DEF TablesInv, TimesInOrder, InOrder, Readdresses, tables
<1> QED
  BY <1>1, <1>2, <1>3, <1>4, SameRowsKeepTables

LEMMA LookKeepsTables ==
    ASSUME TablesInv, NEW w \in Writers, Look(w)
    PROVE  TablesInv'
<1> DEFINE email == users[writer[w].req.user].email
<1>1. /\ UNCHANGED <<tables, overlapped, misled>> /\ clock' = clock
      /\ writer' = [writer EXCEPT ![w].seen = email]
      /\ writer \in [Writers -> Transaction \cup {Null}]
      /\ writer[w] \in Transaction /\ email \in Emails
  <2>1. writer[w].req \in PatchRequest /\ writer[w] \in Transaction
    BY RequestKinds
       DEF Look, ReadsAddress, TablesInv, TablesTyped, Transaction
  <2>2. users[writer[w].req.user] \in User
    BY <2>1 DEF Look, TablesInv, TablesTyped, PatchRequest
  <2> QED
    BY <2>1, <2>2 DEF Look, history, TablesInv, TablesTyped, User
<1> HIDE DEF email
<1>2. /\ writer' \in [Writers -> Transaction \cup {Null}]
      /\ \A v \in Writers : writer'[v] # Null =>
            /\ writer[v] # Null /\ writer'[v].since = writer[v].since
            /\ writer'[v].req = writer[v].req
  <2>1. writer[w] # Null
    BY DEF Look
  <2> QED
    BY <1>1, <2>1 DEF Transaction
<1>3. TablesTyped' /\ TimesPast'
  BY <1>1, <1>2 DEF TablesInv, TablesTyped, TimesPast, tables
<1>4. TimesInOrder'
  BY <1>1, <1>2 DEF TablesInv, TimesInOrder, InOrder, Readdresses, tables
<1> QED
  BY <1>1, <1>3, <1>4, SameRowsKeepTables

LEMMA RollbackKeepsTables ==
    ASSUME TablesInv, NEW w \in Writers, Rollback(w)
    PROVE  TablesInv'
<1>1. /\ UNCHANGED <<tables, overlapped, misled>> /\ clock' = clock
      /\ writer' = [writer EXCEPT ![w] = Null]
      /\ writer \in [Writers -> Transaction \cup {Null}]
  BY DEF Rollback, history, TablesInv, TablesTyped
<1>2. \A v \in Writers : writer'[v] # Null => writer'[v] = writer[v]
  BY <1>1
<1>3. TablesTyped' /\ TimesPast'
  BY <1>1, <1>2 DEF TablesInv, TablesTyped, TimesPast, tables
<1>4. TimesInOrder'
  BY <1>1, <1>2 DEF TablesInv, TimesInOrder, InOrder, Readdresses, tables
<1> QED
  BY <1>1, <1>3, <1>4, SameRowsKeepTables

LEMMA ReaderKeepsTables ==
    ASSUME TablesInv, UNCHANGED <<tables, clock, writer, overlapped, misled>>
    PROVE  TablesInv'
<1>1. TablesTyped' /\ TimesPast'
  BY DEF TablesInv, TablesTyped, TimesPast, tables
<1>2. TimesInOrder'
  BY DEF TablesInv, TimesInOrder, InOrder, Readdresses, tables
<1> QED
  BY <1>1, <1>2, SameRowsKeepTables

LEMMA NextKeepsTables == TablesInv /\ [Next]_vars => TablesInv'
<1> SUFFICES ASSUME TablesInv, [Next]_vars PROVE TablesInv'
  OBVIOUS
<1>1. ASSUME NEW w \in Writers, Commit(w) PROVE TablesInv'
  <2>1. PICK u \in UserIds, row \in User, given \in Contacts,
             email \in Emails : CommitStores(w, u, row, given, email)
    BY <1>1, CommitHasEffect
  <2> QED
    BY <2>1, CommitKeepsTypes, CommitKeepsContacts, CommitKeepsAudit,
       CommitKeepsOrder DEF TablesInv
<1>2. CASE \/ \E q \in Queries : Accept(q)
           \/ Statement \/ NextPage \/ Leave \/ UNCHANGED vars
  <2>1. UNCHANGED <<tables, clock, writer, overlapped, misled>>
    BY <1>2 DEF Accept, Statement, Count, SelectEntries, SelectUsers,
       SelectContacts, NextPage, Leave, history, vars
  <2> QED
    BY <2>1, ReaderKeepsTables
<1> QED
  BY <1>1, <1>2, BeginKeepsTables, LookKeepsTables, RollbackKeepsTables
     DEF Next

LEMMA InitTables == Init => TablesInv
<1> SUFFICES ASSUME Init PROVE TablesInv
  OBVIOUS
<1>1. /\ users = [u \in UserIds |-> Null] /\ changelog = <<>>
      /\ contacts = [u \in UserIds |-> NoContacts]
      /\ created = [u \in UserIds |-> 0] /\ changed = <<>> /\ clock = 0
      /\ writer = [w \in Writers |-> Null] /\ overlapped = {}
      /\ misled = {}
  BY RegistryOperators DEF Init, Registry!Init
<1>2. TablesTyped
  BY <1>1, ReadBoundsAreTyped DEF TablesTyped, NoContacts, Contacts
<1>3. KnownUsers = {}
  BY <1>1 DEF KnownUsers
<1>4. TimesPast /\ TimesInOrder
  BY <1>1 DEF TimesPast, TimesInOrder
<1> QED
  BY <1>2, <1>3, <1>4, FS_EmptySet DEF TablesInv, ContactsFollow, AuditInv

LEMMA TablesInvariant == Spec => []TablesInv
BY InitTables, NextKeepsTables, PTL DEF Spec

-----------------------------------------------------------------------------
(***************************************************************************)
(* Queries and what they match.                                            *)
(***************************************************************************)
LEMMA QueryKinds ==
    ASSUME NEW q \in Queries
    PROVE  /\ q.op \in {"list", "changelog", "by_ids", "user", "identity"}
           /\ q.op = "list" => q \in ListQuery
           /\ q.op = "changelog" => q \in ChangelogQuery
           /\ q.op = "by_ids" => q \in ByIdsQuery
           /\ q.op = "user" => q \in UserQuery
           /\ q.op = "identity" => q \in IdentityQuery
           /\ Paged(q) => q.limit \in Nat \ {0}
BY QueriesAreTyped DEF PagedQuery, ListQuery, ChangelogQuery, ByIdsQuery,
   UserQuery, IdentityQuery, Paged

\* changelog_db.py:45, docs/DATA_MODEL.md:97.  Of an administrator's changes
\* of one address, the last one is first in the changelog, unless they
\* overlapped or a PATCH has put an address back that it had found in place
\* before its UPDATE; for any number of writers.
THEOREM ChangelogStarts == Spec => []ChangelogStartsWithAddress
<1>1. ASSUME TablesInv, NEW q \in Queries, q.op = "changelog",
             q.user \notin overlapped, users[q.user] # Null,
             users[q.user].email_source = "admin", ~AddressPutBack(q.user)
      PROVE  \E i \in Page([q EXCEPT !.limit = 1], 0) :
                changelog[i].new = users[q.user].email
  <2> DEFINE u == q.user
             p == [q EXCEPT !.limit = 1]
  <2>1. u \in UserIds /\ p.op = "changelog" /\ p.user = u /\ p.limit = 1
    BY <1>1, QueryKinds DEF ChangelogQuery
  <2> HIDE DEF p
  <2>2. PICK i \in DOMAIN changelog :
            IsLastOf(i, u, changelog) /\ changelog[i].new = users[u].email
    BY <1>1, <2>1 DEF TablesInv, AuditInv, KnownUsers
  <2>3. Matching(p) = {j \in DOMAIN changelog : changelog[j].user = u}
    BY <2>1 DEF Matching
  <2>4. \A j \in Matching(p) : ~Before(p, j, i)
    <3>1. ASSUME NEW j \in DOMAIN changelog, changelog[j].user = u
          PROVE  ~(changed[i] < changed[j])
      <4>1. /\ i \in Nat /\ j \in Nat /\ j <= i
            /\ changed[i] \in Nat /\ changed[j] \in Nat
        BY <1>1, <2>2, <3>1, ReadBoundsAreTyped
           DEF IsLastOf, TablesInv, TablesTyped
      <4>2. CASE j < i
        <5>1. changelog[i].user = u /\ InOrder(j, u)
          BY <1>1, <2>1, <2>2, <3>1
             DEF IsLastOf, TablesInv, TimesInOrder
        <5> QED
          BY <2>2, <4>1, <4>2, <5>1 DEF InOrder
      <4> QED
        BY <4>1, <4>2
    <3> QED
      BY <2>1, <2>3, <3>1 DEF Before
  <2>5. Rank(p, i) = 0
    <3>1. {j \in Matching(p) : Before(p, j, i)} = {}
      BY <2>4
    <3> QED
      BY <3>1, FS_EmptySet DEF Rank
  <2>6. i \in Page(p, 0)
    BY <2>1, <2>2, <2>3, <2>5 DEF Page, IsLastOf
  <2> QED
    BY <2>2, <2>6 DEF p
<1>2. TablesInv => ChangelogStartsWithAddress
  BY <1>1 DEF ChangelogStartsWithAddress
<1> QED
  BY <1>2, TablesInvariant, PTL

\* Matching and Before, of tables that need not be the current ones.
Matches(q, us, log) ==
    CASE q.op = "list" ->
           {u \in UserIds : /\ us[u] # Null
                            /\ us[u].email \in q.emails
                            /\ q.role \in {Null, us[u].role}}
      [] q.op = "changelog" -> {i \in DOMAIN log : log[i].user = q.user}
      [] q.op = "by_ids" -> {u \in q.ids : us[u] # Null}
      [] q.op = "user" -> {u \in {q.user} : us[u] # Null}
      [] q.op = "identity" ->
           {u \in UserIds : us[u] # Null /\ Key(us[u]) = <<q.email, q.role>>}

Precedes(q, x, y, cr, ch) ==
    IF q.op = "list" THEN cr[x] < cr[y] ELSE ch[y] < ch[x]

\* The rows of a set that come before x.
Ahead(q, x, rows, cr, ch) == {y \in rows : Precedes(q, y, x, cr, ch)}

\* Every row that a query may match, now or later.
Existing(q, us, log) ==
    IF q.op = "changelog" THEN DOMAIN log ELSE {u \in UserIds : us[u] # Null}

LEMMA MatchingMatches ==
    /\ \A q : Matching(q) = Matches(q, users, changelog)
    /\ Matching(read.query)' = Matches(read'.query, users', changelog')
BY DEF Matching, Matches

LEMMA MatchesExist ==
    ASSUME NEW q \in Queries, NEW us, NEW log
    PROVE  /\ Matches(q, us, log) \subseteq Existing(q, us, log)
           /\ q.op \notin {"changelog"} =>
                Matches(q, us, log) \subseteq {u \in UserIds : us[u] # Null}
BY QueryKinds DEF Matches, Existing, ByIdsQuery, UserQuery

LEMMA ExistingFinite ==
    ASSUME TablesInv, NEW q
    PROVE  IsFiniteSet(Existing(q, users, changelog))
<1>1. CASE q.op = "changelog"
  <2>1. Len(changelog) \in Nat /\ DOMAIN changelog = 1 .. Len(changelog)
    BY DEF TablesInv, TablesTyped
  <2> QED
    BY <1>1, <2>1, FS_Interval DEF Existing
<1>2. CASE q.op # "changelog"
  BY <1>2 DEF Existing, TablesInv, KnownUsers
<1> QED
  BY <1>1, <1>2

-----------------------------------------------------------------------------
(***************************************************************************)
(* The reader, and the rows that may be on its pages.                      *)
(***************************************************************************)
ReaderTyped ==
    /\ read # Null => read \in Read
    /\ always \subseteq ever /\ ever \subseteq Row
    /\ IsABag(seen) /\ BagToSet(seen) \subseteq ever
    /\ addresses \in [UserIds -> SUBSET Emails]

ReadRows ==
    read # Null =>
        /\ read.at = "count" => Paged(read.query)
        /\ always \subseteq Matches(read.query, users, changelog)
        /\ Matches(read.query, users, changelog) \subseteq ever
        /\ ever \subseteq Existing(read.query, users, changelog)

ReaderInv == ReaderTyped /\ ReadRows

LEMMA TypesSuffice == TablesInv /\ ReaderInv => TypeOK
BY DEF TablesInv, TablesTyped, ReaderInv, ReaderTyped, TypeOK

\* Rows do not disappear.
LEMMA CommitGrows ==
    ASSUME TablesInv, NEW w \in Writers, Commit(w), NEW q
    PROVE  /\ Existing(q, users, changelog)
                \subseteq Existing(q, users', changelog')
           /\ \A u \in KnownUsers : users'[u] # Null
<1>1. PICK u \in UserIds, row \in User, given \in Contacts,
           email \in Emails : CommitStores(w, u, row, given, email)
  BY CommitHasEffect
<1>2. users' = [users EXCEPT ![u] = row] /\ row # Null
      /\ users \in [UserIds -> User \cup {Null}]
  BY <1>1, NullIsNoValue
     DEF CommitStores, Effect, Stores, TablesInv, TablesTyped
<1>3. \A v \in UserIds : users[v] # Null => users'[v] # Null
  BY <1>2
<1>4. DOMAIN changelog \subseteq DOMAIN changelog'
  <2>1. changelog \in Seq(Entry)
    BY DEF TablesInv, TablesTyped
  <2>2. CASE \E e \in Entry : changelog' = Append(changelog, e)
    BY <2>1, <2>2
  <2> QED
    BY <1>1, <2>2, CommitChanges
<1> QED
  BY <1>3, <1>4 DEF Existing, KnownUsers

LEMMA ExistingTyped ==
    ASSUME TablesTyped, NEW q
    PROVE  Existing(q, users, changelog) \subseteq Row
<1>1. changelog \in Seq(Entry)
  BY DEF TablesTyped
<1> QED
  BY <1>1 DEF Existing, Row

LEMMA CommitKeepsReader ==
    ASSUME TablesInv, TablesInv', ReaderInv, NEW w \in Writers, Commit(w)
    PROVE  ReaderInv'
<1> DEFINE q == read.query
           now == Matches(q, users', changelog')
<1>1. read' = read /\ seen' = seen /\ Remember(w)
  BY DEF Commit
<1>2. Matching(read.query)' = now
  BY <1>1, MatchingMatches
<1>3. \/ read = Null /\ always' = always /\ ever' = ever
      \/ /\ read # Null /\ read \in Read
         /\ always' = always \cap now /\ ever' = ever \cup now
  BY <1>1, <1>2 DEF Remember, ReaderInv, ReaderTyped
<1>4. addresses' \in [UserIds -> SUBSET Emails]
  BY <1>1 DEF Remember, ReaderInv, ReaderTyped, TablesInv, TablesTyped, User
<1>5. ASSUME read # Null
      PROVE  /\ now \subseteq Existing(q, users', changelog')
             /\ now \subseteq Row
             /\ ever' \subseteq Existing(q, users', changelog')
  <2>1. q \in Queries
    BY <1>3, <1>5 DEF Read
  <2> HIDE DEF q
  <2>2. now \subseteq Existing(q, users', changelog')
    BY <2>1, MatchesExist
  <2>3. Existing(q, users', changelog') \subseteq Row
    <3>1. changelog' \in Seq(Entry)
      BY DEF TablesInv, TablesTyped
    <3> QED
      BY <3>1 DEF Existing, Row
  <2>4. ever \subseteq Existing(q, users, changelog)
    BY <1>5 DEF ReaderInv, ReadRows, q
  <2>5. Existing(q, users, changelog) \subseteq Existing(q, users', changelog')
    BY CommitGrows
  <2> QED
    BY <1>3, <1>5, <2>2, <2>3, <2>4, <2>5
<1> HIDE DEF now
<1>6. ReaderTyped'
  BY <1>1, <1>3, <1>4, <1>5 DEF ReaderInv, ReaderTyped
<1>7. ReadRows'
  BY <1>1, <1>3, <1>5 DEF ReaderInv, ReadRows, now
<1> QED
  BY <1>6, <1>7 DEF ReaderInv

\* Steps that change neither the reader nor the rows.
LEMMA SameRowsKeepReader ==
    ASSUME ReaderInv, UNCHANGED <<tables, read, history>>
    PROVE  ReaderInv'
BY DEF ReaderInv, ReaderTyped, ReadRows, tables, history

-----------------------------------------------------------------------------
SomeRows     == UNION {[s -> User] : s \in SUBSET UserIds}
SomeContacts == UNION {[s -> Contacts] : s \in SUBSET UserIds}

LEMMA ReadIs ==
    Read = [query: Queries, offset: Nat, at: ReadStages, total: Nat,
            rows: SomeRows, contacts: SomeContacts]
BY DEF Read, SomeRows, SomeContacts

LEMMA SomeRowsAre ==
    /\ \A s \in SUBSET UserIds : [s -> User] \subseteq SomeRows
    /\ \A s \in SUBSET UserIds : [s -> Contacts] \subseteq SomeContacts
    /\ \A f \in SomeRows \cup SomeContacts : DOMAIN f \subseteq UserIds
    /\ Without \in SomeRows /\ Without \in SomeContacts
    /\ DOMAIN Without = {}
<1>1. /\ \A s \in SUBSET UserIds : [s -> User] \subseteq SomeRows
      /\ \A s \in SUBSET UserIds : [s -> Contacts] \subseteq SomeContacts
  BY DEF SomeRows, SomeContacts
<1>2. \A f \in SomeRows \cup SomeContacts : DOMAIN f \subseteq UserIds
  BY DEF SomeRows, SomeContacts
<1>3. /\ Without \in [{} -> User] /\ Without \in [{} -> Contacts]
      /\ DOMAIN Without = {}
  BY DEF Without
<1> QED
  BY <1>1, <1>2, <1>3

\* What each step of the reader makes of its record.
Advances(stage) ==
    /\ read \in Read /\ read' \in Read
    /\ read'.query = read.query /\ read'.at = stage
    /\ read.query \in Queries

LEMMA CountAdvances ==
    ASSUME TablesInv, ReaderInv, Count
    PROVE  /\ Advances("rows") /\ read.at = "count"
           /\ read'.total = Cardinality(Matching(read.query))
           /\ read'.offset = read.offset /\ read'.contacts = read.contacts
<1>1. read \in Read /\ read # Null /\ read.at = "count"
      /\ read.query \in Queries
  BY DEF Count, At, ReaderInv, ReaderTyped, Read
<1>2. IsFiniteSet(Matching(read.query))
  <2>1. Matching(read.query) \subseteq Existing(read.query, users, changelog)
    BY <1>1, MatchingMatches, MatchesExist
  <2> QED
    BY <2>1, ExistingFinite, FS_Subset
<1>3. Cardinality(Matching(read.query)) \in Nat
  BY <1>2, FS_CardinalityType
<1> DEFINE n == Cardinality(Matching(read.query))
<1>4. read' = [[read EXCEPT !.total = n] EXCEPT !.at = "rows"]
  BY DEF Count, Goto
<1> HIDE DEF n
<1>5. read' \in Read /\ read'.total = n
  BY <1>1, <1>3, <1>4, ReadIs DEF n, ReadStages
<1>6. /\ read'.query = read.query /\ read'.at = "rows"
      /\ read'.offset = read.offset /\ read'.contacts = read.contacts
  BY <1>1, <1>4, ReadIs
<1> QED
  BY <1>1, <1>5, <1>6 DEF Advances, n

LEMMA SelectEntriesAdvances ==
    ASSUME ReaderInv, SelectEntries
    PROVE  /\ Advances("answer") /\ read.at = "rows"
           /\ read.query.op = "changelog"
           /\ read'.total = read.total /\ read'.offset = read.offset
           /\ read'.contacts = read.contacts
<1>1. read \in Read /\ read # Null /\ read.at = "rows"
      /\ read.query \in Queries
  BY DEF SelectEntries, At, ReaderInv, ReaderTyped, Read
<1>2. read' = [read EXCEPT !.at = "answer"]
  BY DEF SelectEntries, Goto
<1>3. read' \in Read
  BY <1>1, <1>2, ReadIs DEF ReadStages
<1>4. /\ read'.query = read.query /\ read'.at = "answer"
      /\ read'.total = read.total /\ read'.offset = read.offset
      /\ read'.contacts = read.contacts
  BY <1>1, <1>2, ReadIs
<1> QED
  BY <1>1, <1>3, <1>4 DEF Advances, SelectEntries

LEMMA SelectedAreKnown ==
    ASSUME NEW q \in Queries, q.op # "changelog", NEW offset
    PROVE  Selected(q, offset) \subseteq KnownUsers
           /\ Selected(q, offset) \subseteq Matches(q, users, changelog)
BY MatchesExist, MatchingMatches DEF Selected, Page, KnownUsers

LEMMA SelectUsersAdvances ==
    ASSUME TablesInv, ReaderInv, SelectUsers
    PROVE  LET ids == Selected(read.query, read.offset)
               at  == IF ids = {} THEN "answer" ELSE "contacts"
           IN  /\ Advances(at) /\ read.at = "rows"
               /\ read.query.op # "changelog"
               /\ ids \subseteq KnownUsers
               /\ read'.total = read.total /\ read'.offset = read.offset
               /\ read'.contacts = Without /\ DOMAIN read'.rows = ids
<1> DEFINE ids == Selected(read.query, read.offset)
           at  == IF ids = {} THEN "answer" ELSE "contacts"
           rows == [u \in ids |-> users[u]]
<1>1. /\ read \in Read /\ read # Null /\ read.at = "rows"
      /\ read.query \in Queries /\ read.query.op # "changelog"
  BY DEF SelectUsers, At, ReaderInv, ReaderTyped, Read
<1>2. ids \subseteq KnownUsers
  BY <1>1, SelectedAreKnown
<1>3. rows \in SomeRows /\ DOMAIN rows = ids
  <2>1. \A u \in KnownUsers : u \in UserIds /\ users[u] \in User
    BY DEF KnownUsers, TablesInv, TablesTyped
  <2>2. ids \in SUBSET UserIds /\ rows \in [ids -> User]
    BY <1>2, <2>1
  <2> QED
    BY <2>2, SomeRowsAre
<1>4. read' = [[read EXCEPT !.rows = rows, !.contacts = Without]
                 EXCEPT !.at = at]
  BY DEF SelectUsers, Goto
<1>5. at \in ReadStages
  BY DEF ReadStages
<1> HIDE DEF ids, at, rows
<1>6. read' \in Read
  BY <1>1, <1>3, <1>4, <1>5, ReadIs, SomeRowsAre
<1>7. /\ read'.query = read.query /\ read'.at = at
      /\ read'.total = read.total /\ read'.offset = read.offset
      /\ read'.contacts = Without /\ read'.rows = rows
  BY <1>1, <1>4, ReadIs
<1> QED
  BY <1>1, <1>2, <1>3, <1>6, <1>7 DEF Advances, ids, at

LEMMA SelectContactsAdvances ==
    ASSUME TablesInv, ReaderInv, SelectContacts
    PROVE  /\ Advances("answer") /\ read.at = "contacts"
           /\ read'.total = read.total /\ read'.offset = read.offset
           /\ DOMAIN read.rows \subseteq UserIds
           /\ read'.contacts = [u \in DOMAIN read.rows |-> contacts[u]]
<1> DEFINE found == [u \in DOMAIN read.rows |-> contacts[u]]
<1>1. /\ read \in Read /\ read # Null /\ read.at = "contacts"
      /\ read.query \in Queries
  BY DEF SelectContacts, At, ReaderInv, ReaderTyped, Read
<1>2. DOMAIN read.rows \subseteq UserIds
  BY <1>1, ReadIs, SomeRowsAre
<1>3. found \in SomeContacts
  <2>1. found \in [DOMAIN read.rows -> Contacts]
    BY <1>2 DEF TablesInv, TablesTyped
  <2> QED
    BY <1>2, <2>1, SomeRowsAre
<1>4. read' = [[read EXCEPT !.contacts = found] EXCEPT !.at = "answer"]
  BY DEF SelectContacts, Goto
<1> HIDE DEF found
<1>5. read' \in Read
  BY <1>1, <1>3, <1>4, ReadIs DEF ReadStages
<1>6. /\ read'.query = read.query /\ read'.at = "answer"
      /\ read'.total = read.total /\ read'.offset = read.offset
      /\ read'.contacts = found
  BY <1>1, <1>4, ReadIs
<1> QED
  BY <1>1, <1>2, <1>5, <1>6 DEF Advances, found

LEMMA NextPageAdvances ==
    ASSUME ReaderInv, NextPage
    PROVE  /\ Advances("count") /\ read.at = "answer" /\ Paged(read.query)
           /\ read'.offset = read.offset + read.query.limit
           /\ read'.contacts = Without
<1>1. /\ read \in Read /\ read # Null /\ read.at = "answer"
      /\ read.query \in Queries /\ Paged(read.query)
  BY DEF NextPage, At, ReaderInv, ReaderTyped, Read
<1>2. read.offset + read.query.limit \in Nat
  BY <1>1, QueryKinds, ReadIs
<1>3. read' = [[read EXCEPT !.offset = read.offset + read.query.limit,
                            !.rows = Without, !.contacts = Without]
                 EXCEPT !.at = "count"]
  BY <1>1, ReadIs DEF NextPage, Goto
<1>4. read' \in Read
  BY <1>1, <1>2, <1>3, ReadIs, SomeRowsAre DEF ReadStages
<1>5. /\ read'.query = read.query /\ read'.at = "count"
      /\ read'.offset = read.offset + read.query.limit
      /\ read'.contacts = Without
  BY <1>1, <1>3, ReadIs
<1> QED
  BY <1>1, <1>4, <1>5 DEF Advances

LEMMA AcceptStarts ==
    ASSUME NEW q \in Queries, Accept(q)
    PROVE  /\ read' \in Read /\ read'.query = q /\ read'.offset = 0
           /\ read'.at = IF Paged(q) THEN "count" ELSE "rows"
           /\ read'.contacts = Without
<1>1. read' = [query |-> q, offset |-> 0, total |-> 0,
               at |-> IF Paged(q) THEN "count" ELSE "rows",
               rows |-> Without, contacts |-> Without]
  BY DEF Accept
<1> QED
  BY <1>1, ReadIs, SomeRowsAre DEF ReadStages

-----------------------------------------------------------------------------
LEMMA AdvanceKeepsReader ==
    ASSUME ReaderInv, NEW stage, read # Null, Advances(stage),
           stage = "count" => Paged(read.query),
           UNCHANGED <<tables, always, ever>>,
           IsABag(seen'), BagToSet(seen') \subseteq ever,
           addresses' \in [UserIds -> SUBSET Emails]
    PROVE  ReaderInv'
<1>1. ReaderTyped'
  BY DEF Advances, ReaderInv, ReaderTyped
<1>2. ReadRows'
  BY DEF Advances, ReaderInv, ReadRows, tables
<1> QED
  BY <1>1, <1>2 DEF ReaderInv

\* How often each row was on a page.
Copies(x, bag) == IF BagIn(x, bag) THEN bag[x] ELSE 0

LEMMA PageAdds ==
    ASSUME NEW bag, IsABag(bag), NEW page
    PROVE  /\ IsABag(bag (+) SetToBag(page))
           /\ BagToSet(bag (+) SetToBag(page)) = BagToSet(bag) \cup page
           /\ \A x : Copies(x, bag (+) SetToBag(page)) =
                       Copies(x, bag) + IF x \in page THEN 1 ELSE 0
<1>1. IsABag(bag (+) SetToBag(page))
  BY DEF IsABag, SetToBag, (+)
<1>2. BagToSet(bag (+) SetToBag(page)) = BagToSet(bag) \cup page
  BY DEF SetToBag, BagToSet, (+)
<1>3. ASSUME NEW x
      PROVE  Copies(x, bag (+) SetToBag(page)) =
                Copies(x, bag) + IF x \in page THEN 1 ELSE 0
  BY DEF IsABag, SetToBag, BagToSet, BagIn, Copies, (+)
<1> QED
  BY <1>1, <1>2, <1>3

LEMMA EmptyBagIs ==
    /\ IsABag(EmptyBag) /\ BagToSet(EmptyBag) = {}
    /\ \A x : Copies(x, EmptyBag) = 0
BY DEF IsABag, EmptyBag, SetToBag, BagToSet, BagIn, Copies

LEMMA SelectedMatch ==
    ASSUME ReaderInv, read # Null
    PROVE  /\ Page(read.query, read.offset) \subseteq ever
           /\ Selected(read.query, read.offset) \subseteq ever
BY MatchingMatches DEF ReaderInv, ReadRows, Page, Selected

LEMMA StatementKeepsReader ==
    ASSUME TablesInv, ReaderInv, Statement
    PROVE  ReaderInv'
<1>1. /\ read # Null /\ UNCHANGED <<tables, always, ever>>
      /\ IsABag(seen) /\ BagToSet(seen) \subseteq ever
      /\ addresses \in [UserIds -> SUBSET Emails]
  BY DEF Statement, Count, SelectEntries, SelectUsers, SelectContacts, At,
     history, ReaderInv, ReaderTyped
<1>2. CASE Count
  BY <1>1, <1>2, CountAdvances, AdvanceKeepsReader DEF Count, history
<1>3. CASE SelectEntries
  <2>1. /\ seen' = seen (+) SetToBag(Page(read.query, read.offset))
        /\ addresses' = addresses
    BY <1>3 DEF SelectEntries
  <2>2. IsABag(seen') /\ BagToSet(seen') \subseteq ever
    BY <1>1, <2>1, PageAdds, SelectedMatch
  <2> QED
    BY <1>1, <1>3, <2>1, <2>2, SelectEntriesAdvances, AdvanceKeepsReader
<1>4. CASE SelectUsers
  <2> DEFINE ids == Selected(read.query, read.offset)
  <2>1. /\ seen' = seen (+) SetToBag(ids)
        /\ addresses' = [u \in UserIds |->
                           IF u \in ids THEN {users[u].email} ELSE {}]
    BY <1>4 DEF SelectUsers
  <2>2. ids \subseteq KnownUsers
    BY <1>4, SelectUsersAdvances
  <2>3. IsABag(seen') /\ BagToSet(seen') \subseteq ever
    BY <1>1, <2>1, PageAdds, SelectedMatch
  <2>4. addresses' \in [UserIds -> SUBSET Emails]
    BY <2>1, <2>2 DEF KnownUsers, TablesInv, TablesTyped, User
  <2> HIDE DEF ids
  <2>5. PICK stage \in {"answer", "contacts"} : Advances(stage)
    BY <1>4, SelectUsersAdvances
  <2> QED
    BY <1>1, <2>3, <2>4, <2>5, AdvanceKeepsReader
<1>5. CASE SelectContacts
  BY <1>1, <1>5, SelectContactsAdvances, AdvanceKeepsReader
     DEF SelectContacts, history
<1> QED
  BY <1>2, <1>3, <1>4, <1>5 DEF Statement

LEMMA AcceptKeepsReader ==
    ASSUME TablesInv, NEW q \in Queries, Accept(q)
    PROVE  ReaderInv'
<1>1. /\ always' = Matching(q) /\ ever' = Matching(q) /\ seen' = EmptyBag
      /\ addresses' = [u \in UserIds |-> {}] /\ UNCHANGED tables
  BY DEF Accept
<1>2. /\ Matching(q) = Matches(q, users, changelog)
      /\ Matching(q) \subseteq Existing(q, users, changelog)
      /\ Matching(q) \subseteq Row
  BY MatchingMatches, MatchesExist, ExistingTyped DEF TablesInv
<1>3. ReaderTyped'
  BY <1>1, <1>2, AcceptStarts, EmptyBagIs DEF ReaderTyped
<1>4. ReadRows'
  BY <1>1, <1>2, AcceptStarts DEF ReadRows, tables
<1> QED
  BY <1>3, <1>4 DEF ReaderInv

LEMMA LeaveKeepsReader ==
    ASSUME Leave
    PROVE  ReaderInv'
BY EmptyBagIs DEF Leave, ReaderInv, ReaderTyped, ReadRows

LEMMA NextKeepsReader ==
    TablesInv /\ ReaderInv /\ [Next]_vars => ReaderInv'
<1> SUFFICES ASSUME TablesInv, ReaderInv, [Next]_vars PROVE ReaderInv'
  OBVIOUS
<1>1. TablesInv'
  BY NextKeepsTables
<1>2. CASE \/ \E w \in Writers :
                 \/ \E r \in Requests : Begin(w, r)
                 \/ Look(w) \/ Rollback(w)
           \/ UNCHANGED vars
  BY <1>2, SameRowsKeepReader DEF Begin, Look, Rollback, vars
<1>3. CASE NextPage
  <2>1. /\ read # Null /\ UNCHANGED <<tables, always, ever, seen, addresses>>
        /\ IsABag(seen) /\ BagToSet(seen) \subseteq ever
        /\ addresses \in [UserIds -> SUBSET Emails]
    BY <1>3 DEF NextPage, At, history, ReaderInv, ReaderTyped
  <2> QED
    BY <1>3, <2>1, NextPageAdvances, AdvanceKeepsReader
<1> QED
  BY <1>1, <1>2, <1>3, CommitKeepsReader, StatementKeepsReader,
     AcceptKeepsReader, LeaveKeepsReader DEF Next

LEMMA InitReader == Init => ReaderInv
BY EmptyBagIs DEF Init, ReaderInv, ReaderTyped, ReadRows

LEMMA ReaderInvariant == Spec => [](TablesInv /\ ReaderInv)
BY InitTables, NextKeepsTables, InitReader, NextKeepsReader, PTL DEF Spec

\* users_db.py:185-290.  Tables, pages and answers keep their types; what was
\* on a page has matched the query, in whatever order the reader's statements
\* and the commits come.
THEOREM ReadTypes == Spec => []TypeOK
BY TypesSuffice, ReaderInvariant, PTL

-----------------------------------------------------------------------------
(***************************************************************************)
(* The contacts of an answer.                                              *)
(***************************************************************************)
ContactsInv ==
    read # Null =>
        /\ read.at \in {"count", "rows"} => DOMAIN read.contacts = {}
        /\ read.at = "contacts" =>
              \A u \in DOMAIN read.rows :
                  u \in KnownUsers /\ users[u].email \in addresses[u]
        /\ read.at = "answer" =>
              \A u \in DOMAIN read.contacts :
                  /\ u \in UserIds
                  /\ \/ ContactPutBack(u)
                     \/ read.contacts[u][EmailChannel] \in addresses[u]

LEMMA CommitKeepsReadContacts ==
    ASSUME TablesInv, TablesInv', ReaderInv, ContactsInv,
           NEW w \in Writers, Commit(w)
    PROVE  ContactsInv'
<1>1. /\ read' = read
      /\ addresses' = [u \in UserIds |->
                         IF read # Null /\ users'[u] # Null
                         THEN addresses[u] \cup {users'[u].email}
                         ELSE addresses[u]]
  BY DEF Commit, Remember
<1>2. \A u \in KnownUsers : u \in KnownUsers'
  BY CommitGrows DEF KnownUsers
<1>3. read # Null => \A u \in KnownUsers' : users'[u].email \in addresses'[u]
  BY <1>1 DEF KnownUsers
<1>4. \A u \in UserIds : addresses[u] \subseteq addresses'[u]
  BY <1>1
<1>5. \A u : ContactPutBack(u) => ContactPutBack(u)'
  BY DEF Commit, Remember, ContactPutBack
<1> QED
  BY <1>1, <1>2, <1>3, <1>4, <1>5 DEF ContactsInv

LEMMA StatementKeepsReadContacts ==
    ASSUME TablesInv, ReaderInv, ContactsInv, Statement
    PROVE  ContactsInv'
<1>1. read # Null /\ UNCHANGED tables
  BY DEF Statement, Count, SelectEntries, SelectUsers, SelectContacts, At
<1>2. CASE Count
  BY <1>1, <1>2, CountAdvances DEF Advances, ContactsInv
<1>3. CASE SelectEntries
  BY <1>1, <1>3, SelectEntriesAdvances DEF Advances, ContactsInv
<1>4. CASE SelectUsers
  <2> DEFINE ids == Selected(read.query, read.offset)
  <2>1. /\ addresses' = [u \in UserIds |->
                           IF u \in ids THEN {users[u].email} ELSE {}]
        /\ users' = users
    BY <1>4 DEF SelectUsers, tables
  <2>2. /\ ids \subseteq KnownUsers /\ ids \subseteq UserIds
        /\ DOMAIN read'.contacts = {} /\ DOMAIN read'.rows = ids
        /\ read'.at \in {"answer", "contacts"}
    BY <1>4, SelectUsersAdvances, SomeRowsAre DEF Advances, KnownUsers
  <2>3. \A u \in ids : u \in KnownUsers' /\ users'[u].email \in addresses'[u]
    BY <2>1, <2>2 DEF KnownUsers
  <2> HIDE DEF ids
  <2> QED
    BY <2>2, <2>3 DEF ContactsInv
<1>5. CASE SelectContacts
  <2>1. addresses' = addresses
    BY <1>5 DEF SelectContacts, history
  <2>2. /\ read'.at = "answer" /\ read.at = "contacts"
        /\ DOMAIN read.rows \subseteq UserIds
        /\ read'.contacts = [u \in DOMAIN read.rows |-> contacts[u]]
    BY <1>5, SelectContactsAdvances DEF Advances
  <2>3. \A u \in DOMAIN read.rows :
            ContactPutBack(u) \/ contacts[u][EmailChannel] \in addresses[u]
    BY <1>1, <2>2 DEF ContactsInv, TablesInv, ContactsFollow
  <2>4. \A u : ContactPutBack(u) => ContactPutBack(u)'
    BY <1>5 DEF SelectContacts, history, ContactPutBack
  <2> QED
    BY <2>1, <2>2, <2>3, <2>4 DEF ContactsInv
<1> QED
  BY <1>2, <1>3, <1>4, <1>5 DEF Statement

LEMMA NextKeepsReadContacts ==
    TablesInv /\ ReaderInv /\ ContactsInv /\ [Next]_vars => ContactsInv'
<1> SUFFICES ASSUME TablesInv, ReaderInv, ContactsInv, [Next]_vars
             PROVE  ContactsInv'
  OBVIOUS
<1>1. TablesInv'
  BY NextKeepsTables
<1>2. CASE \/ \E w \in Writers :
                 \/ \E r \in Requests : Begin(w, r)
                 \/ Look(w) \/ Rollback(w)
           \/ UNCHANGED vars
  <2>1. UNCHANGED <<tables, read, history>>
    BY <1>2 DEF Begin, Look, Rollback, vars
  <2> QED
    BY <2>1 DEF tables, history, ContactsInv, ContactPutBack, KnownUsers
<1>3. CASE NextPage
  BY <1>3, NextPageAdvances, SomeRowsAre DEF Advances, ContactsInv
<1>4. ASSUME NEW q \in Queries, Accept(q)
      PROVE  ContactsInv'
  BY <1>4, AcceptStarts, SomeRowsAre DEF ContactsInv
<1>5. CASE Leave
  BY <1>5 DEF Leave, ContactsInv
<1> QED
  BY <1>1, <1>2, <1>3, <1>4, <1>5, CommitKeepsReadContacts,
     StatementKeepsReadContacts DEF Next

\* users_db.py:185-290.  Whatever commits between the statements of a read,
\* the email contact of an answer is the address that the user had when its
\* row was read, or a later one; unless a PATCH without a column of users has
\* put an older one back into the table.
THEOREM ContactsAreNotOlder == Spec => []ContactIsNotOlder
<1>1. Init => ContactsInv
  BY DEF Init, ContactsInv
<1>2. ContactsInv => ContactIsNotOlder
  BY DEF ContactsInv, ContactIsNotOlder, At
<1> QED
  BY <1>1, <1>2, NextKeepsReadContacts, ReaderInvariant, PTL DEF Spec

-----------------------------------------------------------------------------
(***************************************************************************)
(* Pages.  A row x that has matched all the time, with no row before it    *)
(* that has not, stays at one rank: it is on the page of that rank alone,  *)
(* and no page is the last one before that.                                *)
(***************************************************************************)
AheadOf(x) == Ahead(read.query, x, ever, created, changed)

\* The rank at which the next page, or the one after this, begins.
Boundary(r) ==
    IF r.at \in {"count", "rows"} THEN r.offset ELSE r.offset + r.query.limit

OnPages(r, rank, copies) ==
    /\ copies = IF rank < Boundary(r) THEN 1 ELSE 0
    /\ r.at # "count" => rank < r.total

PagesInv ==
    read # Null /\ Paged(read.query) =>
        \A x \in always : AheadOf(x) \subseteq always =>
            OnPages(read, Cardinality(AheadOf(x)), Copies(x, seen))

\* A commit moves no row that is there.
LEMMA CommitKeepsPrecedence ==
    ASSUME TablesInv, NEW w \in Writers, Commit(w),
           NEW q \in Queries, Paged(q),
           NEW x \in Existing(q, users, changelog),
           NEW y \in Existing(q, users, changelog)
    PROVE  Precedes(q, y, x, created', changed')
             = Precedes(q, y, x, created, changed)
<1>1. CASE q.op = "list"
  <2>1. \A u \in UserIds : users[u] # Null => created'[u] = created[u]
    BY DEF Commit, CreatedAt
  <2> QED
    BY <1>1, <2>1 DEF Existing, Precedes
<1>2. CASE q.op = "changelog"
  <2>1. /\ changed \in Seq(1 .. MaxTransactions)
        /\ x \in 1 .. Len(changed) /\ y \in 1 .. Len(changed)
    BY <1>2 DEF Existing, TablesInv, TablesTyped
  <2>2. changed' = changed \/ changed' = Append(changed, writer[w].since)
    BY DEF Commit, ChangedAt
  <2>3. changed'[x] = changed[x] /\ changed'[y] = changed[y]
    <3>1. writer[w].since \in Nat
      BY DEF Commit, TablesInv, TimesPast, TablesTyped
    <3> QED
      BY <2>1, <2>2, <3>1
  <2> QED
    BY <1>2, <2>3 DEF Precedes
<1> QED
  BY <1>1, <1>2 DEF Paged

LEMMA CommitKeepsPages ==
    ASSUME TablesInv, ReaderInv, PagesInv, NEW w \in Writers, Commit(w)
    PROVE  PagesInv'
<1> SUFFICES ASSUME read # Null, Paged(read.query), NEW x \in always',
                    AheadOf(x)' \subseteq always'
             PROVE  OnPages(read, Cardinality(AheadOf(x)'), Copies(x, seen))
  BY DEF Commit, PagesInv, OnPages, Boundary, Copies
<1> DEFINE q == read.query
<1>1. read' = read /\ always' \subseteq always /\ ever \subseteq ever'
  BY DEF Commit, Remember
<1>2. /\ q \in Queries /\ always \subseteq ever
      /\ ever \subseteq Existing(q, users, changelog)
  BY DEF ReaderInv, ReaderTyped, ReadRows, Read
<1>3. AheadOf(x)' = Ahead(q, x, ever', created', changed')
  BY <1>1 DEF AheadOf
<1>4. \A y \in ever : Precedes(q, y, x, created', changed')
                        = Precedes(q, y, x, created, changed)
  BY <1>1, <1>2, CommitKeepsPrecedence
<1> HIDE DEF q
<1>5. Ahead(q, x, ever', created', changed')
        = Ahead(q, x, ever, created, changed)
  BY <1>1, <1>2, <1>3, <1>4 DEF Ahead
<1>6. AheadOf(x)' = AheadOf(x)
  BY <1>3, <1>5 DEF AheadOf, q
<1> QED
  BY <1>1, <1>6 DEF PagesInv

\* What is ahead of such a row is finite, and is what the tables hold now.
LEMMA AheadIsRank ==
    ASSUME TablesInv, ReaderInv, read # Null, Paged(read.query),
           NEW x \in always, AheadOf(x) \subseteq always
    PROVE  /\ AheadOf(x) = {y \in Matching(read.query) :
                               Before(read.query, y, x)}
           /\ Cardinality(AheadOf(x)) = Rank(read.query, x)
           /\ Cardinality(AheadOf(x)) \in Nat
           /\ Cardinality(AheadOf(x)) < Cardinality(Matching(read.query))
           /\ x \in Matching(read.query)
           /\ Cardinality(Matching(read.query)) \in Nat
<1> DEFINE q == read.query
           rows == Matching(q)
<1>1. /\ q \in Queries /\ always \subseteq rows /\ rows \subseteq ever
      /\ ever \subseteq Existing(q, users, changelog)
  BY MatchingMatches DEF ReaderInv, ReaderTyped, ReadRows, Read
<1>2. \A y : Precedes(q, y, x, created, changed) = Before(q, y, x)
  BY DEF Precedes, Before
<1>3. AheadOf(x) = {y \in rows : Before(q, y, x)}
  BY <1>1, <1>2 DEF AheadOf, Ahead
<1>4. x \notin AheadOf(x)
  <2>1. CASE q.op = "list"
    <3>1. created[x] \in Nat
      BY <1>1, <2>1, ReadBoundsAreTyped DEF Existing, TablesInv, TablesTyped
    <3> QED
      BY <1>3, <2>1, <3>1 DEF Before
  <2>2. CASE q.op = "changelog"
    <3>1. changed[x] \in Nat
      BY <1>1, <2>2, ReadBoundsAreTyped DEF Existing, TablesInv, TablesTyped
    <3> QED
      BY <1>3, <2>2, <3>1 DEF Before
  <2> QED
    BY <2>1, <2>2 DEF Paged
<1>5. IsFiniteSet(rows)
  BY <1>1, ExistingFinite, FS_Subset
<1>6. AheadOf(x) \subseteq rows /\ AheadOf(x) # rows
  BY <1>1, <1>3, <1>4
<1> HIDE DEF rows
<1>7. IsFiniteSet(AheadOf(x)) /\ Cardinality(AheadOf(x)) <= Cardinality(rows)
      /\ Cardinality(AheadOf(x)) # Cardinality(rows)
  BY <1>5, <1>6, FS_Subset
<1>8. Cardinality(AheadOf(x)) \in Nat /\ Cardinality(rows) \in Nat
  BY <1>5, <1>7, FS_CardinalityType
<1> QED
  BY <1>1, <1>3, <1>7, <1>8 DEF rows, Rank

LEMMA SamePages ==
    ASSUME UNCHANGED <<tables, always, ever>>, read'.query = read.query
    PROVE  \A x : AheadOf(x)' = AheadOf(x)
BY DEF AheadOf, tables

LEMMA ReadTyped ==
    ASSUME ReaderInv, read # Null, Paged(read.query)
    PROVE  /\ read.offset \in Nat /\ read.total \in Nat
           /\ read.query.limit \in Nat \ {0}
BY QueryKinds DEF ReaderInv, ReaderTyped, Read

\* The statement that reads a page.
LEMMA PageKeepsPages ==
    ASSUME TablesInv, ReaderInv, PagesInv, read # Null, read.at = "rows",
           NEW stage \in {"answer", "contacts"}, Advances(stage),
           UNCHANGED <<tables, always, ever>>,
           read'.total = read.total, read'.offset = read.offset,
           Paged(read.query) =>
              seen' = seen (+) SetToBag(Page(read.query, read.offset))
    PROVE  PagesInv'
<1> SUFFICES ASSUME Paged(read.query), NEW x \in always,
                    AheadOf(x) \subseteq always
             PROVE  OnPages(read', Cardinality(AheadOf(x)), Copies(x, seen'))
  BY SamePages DEF Advances, PagesInv, OnPages, Boundary, Copies
<1> DEFINE q == read.query
           n == Cardinality(AheadOf(x))
<1>1. /\ n \in Nat /\ n = Rank(q, x) /\ x \in Matching(q)
  BY AheadIsRank
<1>2. /\ read.offset \in Nat /\ q.limit \in Nat \ {0}
      /\ Boundary(read) = read.offset
      /\ Boundary(read') = read.offset + q.limit
  BY ReadTyped DEF Boundary, Advances
<1>3. x \in Page(q, read.offset) <=> read.offset <= n /\ n < read.offset + q.limit
  BY <1>1, <1>2 DEF Page
<1>4. Copies(x, seen) = (IF n < read.offset THEN 1 ELSE 0) /\ n < read.total
  BY <1>2 DEF PagesInv, OnPages
<1>5. Copies(x, seen') =
        Copies(x, seen) + IF x \in Page(q, read.offset) THEN 1 ELSE 0
  BY PageAdds DEF ReaderInv, ReaderTyped
<1> HIDE DEF n, q
<1>6. Copies(x, seen') = IF n < read.offset + q.limit THEN 1 ELSE 0
  BY <1>1, <1>2, <1>3, <1>4, <1>5
<1>7. OnPages(read', n, Copies(x, seen'))
  BY <1>2, <1>4, <1>6 DEF OnPages
<1> QED
  BY <1>7 DEF n

LEMMA StatementKeepsPages ==
    ASSUME TablesInv, ReaderInv, PagesInv, Statement
    PROVE  PagesInv'
<1>1. read # Null /\ UNCHANGED <<tables, always, ever>>
  BY DEF Statement, Count, SelectEntries, SelectUsers, SelectContacts, At,
     history
<1>2. CASE Count
  <2> SUFFICES ASSUME Paged(read.query), NEW x \in always,
                      AheadOf(x) \subseteq always
               PROVE  OnPages(read', Cardinality(AheadOf(x)), Copies(x, seen))
    BY <1>1, <1>2, SamePages, CountAdvances
       DEF Advances, PagesInv, OnPages, Boundary, Copies, Count, history
  <2>1. Cardinality(AheadOf(x)) < read'.total
    BY <1>1, <1>2, AheadIsRank, CountAdvances
  <2>2. Boundary(read') = Boundary(read)
    BY <1>2, CountAdvances DEF Boundary, Advances
  <2> QED
    BY <1>1, <2>1, <2>2 DEF PagesInv, OnPages
<1>3. CASE SelectEntries
  BY <1>1, <1>3, SelectEntriesAdvances, PageKeepsPages DEF SelectEntries
<1>4. CASE SelectUsers
  <2>1. PICK stage \in {"answer", "contacts"} : Advances(stage)
    BY <1>4, SelectUsersAdvances
  <2>2. Paged(read.query) =>
          seen' = seen (+) SetToBag(Page(read.query, read.offset))
    BY <1>4 DEF SelectUsers, Selected
  <2> QED
    BY <1>1, <1>4, <2>1, <2>2, SelectUsersAdvances, PageKeepsPages
<1>5. CASE SelectContacts
  <2>1. /\ read'.query = read.query /\ seen' = seen
        /\ read'.total = read.total /\ Boundary(read') = Boundary(read)
        /\ read.at # "count" /\ read'.at # "count"
    BY <1>5, SelectContactsAdvances
       DEF SelectContacts, history, Advances, Boundary
  <2> QED
    BY <1>1, <2>1, SamePages DEF PagesInv, OnPages
<1> QED
  BY <1>2, <1>3, <1>4, <1>5 DEF Statement

LEMMA NextPageKeepsPages ==
    ASSUME PagesInv, ReaderInv, NextPage
    PROVE  PagesInv'
<1>1. /\ read # Null /\ seen' = seen /\ UNCHANGED <<tables, always, ever>>
      /\ read'.query = read.query /\ Boundary(read') = Boundary(read)
      /\ read'.at = "count"
  BY NextPageAdvances DEF NextPage, At, history, Advances, Boundary
<1> QED
  BY <1>1, SamePages DEF PagesInv, OnPages

LEMMA AcceptKeepsPages ==
    ASSUME TablesInv, NEW q \in Queries, Accept(q)
    PROVE  PagesInv'
<1> SUFFICES ASSUME Paged(q), NEW x \in always'
             PROVE  OnPages(read', Cardinality(AheadOf(x)'), 0)
  BY AcceptStarts, EmptyBagIs DEF Accept, PagesInv
<1>1. AheadOf(x)' = Ahead(q, x, Matching(q), created, changed)
  BY AcceptStarts DEF Accept, AheadOf, tables
<1>2. IsFiniteSet(Matching(q))
  BY MatchingMatches, MatchesExist, ExistingFinite, FS_Subset
<1>3. Ahead(q, x, Matching(q), created, changed) \subseteq Matching(q)
  BY DEF Ahead
<1>4. IsFiniteSet(AheadOf(x)')
  BY <1>1, <1>2, <1>3, FS_Subset
<1>5. Cardinality(AheadOf(x)') \in Nat
  BY <1>4, FS_CardinalityType
<1> QED
  BY <1>5, AcceptStarts DEF OnPages, Boundary

LEMMA NextKeepsPages ==
    TablesInv /\ ReaderInv /\ PagesInv /\ [Next]_vars => PagesInv'
<1> SUFFICES ASSUME TablesInv, ReaderInv, PagesInv, [Next]_vars
             PROVE  PagesInv'
  OBVIOUS
<1>1. CASE \/ \E w \in Writers :
                 \/ \E r \in Requests : Begin(w, r)
                 \/ Look(w) \/ Rollback(w)
           \/ UNCHANGED vars
  BY <1>1 DEF Begin, Look, Rollback, vars, tables, history, PagesInv, AheadOf,
     OnPages, Boundary
<1>2. CASE Leave
  BY <1>2 DEF Leave, PagesInv
<1> QED
  BY <1>1, <1>2, CommitKeepsPages, StatementKeepsPages, NextPageKeepsPages,
     AcceptKeepsPages DEF Next

\* users_db.py:224-235, changelog_db.py:38-45.  Who turns all pages sees a row
\* that was there all the time exactly once, for any number of rows, any page
\* size and any commits between the statements, unless rows before it came or
\* went.
THEOREM PagesStayExact == Spec => []PagesAreExact
<1>1. Init => PagesInv
  BY DEF Init, PagesInv
<1>2. ASSUME TablesInv, ReaderInv, PagesInv, At("answer"),
             Paged(read.query), LastPage, NEW x \in always,
             {y \in ever : Before(read.query, y, x)} \subseteq always
      PROVE  BagIn(x, seen) /\ seen[x] = 1
  <2>1. read # Null /\ read.at = "answer"
    BY <1>2 DEF At
  <2>2. AheadOf(x) \subseteq always
    BY <1>2 DEF AheadOf, Ahead, Precedes, Before
  <2>3. OnPages(read, Cardinality(AheadOf(x)), Copies(x, seen))
    BY <1>2, <2>1, <2>2 DEF PagesInv
  <2>4. Cardinality(AheadOf(x)) \in Nat
    BY <1>2, <2>1, <2>2, AheadIsRank
  <2>5. Cardinality(AheadOf(x)) < Boundary(read)
    BY <1>2, <2>1, <2>3, <2>4, ReadTyped DEF OnPages, Boundary, LastPage
  <2>6. Copies(x, seen) = 1
    BY <2>3, <2>5 DEF OnPages
  <2> QED
    BY <2>6 DEF Copies
<1>3. TablesInv /\ ReaderInv /\ PagesInv => PagesAreExact
  BY <1>2 DEF PagesAreExact
<1> QED
  BY <1>1, <1>3, NextKeepsPages, ReaderInvariant, PTL DEF Spec
=============================================================================
