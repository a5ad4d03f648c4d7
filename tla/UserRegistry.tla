---------------------------- MODULE UserRegistry ----------------------------
(***************************************************************************)
(* What event-users promises to the readers of its database: each request  *)
(* changes users, contacts and changelog at once, as if it ran alone, or   *)
(* not at all.  No worker, lock or transaction appears here.               *)
(***************************************************************************)
EXTENDS UserTables, Naturals, Sequences

VARIABLES users, contacts, changelog

registry == <<users, contacts, changelog>>

Exists(u) == users[u] # Null

\* No user but u has the key of the row.
KeyIsFree(row, u) ==
    \A x \in UserIds \ {u} : Exists(x) => Key(users[x]) # Key(row)

\* The row of u becomes row, and its contacts follow.
Store(u, row, given) ==
    /\ KeyIsFree(row, u)
    /\ users' = [users EXCEPT ![u] = row]
    /\ contacts' = [contacts EXCEPT ![u] = Merge(@, Batch(given, row.email))]

\* POST /api/users.
Create(r) ==
    /\ ZoneAccepted(r.time_zone)
    /\ \E u \in UserIds : ~Exists(u) /\ Store(u, CreatedUser(r), r.contacts)
    /\ UNCHANGED changelog

\* PATCH: an address that changes is marked and recorded with the one that
\* it replaces; without a change of address nothing is recorded.
Patch(r) ==
    LET u     == r.user
        moves == r.email # Null /\ r.email # users[u].email
    IN  /\ ZoneAccepted(r.time_zone)
        /\ Exists(u)
        /\ Store(u, PatchedUser(users[u], r, moves), r.contacts)
        /\ changelog' =
             IF moves
             THEN Append(changelog, [user |-> u, old |-> users[u].email,
                                     new |-> r.email, id |-> Null])
             ELSE changelog

\* Variant: the insert of the entry is no gate.
ChangeAddress_Again(r) ==
    /\ Exists(r.user)
    /\ Store(r.user, ReaddressedUser(users[r.user], r), NoContacts)
    /\ changelog' = Append(changelog, [user |-> r.user, old |-> r.old,
                                       new |-> r.new, id |-> r.id])

\* user.email.change_requested, once per message id.
ChangeAddress(r) ==
    /\ r.id \notin MessagesIn(changelog)
    /\ Exists(r.user)
    /\ Store(r.user, ReaddressedUser(users[r.user], r), NoContacts)
    /\ changelog' = Append(changelog, [user |-> r.user, old |-> r.old,
                                       new |-> r.new, id |-> r.id])

\* user.upserted: the user with this key is refreshed, or made.
Upsert(r) ==
    /\ \/ \E u \in UserIds :
            /\ ~Exists(u)
            /\ Store(u, ImportedUser(r), r.contacts)
       \/ \E u \in UserIds :
            /\ Exists(u)
            /\ Key(users[u]) = <<r.email, r.role>>
            /\ Store(u, RefreshedUser(users[u], r), r.contacts)
    /\ UNCHANGED changelog

Init ==
    /\ users = [u \in UserIds |-> Null]
    /\ contacts = [u \in UserIds |-> NoContacts]
    /\ changelog = <<>>

\* The transaction of a request.
Serve(r) ==
    \/ r.op = "create"       /\ Create(r)
    \/ r.op = "patch"        /\ Patch(r)
    \/ r.op = "email_change" /\ ChangeAddress(r)
    \/ r.op = "upserted"     /\ Upsert(r)

Next == \E r \in Requests : Serve(r)

Spec == Init /\ [][Next]_registry
=============================================================================
