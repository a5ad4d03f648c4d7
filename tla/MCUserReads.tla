---------------------------- MODULE MCUserReads ----------------------------
(***************************************************************************)
(* Requests and queries of a small instance of UserReads.                  *)
(***************************************************************************)
EXTENDS UserReads

CONSTANTS u1, u2, u3, a, b, c, client, organizer, moscow, m1

Post(email) == [op |-> "create", email |-> email, role |-> client,
                time_zone |-> moscow, contacts |-> NoContacts]

Import(email) == [op |-> "upserted", email |-> email, role |-> client,
                  time_zone |-> moscow, contacts |-> NoContacts]

Patch(user, email, role) ==
    [op |-> "patch", user |-> user, email |-> email, role |-> role,
     time_zone |-> Null, contacts |-> NoContacts]

Change(user, old, new, id) ==
    [op |-> "email_change", user |-> user, old |-> old, new |-> new, id |-> id]

\* Users that appear, move between addresses and roles, and are refreshed,
\* and a PATCH that sets nothing.
ReadRequests == {Post(a), Import(b), Patch(u1, c, Null),
                 Patch(u1, Null, organizer), Patch(u1, Null, Null),
                 Change(u1, a, b, m1)}

List(emails, role) ==
    [op |-> "list", emails |-> emails, role |-> role, limit |-> 1]

\* All users, a search, a role, and every other read.
ReadQueries == {List(Emails, Null), List({a, b}, client),
                [op |-> "changelog", user |-> u1, limit |-> 1],
                [op |-> "by_ids", ids |-> {u1, u2}],
                [op |-> "by_ids", ids |-> UserIds],
                [op |-> "user", user |-> u1],
                [op |-> "identity", email |-> a, role |-> client]}

\* Writers differ in nothing but their names.
WriterSymmetry == Permutations(Writers)
=============================================================================
