------------------------- MODULE MCUserTransactions -------------------------
(***************************************************************************)
(* Requests of small instances of UserTransactions.                        *)
(***************************************************************************)
EXTENDS UserTransactions, TLC

CONSTANTS u1, u2, a, b, c, client, organizer, moscow, mars, t1, m1, m2

Telegram == [NoContacts EXCEPT !["telegram"] = t1]
AllGiven == [Telegram EXCEPT ![EmailChannel] = a]

\* The requests by what they ask for.
Post(email, zone) ==
    [op |-> "create", email |-> email, role |-> client,
     time_zone |-> zone, contacts |-> NoContacts]

PatchWith(user, email, role, zone, given) ==
    [op |-> "patch", user |-> user, email |-> email, role |-> role,
     time_zone |-> zone, contacts |-> given]
Readdress(user, email) == PatchWith(user, email, Null, Null, NoContacts)
Rezone(user, zone)     == PatchWith(user, Null, Null, zone, Telegram)
Assign(user, role)     == PatchWith(user, Null, role, Null, NoContacts)
AddTelegram(user)      == PatchWith(user, Null, Null, Null, Telegram)
GiveAll(user)          == PatchWith(user, Null, Null, Null, AllGiven)
Touch(user)            == PatchWith(user, Null, Null, Null, NoContacts)

Change(user, old, new, id) ==
    [op |-> "email_change", user |-> user, old |-> old, new |-> new, id |-> id]

Import(email, zone) ==
    [op |-> "upserted", email |-> email, role |-> client,
     time_zone |-> zone, contacts |-> NoContacts]

\* Messages of the queue, and PATCH of other columns than the address.
QueueRequests == {Import(a, Null), Import(b, mars), Rezone(u1, moscow),
                  Change(u1, a, b, m1), Change(u1, b, a, m2),
                  Change(u2, b, a, m2)}

\* Administrators of the REST API who set the same user's address, and one
\* message.
RestRequests == {Post(a, moscow), Post(b, mars),
                 Readdress(u1, a), Readdress(u1, b), Readdress(u1, c),
                 Assign(u1, organizer),
                 Change(u1, a, b, m1)}

\* All that can deadlock: two users whose addresses are exchanged, two changes
\* of one of them, and batches of contacts in the order of the client.
DrainRequests == {Import(a, Null), Import(b, Null), Readdress(u1, b),
                  Change(u1, a, b, Null), Change(u2, b, a, m2),
                  AddTelegram(u1), GiveAll(u1)}

\* What shows each disagreement between the code and what is said of it.
StaleContactRequests == {Import(a, Null), Change(u1, a, b, m1), Touch(u1)}
StaleReadRequests    == {Import(a, Null), Change(u1, a, b, m1),
                         Readdress(u1, a)}
ResyncRequests       == {Import(a, Null), Change(u1, a, b, m1)}
=============================================================================
