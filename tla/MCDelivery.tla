----------------------------- MODULE MCDelivery -----------------------------
(***************************************************************************)
(* Requests of small instances of Delivery.                                *)
(***************************************************************************)
EXTENDS Delivery

CONSTANTS u1, u2, a, b, client, moscow, berlin, t1, m1, m2

Change(user, old, new, id) ==
    [op |-> "email_change", user |-> user, old |-> old, new |-> new, id |-> id]

Import(email, zone) ==
    [op |-> "upserted", email |-> email, role |-> client,
     time_zone |-> zone, contacts |-> NoContacts]

Post(email, zone) ==
    [op |-> "create", email |-> email, role |-> client,
     time_zone |-> zone, contacts |-> NoContacts]

Patch(user, email, zone) ==
    [op |-> "patch", user |-> user, email |-> email, role |-> Null,
     time_zone |-> zone, contacts |-> NoContacts]

\* Every writer that invalidates the cache.
CacheRequests == {Post(a, moscow), Patch(u1, Null, berlin),
                  Patch(u1, b, Null), Change(u1, a, b, m1)}

\* A user that changes in cal.com, and here.
DeliveryRequests == {Import(a, moscow), Import(a, berlin), Change(u1, a, b, m1)}

\* A user that changes in cal.com.
SyncRequests == {Import(a, moscow), Import(a, berlin)}
=============================================================================
