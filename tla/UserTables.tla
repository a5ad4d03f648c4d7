----------------------------- MODULE UserTables -----------------------------
(***************************************************************************)
(* The tables of event-users and the requests that write them.             *)
(*                                                                         *)
(* A row of "users" keeps the columns whose values decide anything: the    *)
(* unique key (email, role), time_zone and email_source.  The column name  *)
(* is treated everywhere exactly as time_zone is, and locale is written by *)
(* nobody.  The contacts of a user are a function from channels to contact *)
(* ids, because (user_id, channel) is unique.  A changelog entry drops     *)
(* changed_by, which is copied and never read.                             *)
(***************************************************************************)

CONSTANTS
    UserIds,        \* the uuids that gen_random_uuid() hands out
    Emails,         \* email addresses
    Roles,          \* "client" and "organizer"
    ValidZones,     \* names that ZoneInfo() knows
    BadZones,       \* names that ZoneInfo() refuses
    Channels,       \* contact channels other than "email"
    ContactIds,     \* contact ids other than the user's own address
    MessageIds,     \* the ce-id of CloudEvents
    Null,           \* None in Python, NULL in SQL
    Requests        \* the requests and messages of an instance

EmailChannel == "email"
AllChannels  == Channels \cup {EmailChannel}
Zones        == ValidZones \cup BadZones
Sources      == {"crm", "admin"}

(***************************************************************************)
(* Rows.                                                                   *)
(***************************************************************************)
User == [email: Emails, role: Roles, time_zone: Zones \cup {Null},
         email_source: Sources]

\* The contacts of one user, and a batch of contacts for one statement: Null
\* is a channel without a row, or one that the batch does not mention.
Contacts   == [AllChannels -> ContactIds \cup Emails \cup {Null}]
NoContacts == [c \in AllChannels |-> Null]

Entry == [user: UserIds, old: Emails, new: Emails,
          id: MessageIds \cup {Null}]

(***************************************************************************)
(* Requests: POST /api/users, PATCH /api/users/id/{user_id} and the two    *)
(* kinds of CloudEvents of the queue events.user.email.                    *)
(***************************************************************************)
CreateRequest == [op: {"create"}, email: Emails, role: Roles,
                  time_zone: Zones, contacts: Contacts]

PatchRequest  == [op: {"patch"}, user: UserIds, email: Emails \cup {Null},
                  role: Roles \cup {Null}, time_zone: Zones \cup {Null},
                  contacts: Contacts]

EmailChange   == [op: {"email_change"}, user: UserIds, old: Emails,
                  new: Emails, id: MessageIds \cup {Null}]

Upserted      == [op: {"upserted"}, email: Emails, role: Roles,
                  time_zone: Zones \cup {Null}, contacts: Contacts]

ASSUME RequestsAreTyped ==
    Requests \subseteq CreateRequest \cup PatchRequest
                       \cup EmailChange \cup Upserted

ASSUME NullIsNoValue ==
    /\ Null \notin UserIds \cup Emails \cup Roles \cup Zones
    /\ Null \notin ContactIds \cup MessageIds
    /\ Null \notin User \cup Contacts \cup Entry \cup Requests

ASSUME EmailIsAChannelOfItsOwn == EmailChannel \notin Channels

(***************************************************************************)
(* What the statements compute.                                            *)
(***************************************************************************)
\* COALESCE(given, kept), and the "is not None" tests of _apply_update.
Coalesce(given, kept) == IF given = Null THEN kept ELSE given

Key(row) == <<row.email, row.role>>

\* _validate_timezone: None and the names of the tz database pass.
ZoneAccepted(zone) == zone \in ValidZones \cup {Null}

\* INSERT INTO users of create_user: email_source takes its default.
CreatedUser(r) ==
    [email |-> r.email, role |-> r.role, time_zone |-> r.time_zone,
     email_source |-> "crm"]

\* A PATCH body without a column of users builds no UPDATE.
SetsNothing(r) == r.email = Null /\ r.role = Null /\ r.time_zone = Null

\* Variant: every column of the body is set, given or not.
PatchedUser_SetsNone(row, r, mark) ==
    [email |-> r.email, role |-> r.role, time_zone |-> r.time_zone,
     email_source |-> IF mark THEN "admin" ELSE row.email_source]

\* The SET clauses of _apply_update.
PatchedUser(row, r, mark) ==
    [email        |-> Coalesce(r.email, row.email),
     role         |-> Coalesce(r.role, row.role),
     time_zone    |-> Coalesce(r.time_zone, row.time_zone),
     email_source |-> IF mark THEN "admin" ELSE row.email_source]

\* The UPDATE of handle_email_change.
ReaddressedUser(row, r) ==
    [row EXCEPT !.email = r.new, !.email_source = "admin"]

\* The two arms of the upsert from the CRM.
ImportedUser(r) ==
    [email |-> r.email, role |-> r.role, time_zone |-> r.time_zone,
     email_source |-> "crm"]
RefreshedUser(row, r) ==
    [row EXCEPT !.time_zone = Coalesce(r.time_zone, @),
                !.email_source = "crm"]

\* The contacts that a request carries for its user; a change of address
\* carries none.
GivenContacts(r) == IF r.op = "email_change" THEN NoContacts ELSE r.contacts

\* One batch of _upsert_contacts: the last contact of a channel wins, and
\* every caller puts the user's address last.
Batch(given, email) == [given EXCEPT ![EmailChannel] = email]

\* Variant: ON CONFLICT DO NOTHING.
Merge_KeepsOld(kept, batch) ==
    [c \in AllChannels |-> Coalesce(kept[c], batch[c])]

\* ON CONFLICT (user_id, channel) DO UPDATE: a batch adds and replaces, and
\* never deletes.
Merge(kept, batch) == [c \in AllChannels |-> Coalesce(batch[c], kept[c])]

\* The rows of the message ids that the unique index refuses twice.
MessagesIn(log) == {log[i].id : i \in DOMAIN log} \ {Null}
=============================================================================
