-------------------------- MODULE UserTablesProofs --------------------------
(***************************************************************************)
(* Types of what the statements compute, for the proofs about the modules  *)
(* that are built from them.                                               *)
(***************************************************************************)
EXTENDS UserTables, TLAPS

LEMMA RequestKinds ==
    ASSUME NEW r \in Requests
    PROVE  /\ r.op \in {"create", "patch", "email_change", "upserted"}
           /\ r.op = "create" => r \in CreateRequest
           /\ r.op = "patch" => r \in PatchRequest
           /\ r.op = "email_change" => r \in EmailChange
           /\ r.op = "upserted" => r \in Upserted
BY RequestsAreTyped DEF CreateRequest, PatchRequest, EmailChange, Upserted

LEMMA CreatedUserType ==
    ASSUME NEW r \in CreateRequest
    PROVE  CreatedUser(r) \in User
BY DEF CreateRequest, CreatedUser, User, Sources, Zones

LEMMA ImportedUserType ==
    ASSUME NEW r \in Upserted
    PROVE  ImportedUser(r) \in User
BY DEF Upserted, ImportedUser, User, Sources, Zones

LEMMA RefreshedUserType ==
    ASSUME NEW r \in Upserted, NEW row \in User
    PROVE  /\ RefreshedUser(row, r) \in User
           /\ Key(RefreshedUser(row, r)) = Key(row)
BY DEF Upserted, RefreshedUser, User, Sources, Zones, Coalesce, Key

LEMMA PatchedUserType ==
    ASSUME NEW r \in PatchRequest, NEW row \in User, NEW mark \in BOOLEAN
    PROVE  PatchedUser(row, r, mark) \in User
BY DEF PatchRequest, PatchedUser, User, Sources, Zones, Coalesce

LEMMA ReaddressedUserType ==
    ASSUME NEW r \in EmailChange, NEW row \in User
    PROVE  ReaddressedUser(row, r) \in User
BY DEF EmailChange, ReaddressedUser, User, Sources, Zones

\* Every batch of contacts names the address as the email contact.
LEMMA BatchOfContacts ==
    ASSUME NEW given \in Contacts, NEW email \in Emails
    PROVE  /\ Batch(given, email) \in Contacts
           /\ Batch(given, email)[EmailChannel] = email
<1>1. EmailChannel \in AllChannels
  BY DEF AllChannels
<1> QED
  BY <1>1 DEF Batch, Contacts

LEMMA BatchType ==
    ASSUME NEW r \in Requests, NEW email \in Emails
    PROVE  /\ Batch(GivenContacts(r), email) \in Contacts
           /\ Batch(GivenContacts(r), email)[EmailChannel] = email
<1>1. GivenContacts(r) \in Contacts
  BY RequestKinds DEF GivenContacts, NoContacts, Contacts, CreateRequest,
     PatchRequest, EmailChange, Upserted
<1> QED
  BY <1>1, BatchOfContacts

LEMMA MergeType ==
    ASSUME NEW kept \in Contacts, NEW batch \in Contacts
    PROVE  Merge(kept, batch) \in Contacts
BY DEF Merge, Contacts, Coalesce
=============================================================================
