---------------------------- MODULE JournalProofs ----------------------------
(***************************************************************************)
(* Delivery implements ChangeJournal: every step of the broker, the        *)
(* handlers and their failures is a step of the journal or stutters.       *)
(***************************************************************************)
EXTENDS DeliveryProofs

-----------------------------------------------------------------------------
(***************************************************************************)
(* What is delivered, handled or rejected was sent.                        *)
(***************************************************************************)
OnlySent ==
    /\ \A m \in Messages : queue[m] > 0 => m \in sent
    /\ \A h \in Handlers : job[h] # Null /\ job[h].req \in Messages
                              => job[h].req \in sent
    /\ rejected \subseteq sent
    /\ exported \subseteq sent

LEMMA InitOnlySent == Init => OnlySent
BY DEF Init, OnlySent

\* A handler goes on, and everybody else stays.
LEMMA GotoKeepsSent ==
    ASSUME TypeInv, OnlySent, NEW h \in Handlers, job[h] # Null,
           NEW stage \in Stages, Goto(h, stage),
           UNCHANGED <<queue, rejected, outside>>
    PROVE  OnlySent'
<1>1. JobsTyped
  BY DEF TypeInv, TypeOK, JobsTyped
<1> QED
  BY <1>1, GotoKeeps DEF OnlySent, outside

LEMMA NextKeepsSent == TypeInv /\ OnlySent /\ [Next]_vars => OnlySent'
<1> SUFFICES ASSUME TypeInv, OnlySent, [Next]_vars PROVE OnlySent'
  OBVIOUS
<1> USE DEF outside
<1>1. JobsTyped /\ queue \in [Messages -> Nat]
  BY DEF TypeInv, TypeOK, JobsTyped
<1>2. CASE World
  <2>1. ASSUME NEW m \in Messages, Enqueue(m), sent' = sent \cup {m},
               exported' \subseteq exported \cup {m}, UNCHANGED <<job, rejected>>
        PROVE  OnlySent'
    BY <1>1, <2>1 DEF OnlySent, Enqueue
  <2>2. ASSUME NEW m \in Changes, SendChange(m) PROVE OnlySent'
    BY <2>1, <2>2 DEF SendChange, Changes
  <2>3. ASSUME NEW m \in Exports, Export(m) PROVE OnlySent'
    BY <2>1, <2>3 DEF Export, Exports
  <2>4. ASSUME NEW m \in Exports, Sweep(m) PROVE OnlySent'
    <3>1. m \in sent /\ sent \cup {m} = sent
      BY <2>4 DEF Sweep, OnlySent
    <3> QED
      BY <2>1, <2>4, <3>1 DEF Sweep, Exports
  <2>5. CASE Fill \/ Expire
    BY <2>5 DEF Fill, ReadUsers, ReadContacts, Keep, Expire, OnlySent
  <2> QED
    BY <1>2, <2>2, <2>3, <2>4, <2>5 DEF World
<1>3. ASSUME NEW h \in Handlers, Step(h) \/ Failure(h) PROVE OnlySent'
  <2>1. CASE Commit(h)
    <3>1. /\ JobsTyped' /\ job'[h].req = job[h].req
          /\ \A g \in Handlers : g # h => job'[g] = job[g]
      BY <1>1, <2>1, CommittedJob DEF Commit
    <3>2. job[h] # Null /\ UNCHANGED <<queue, rejected, outside>>
      BY <2>1 DEF Commit, At
    <3> QED
      BY <3>1, <3>2 DEF OnlySent
  <2>2. CASE Settle(h)
    BY <1>1, <2>2 DEF Settle, OnlySent, JobsTyped
  <2>3. CASE Reject(h)
    <3>1. job[h] \in Job /\ job[h] # Null
      BY <1>1, <2>3 DEF Reject, At, JobsTyped
    <3>2. job[h].held => job[h].req \in sent
      BY <3>1 DEF Job, OnlySent
    <3> QED
      BY <1>1, <2>3, <3>2 DEF Reject, OnlySent, JobsTyped
  <2>4. CASE ~(Commit(h) \/ Settle(h) \/ Reject(h))
    <3>1. PICK stage \in Stages : Goto(h, stage) /\ job[h] # Null
      BY <1>3, <2>4 DEF Step, Failure, Skip, Refuse, Invalidate, Publish,
           CommitUnanswered, Abort, InvalidateFails, PublishFails, At, Stages
    <3>2. UNCHANGED <<queue, rejected, outside>>
      BY <1>3, <2>4 DEF Step, Failure, Skip, Refuse, Invalidate, Publish,
           CommitUnanswered, Abort, InvalidateFails, PublishFails
    <3> QED
      BY <3>1, <3>2, GotoKeepsSent
  <2> QED
    BY <2>1, <2>2, <2>3, <2>4
<1>4. ASSUME NEW h \in Handlers, NEW r \in Requests, NEW held \in BOOLEAN,
             r \in Messages => r \in sent, job' = [job EXCEPT ![h] = NewJob(r, held)],
             UNCHANGED <<rejected, outside>>,
             \A m \in Messages : queue'[m] > 0 => m \in sent
      PROVE  OnlySent'
  <2>1. NewJob(r, held).req = r
    BY DEF NewJob
  <2> QED
    BY <1>1, <1>4, <2>1 DEF OnlySent, JobsTyped
<1>5. ASSUME NEW h \in Handlers, NEW r \in Calls, Accept(h, r) PROVE OnlySent'
  BY <1>4, <1>5 DEF Accept, Calls, OnlySent
<1>6. ASSUME NEW h \in Handlers, NEW m \in Messages, Deliver(h, m)
      PROVE  OnlySent'
  <2>1. \A x \in Messages : queue'[x] > 0 => queue[x] > 0
    BY <1>1, <1>6 DEF Deliver
  <2>2. m \in sent /\ m \in Requests
    BY <1>6 DEF Deliver, OnlySent, Messages
  <2> QED
    BY <1>4, <1>6, <2>1, <2>2 DEF Deliver, OnlySent
<1>7. CASE Disconnect \/ Restart
  <2>1. \A m \in Messages : queue'[m] > 0 => m \in sent
    <3> SUFFICES ASSUME NEW m \in Messages, queue'[m] > 0 PROVE m \in sent
      OBVIOUS
    <3>1. queue'[m] = Copies(m)
      BY <1>7 DEF Disconnect, Restart, Requeue
    <3>2. CASE Holders(m) = {}
      <4>1. Cardinality(Holders(m)) = 0
        BY <3>2, FS_EmptySet
      <4> QED
        BY <1>1, <3>1, <4>1 DEF Copies, OnlySent
    <3>3. CASE Holders(m) # {}
      BY <3>3 DEF Holders, OnlySent
    <3> QED
      BY <3>2, <3>3
  <2>2. \A h \in Handlers : job'[h] # Null =>
           job[h] # Null /\ job'[h].req = job[h].req
    <3>1. \A h \in Handlers : job[h] # Null =>
             [job[h] EXCEPT !.held = FALSE].req = job[h].req
      BY <1>1 DEF JobsTyped, Job
    <3> QED
      BY <1>7, <3>1 DEF Disconnect, Restart
  <2> QED
    BY <1>7, <2>1, <2>2 DEF Disconnect, Restart, OnlySent
<1>8. CASE UNCHANGED vars
  BY <1>8 DEF vars, OnlySent
<1> QED
  BY <1>2, <1>3, <1>5, <1>6, <1>7, <1>8 DEF Next

LEMMA SentInvariant == Spec => [](TypeInv /\ OnlySent)
<1>1. OnlySent /\ TypeInv /\ [Next]_vars => OnlySent'
  BY NextKeepsSent
<1> QED
  BY <1>1, InitOnlySent, TypeInvariant, PTL DEF Spec

-----------------------------------------------------------------------------
(***************************************************************************)
(* The changelog as the journal counts it.                                 *)
(***************************************************************************)
Entered == [i \in MessageIds |-> Cardinality(EntriesOf(i))]

\* An entry at the end counts for its own id alone.
LEMMA AppendCounts ==
    ASSUME changelog \in Seq(Entry), NEW entry \in Entry,
           changelog' = Append(changelog, entry)
    PROVE  /\ \A i \in MessageIds \ {entry.id} : EntriesOf(i)' = EntriesOf(i)
           /\ entry.id \notin MessagesIn(changelog) /\ entry.id # Null =>
                /\ Cardinality(EntriesOf(entry.id)) = 0
                /\ Cardinality(EntriesOf(entry.id)') = 1
<1>1. /\ DOMAIN changelog' = DOMAIN changelog \cup {Len(changelog) + 1}
      /\ \A k \in DOMAIN changelog : changelog'[k] = changelog[k]
      /\ changelog'[Len(changelog) + 1] = entry
      /\ Len(changelog) + 1 \notin DOMAIN changelog
  OBVIOUS
<1>2. ASSUME NEW i \in MessageIds \ {entry.id}
      PROVE  EntriesOf(i)' = EntriesOf(i)
  BY <1>1 DEF EntriesOf
<1>3. ASSUME entry.id \notin MessagesIn(changelog), entry.id # Null
      PROVE  /\ Cardinality(EntriesOf(entry.id)) = 0
             /\ Cardinality(EntriesOf(entry.id)') = 1
  <2>1. EntriesOf(entry.id) = {}
    BY <1>3 DEF EntriesOf, MessagesIn
  <2>2. EntriesOf(entry.id)' = {Len(changelog) + 1}
    BY <1>1, <2>1 DEF EntriesOf
  <2> QED
    BY <2>1, <2>2, FS_EmptySet, FS_Singleton
<1> QED
  BY <1>2, <1>3

\* A transaction enters the id of an address change that the changelog does
\* not have, or no id at all.
LEMMA TransactionEnters ==
    ASSUME TablesTyped, NEW r \in Requests, Transaction(r)
    PROVE  \/ Entered' = Entered
           \/ /\ r \in Numbered
              /\ r.id \in MessageIds
              /\ Entered[r.id] = 0
              /\ Entered' = [Entered EXCEPT ![r.id] = 1]
<1>1. CASE changelog' = changelog
  BY <1>1 DEF Entered, EntriesOf
<1>2. CASE r.op \in {"create", "upserted"}
  BY <1>1, <1>2 DEF Transaction, Registry!Serve, Registry!Create, Registry!Upsert
<1>3. CASE r.op = "patch"
  <2> DEFINE entry == [user |-> r.user, old |-> users[r.user].email,
                       new |-> r.email, id |-> Null]
  <2>1. /\ r \in PatchRequest
        /\ users[r.user] # Null
        /\ \/ changelog' = changelog
           \/ r.email # Null /\ changelog' = Append(changelog, entry)
    BY <1>3, RequestKinds
       DEF Transaction, Registry!Serve, Registry!Patch, Registry!Exists
  <2>2. ASSUME r.email # Null, changelog' = Append(changelog, entry)
        PROVE  Entered' = Entered
    <3>1. entry \in Entry /\ entry.id = Null
      BY <2>1, <2>2 DEF PatchRequest, TablesTyped, User, Entry
    <3> HIDE DEF entry
    <3>2. \A i \in MessageIds : EntriesOf(i)' = EntriesOf(i)
      BY <2>2, <3>1, AppendCounts, NullIsNoValue DEF TablesTyped
    <3> QED
      BY <3>2 DEF Entered
  <2> QED
    BY <1>1, <2>1, <2>2
<1>4. CASE r.op = "email_change"
  <2> DEFINE entry == [user |-> r.user, old |-> r.old, new |-> r.new,
                       id |-> r.id]
  <2>1. /\ r \in EmailChange
        /\ r.id \notin MessagesIn(changelog)
        /\ changelog' = Append(changelog, entry)
    BY <1>4, RequestKinds, RegistryOperators
       DEF Transaction, Registry!Serve, Registry!ChangeAddress
  <2>2. entry \in Entry /\ entry.id = r.id
    BY <2>1 DEF EmailChange, Entry
  <2> HIDE DEF entry
  <2>3. /\ \A i \in MessageIds \ {r.id} : EntriesOf(i)' = EntriesOf(i)
        /\ r.id # Null => /\ Cardinality(EntriesOf(r.id)) = 0
                          /\ Cardinality(EntriesOf(r.id)') = 1
    BY <2>1, <2>2, AppendCounts DEF TablesTyped
  <2>4. CASE r.id = Null
    BY <2>3, <2>4, NullIsNoValue DEF Entered
  <2>5. CASE r.id # Null
    <3>1. r.id \in MessageIds
      BY <2>1, <2>5 DEF EmailChange
    <3>2. r \in Numbered
      BY <1>4, <2>5 DEF Numbered, Changes, Messages
    <3>3. Entered[r.id] = 0 /\ Entered' = [Entered EXCEPT ![r.id] = 1]
      BY <2>3, <2>5, <3>1 DEF Entered
    <3> QED
      BY <3>1, <3>2, <3>3
  <2> QED
    BY <2>4, <2>5
<1> QED
  BY <1>2, <1>3, <1>4, RequestKinds

-----------------------------------------------------------------------------
(***************************************************************************)
(* The refinement.                                                         *)
(***************************************************************************)
LEMMA NumberedIds ==
    ASSUME NEW m \in Numbered
    PROVE  m.id \in MessageIds /\ m \in Requests /\ m \in Messages
BY RequestKinds DEF Numbered, Changes, Messages, EmailChange

LEMMA InitIsJournal == Init => Journal!Init
<1> SUFFICES ASSUME Init PROVE Journal!Init
  OBVIOUS
<1>1. sent = {} /\ rejected = {} /\ changelog = <<>>
  BY DEF Init, Registry!Init
<1>2. \A i \in MessageIds : EntriesOf(i) = {}
  BY <1>1 DEF EntriesOf
<1> QED
  BY <1>1, <1>2, FS_EmptySet DEF Journal!Init, IdsOf

\* A step that sends, enters or rejects one message at most.
LEMMA NextIsJournal ==
    TypeInv /\ OnlySent /\ [Next]_vars => [Journal!Next]_(Journal!journal)
<1> SUFFICES ASSUME TypeInv, OnlySent, [Next]_vars
             PROVE  [Journal!Next]_(Journal!journal)
  OBVIOUS
<1> USE DEF outside, tables
<1>1. JobsTyped /\ TablesTyped
  BY DEF TypeInv, TypeOK, JobsTyped, TablesTyped
<1>2. ASSUME UNCHANGED <<sent, rejected>>, Entered' = Entered
      PROVE  [Journal!Next]_(Journal!journal)
  BY <1>2 DEF Journal!journal, IdsOf, Entered
<1>3. ASSUME UNCHANGED <<sent, rejected, changelog>>
      PROVE  [Journal!Next]_(Journal!journal)
  BY <1>2, <1>3 DEF Entered, EntriesOf
<1>4. ASSUME NEW m \in Messages, sent' = sent \cup {m},
             UNCHANGED <<tables, rejected>>
      PROVE  [Journal!Next]_(Journal!journal)
  <2>1. Entered' = Entered /\ IdsOf(rejected)' = IdsOf(rejected)
    BY <1>4 DEF Entered, EntriesOf, IdsOf
  <2>2. CASE m \in Numbered
    <3>1. IdsOf(sent)' = IdsOf(sent) \cup {m.id} /\ m.id \in MessageIds
      BY <1>4, <2>2, NumberedIds DEF IdsOf
    <3>2. Journal!Announce(m.id)
      BY <2>1, <3>1 DEF Journal!Announce, Entered
    <3> QED
      BY <3>1, <3>2 DEF Journal!Next
  <2>3. CASE m \notin Numbered
    <3>1. IdsOf(sent)' = IdsOf(sent)
      BY <1>4, <2>3 DEF IdsOf
    <3> QED
      BY <2>1, <3>1 DEF Journal!journal, Entered
  <2> QED
    BY <2>2, <2>3
<1>5. ASSUME NEW h \in Handlers, At(h, "transaction"),
             Transaction(job[h].req), UNCHANGED <<sent, rejected>>
      PROVE  [Journal!Next]_(Journal!journal)
  <2> DEFINE r == job[h].req
  <2>1. r \in Requests /\ job[h] # Null
    BY <1>1, <1>5 DEF At, JobsTyped, Job
  <2>2. CASE Entered' = Entered
    BY <1>2, <1>5, <2>2
  <2>3. CASE /\ r \in Numbered
             /\ r.id \in MessageIds
             /\ Entered[r.id] = 0
             /\ Entered' = [Entered EXCEPT ![r.id] = 1]
    <3>1. r \in sent
      BY <2>1, <2>3, NumberedIds DEF OnlySent
    <3>2. r.id \in IdsOf(sent)
      BY <2>3, <3>1 DEF IdsOf
    <3>3. IdsOf(sent)' = IdsOf(sent) /\ IdsOf(rejected)' = IdsOf(rejected)
      BY <1>5 DEF IdsOf
    <3>4. Journal!Enter(r.id)
      BY <2>3, <3>2, <3>3 DEF Journal!Enter, Entered
    <3> QED
      BY <2>3, <3>4 DEF Journal!Next
  <2> QED
    BY <1>1, <1>5, <2>1, <2>2, <2>3, TransactionEnters
<1>6. ASSUME NEW h \in Handlers, Reject(h)
      PROVE  [Journal!Next]_(Journal!journal)
  <2> DEFINE r == job[h].req
  <2>1. job[h] \in Job /\ job[h] # Null
    BY <1>1, <1>6 DEF Reject, At, JobsTyped
  <2>2. CASE job[h].held /\ r \in Numbered
    <3>1. r \in sent /\ r.id \in MessageIds
      BY <2>1, <2>2, NumberedIds DEF OnlySent
    <3>2. /\ r.id \in IdsOf(sent)
          /\ IdsOf(rejected)' = IdsOf(rejected) \cup {r.id}
          /\ IdsOf(sent)' = IdsOf(sent)
          /\ Entered' = Entered
      BY <1>6, <2>2, <3>1 DEF Reject, IdsOf, Entered, EntriesOf
    <3>3. Journal!Refuse(r.id)
      BY <3>2 DEF Journal!Refuse, Entered
    <3> QED
      BY <3>1, <3>3 DEF Journal!Next
  <2>3. CASE ~(job[h].held /\ r \in Numbered)
    <3>1. /\ IdsOf(rejected)' = IdsOf(rejected)
          /\ IdsOf(sent)' = IdsOf(sent)
          /\ Entered' = Entered
      BY <1>6, <2>3 DEF Reject, IdsOf, Entered, EntriesOf
    <3> QED
      BY <3>1 DEF Journal!journal, Entered
  <2> QED
    BY <2>2, <2>3
<1>7. CASE World
  <2>1. ASSUME NEW m \in Changes, SendChange(m)
        PROVE  [Journal!Next]_(Journal!journal)
    BY <1>4, <2>1 DEF SendChange, Changes
  <2>2. ASSUME NEW m \in Exports, Export(m)
        PROVE  [Journal!Next]_(Journal!journal)
    BY <1>4, <2>2 DEF Export, Exports
  <2>3. CASE Fill \/ Expire \/ \E m \in Exports : Sweep(m)
    BY <1>3, <2>3 DEF Fill, ReadUsers, ReadContacts, Keep, Expire, Sweep
  <2> QED
    BY <1>7, <2>1, <2>2, <2>3 DEF World
<1>8. ASSUME NEW h \in Handlers, \/ Step(h) \/ Failure(h)
                                 \/ \E r \in Calls : Accept(h, r)
                                 \/ \E m \in Messages : Deliver(h, m)
      PROVE  [Journal!Next]_(Journal!journal)
  <2>1. CASE Commit(h) \/ CommitUnanswered(h)
    BY <1>5, <2>1 DEF Commit, CommitUnanswered
  <2>2. CASE ~(Commit(h) \/ CommitUnanswered(h) \/ Reject(h))
    <3>1. UNCHANGED <<sent, rejected, changelog>>
      BY <1>8, <2>2 DEF Step, Failure, Skip, Refuse, Invalidate, Publish,
           Settle, Abort, InvalidateFails, PublishFails, Accept, Deliver
    <3> QED
      BY <1>3, <3>1
  <2> QED
    BY <1>6, <2>1, <2>2
<1>9. CASE Disconnect \/ Restart \/ UNCHANGED vars
  BY <1>3, <1>9 DEF Disconnect, Restart, vars
<1> QED
  BY <1>7, <1>8, <1>9 DEF Next

\* What the publishers of address changes are promised holds of the consumer
\* with its broker, redeliveries, crashes and failed calls, for every set of
\* messages and handlers: Delivery implements ChangeJournal.
THEOREM DeliveryIsJournal == Spec => JournalSpec
<1>1. TypeInv /\ OnlySent /\ [Next]_vars => [Journal!Next]_(Journal!journal)
  BY NextIsJournal
<1> QED
  BY <1>1, InitIsJournal, SentInvariant, PTL DEF Spec, JournalSpec, Journal!Spec
=============================================================================
