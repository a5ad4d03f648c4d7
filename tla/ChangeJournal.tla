---------------------------- MODULE ChangeJournal ----------------------------
(***************************************************************************)
(* What the consumer promises to whoever publishes changes of address with *)
(* a ce-id: a change that was announced is entered in the changelog once   *)
(* at most, however often it is delivered, and its entry stays; it may be  *)
(* refused; what nobody announced is neither.  No broker, handler, crash   *)
(* or redelivery appears here.                                             *)
(***************************************************************************)
EXTENDS Naturals

CONSTANT Ids    \* the ce-ids of changes

VARIABLES
    announced,  \* the ids of changes that were sent
    entered,    \* how many entries of the changelog have each id
    refused     \* the ids of changes that were rejected

journal == <<announced, entered, refused>>

Init ==
    /\ announced = {}
    /\ entered = [i \in Ids |-> 0]
    /\ refused = {}

Announce(i) ==
    /\ announced' = announced \cup {i}
    /\ UNCHANGED <<entered, refused>>

Enter(i) ==
    /\ i \in announced
    /\ entered[i] = 0
    /\ entered' = [entered EXCEPT ![i] = 1]
    /\ UNCHANGED <<announced, refused>>

Refuse(i) ==
    /\ i \in announced
    /\ refused' = refused \cup {i}
    /\ UNCHANGED <<announced, entered>>

Next == \E i \in Ids : Announce(i) \/ Enter(i) \/ Refuse(i)

Spec == Init /\ [][Next]_journal
=============================================================================
