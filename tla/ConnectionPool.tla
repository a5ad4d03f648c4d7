--------------------------- MODULE ConnectionPool ---------------------------
(***************************************************************************)
(* The connections of event-users: one pool serves the REST API, the       *)
(* consumer, which takes every message it is given, and the readiness      *)
(* probe, while the database goes away and comes back.                     *)
(*                                                                         *)
(* A handler takes one connection, for its first statement, and no other   *)
(* before it has returned that one.  What the statements do to the tables  *)
(* is in UserTransactions and UserReads; how a handler gives its           *)
(* connection back (Commit, Answer, Release) stands for its kind: write,   *)
(* message, read or probe.                                                 *)
(***************************************************************************)
EXTENDS Integers, FiniteSets

CONSTANTS
    Handlers,       \* handlers that may run at the same time
    PoolSize,       \* connections that the pool keeps
    MaxOverflow,    \* connections it opens beyond these
    MaxOutages,     \* bound on how often the database goes away
    Null

ASSUME PoolIsTyped ==
    /\ IsFiniteSet(Handlers)
    /\ PoolSize \in Nat \ {0} /\ MaxOverflow \in Nat /\ MaxOutages \in Nat

VARIABLES
    up,         \* the database answers
    outages,    \* how often it went away
    idle,       \* how many connections of each state wait in the pool
    overflow,   \* connections opened beyond PoolSize, negative at first
    job,        \* what a handler does, Null if it does nothing
    shaken      \* running handlers that have lived through an outage

database == <<up, outages>>
pool     == <<idle, overflow>>
vars     == <<database, pool, job, shaken>>

(***************************************************************************)
(* A connection is live, or broken because the database went away after it *)
(* was opened; a new one is not open yet.                                  *)
(***************************************************************************)
States == {"live", "broken"}
Stages == {"checkout", "waiting", "connecting", "statement", "reply",
           "neighbour", "failed"}

Job == [at: Stages, holds: States \cup {"new", "none"}]

ASSUME NullIsNoJob == Null \notin Job

Holders == {h \in Handlers : job[h] # Null /\ job[h].holds # "none"}

Idle == idle["live"] + idle["broken"]

TypeOK ==
    /\ up \in BOOLEAN /\ outages \in 0 .. MaxOutages
    /\ idle \in [States -> 0 .. PoolSize] /\ Idle <= PoolSize
    /\ overflow \in -PoolSize .. MaxOverflow
    /\ job \in [Handlers -> Job \cup {Null}]
    /\ shaken \subseteq {h \in Handlers : job[h] # Null}

Init ==
    /\ up = TRUE
    /\ outages = 0
    /\ idle = [s \in States |-> 0]
    /\ overflow = -PoolSize
    /\ job = [h \in Handlers |-> Null]
    /\ shaken = {}

-----------------------------------------------------------------------------
At(h, stage) == job[h] # Null /\ job[h].at = stage

\* h goes on to a stage with a connection.
Goto(h, stage, connection) ==
    job' = [job EXCEPT ![h].at = stage, ![h].holds = connection]

\* Variant: one connection more than configured.
Full_OffByOne == overflow > MaxOverflow

Full == overflow >= MaxOverflow

\* A connection goes back; a pool that is full of idle ones closes it.
Return(connection) ==
    IF Idle < PoolSize
    THEN /\ idle' = [idle EXCEPT ![connection] = @ + 1]
         /\ UNCHANGED overflow
    ELSE /\ overflow' = overflow - 1
         /\ UNCHANGED idle

-----------------------------------------------------------------------------
(***************************************************************************)
(* The database goes away, by a restart or a lost network, and with it     *)
(* every connection there is.                                              *)
(***************************************************************************)
Break ==
    /\ up
    /\ outages < MaxOutages
    /\ up' = FALSE
    /\ outages' = outages + 1
    /\ idle' = [live |-> 0, broken |-> Idle]
    /\ job' = [h \in Handlers |->
                 IF job[h] # Null /\ job[h].holds = "live"
                 THEN [job[h] EXCEPT !.holds = "broken"] ELSE job[h]]
    /\ shaken' = {h \in Handlers : job[h] # Null}
    /\ UNCHANGED overflow

Recover ==
    /\ ~up
    /\ up' = TRUE
    /\ UNCHANGED <<outages, pool, job, shaken>>

-----------------------------------------------------------------------------
(***************************************************************************)
(* Checkout.                                                               *)
(***************************************************************************)
\* A request, a message or a probe gets to its first statement.
Begin(h) ==
    /\ job[h] = Null
    /\ job' = [job EXCEPT ![h] = [at |-> "checkout", holds |-> "none"]]
    /\ shaken' = IF up THEN shaken ELSE shaken \cup {h}
    /\ UNCHANGED <<database, pool>>

\* Variant: without pool_pre_ping a connection is used as it was left.
Checked_Not(connection) == "statement"

\* pool_pre_ping: a connection that does not answer is opened again.
Checked(connection) == IF connection = "live" THEN "statement" ELSE "connecting"

\* An idle connection; who waits has no right to it before who comes.
Take(h) ==
    /\ At(h, "checkout") \/ At(h, "waiting")
    /\ \E connection \in States :
          /\ idle[connection] > 0
          /\ idle' = [idle EXCEPT ![connection] = @ - 1]
          /\ Goto(h, Checked(connection), connection)
    /\ UNCHANGED <<database, overflow, shaken>>

\* None is idle: the pool opens another one; after the time of a waiter is
\* over it looks at the counter again.
Open(h) ==
    /\ At(h, "checkout") \/ At(h, "waiting")
    /\ Idle = 0
    /\ ~Full
    /\ overflow' = overflow + 1
    /\ Goto(h, "connecting", "new")
    /\ UNCHANGED <<database, idle, shaken>>

Wait(h) ==
    /\ At(h, "checkout")
    /\ Idle = 0
    /\ Full
    /\ Goto(h, "waiting", "none")
    /\ UNCHANGED <<database, pool, shaken>>

TimeOut(h) ==
    /\ At(h, "waiting")
    /\ Idle = 0
    /\ Full
    /\ Goto(h, "failed", "none")
    /\ UNCHANGED <<database, pool, shaken>>

Connect(h) ==
    /\ At(h, "connecting")
    /\ up
    /\ Goto(h, "statement", "live")
    /\ UNCHANGED <<database, pool, shaken>>

\* A new connection is uncounted, which wakes nobody; an old one goes back.
ConnectFails(h) ==
    /\ At(h, "connecting")
    /\ ~up
    /\ IF job[h].holds = "new"
       THEN overflow' = overflow - 1 /\ UNCHANGED idle
       ELSE Return("broken")
    /\ Goto(h, "failed", "none")
    /\ UNCHANGED <<database, shaken>>

-----------------------------------------------------------------------------
(***************************************************************************)
(* Handlers with a connection.                                             *)
(***************************************************************************)
Runs(h) == At(h, "statement") /\ job[h].holds = "live"

\* Variant: the session is committed after the call to the neighbour.
Commit_Keeps(h) ==
    /\ Runs(h)
    /\ Goto(h, "neighbour", "live")
    /\ UNCHANGED <<database, pool, shaken>>

\* The commit of a write or a message returns the connection before the
\* handler calls event-admin or publishes.
Commit(h) ==
    /\ Runs(h)
    /\ Return("live")
    /\ Goto(h, "neighbour", "none")
    /\ UNCHANGED <<database, shaken>>

\* A read, or a write that is refused, keeps its session until its answer has
\* been sent.
Answer(h) ==
    /\ Runs(h)
    /\ Goto(h, "reply", "live")
    /\ UNCHANGED <<database, pool, shaken>>

Ended(h) ==
    /\ job' = [job EXCEPT ![h] = Null]
    /\ shaken' = shaken \ {h}
    /\ UNCHANGED database

\* The probe has its answer, a message is refused and rolled back.
Release(h) ==
    /\ Runs(h)
    /\ Return("live")
    /\ Ended(h)

\* The connection breaks under a statement.
StatementFails(h) ==
    /\ At(h, "statement")
    /\ job[h].holds = "broken"
    /\ Return("broken")
    /\ Goto(h, "failed", "none")
    /\ UNCHANGED <<database, shaken>>

\* Variant: provide_session leaves the session open.
Sent_Unclosed(h) ==
    /\ At(h, "reply")
    /\ UNCHANGED pool
    /\ Ended(h)

\* The answer has been sent, and the session is closed.
Sent(h) ==
    /\ At(h, "reply")
    /\ Return(job[h].holds)
    /\ Ended(h)

\* Variant: a handler that has failed starts over.
Finish_Retries(h) ==
    /\ At(h, "neighbour") \/ At(h, "failed")
    /\ IF job[h].holds = "none" THEN UNCHANGED pool ELSE Return(job[h].holds)
    /\ IF At(h, "failed")
       THEN Goto(h, "checkout", "none") /\ UNCHANGED <<database, shaken>>
       ELSE Ended(h)

\* The call to the neighbour is over, or the failure has been answered.
Finish(h) ==
    /\ At(h, "neighbour") \/ At(h, "failed")
    /\ IF job[h].holds = "none" THEN UNCHANGED pool ELSE Return(job[h].holds)
    /\ Ended(h)

-----------------------------------------------------------------------------
Step(h) ==
    \/ Take(h) \/ Open(h) \/ Wait(h) \/ TimeOut(h)
    \/ Connect(h) \/ ConnectFails(h)
    \/ Commit(h) \/ Answer(h) \/ Release(h) \/ StatementFails(h)
    \/ Sent(h) \/ Finish(h)

Next ==
    \/ Break \/ Recover
    \/ \E h \in Handlers : Begin(h) \/ Step(h)

\* The event loop runs every handler, statements and calls end, and a wait
\* for a connection is over after pool_timeout.
Fairness == \A h \in Handlers : WF_vars(Step(h))

Spec     == Init /\ [][Next]_vars
LiveSpec == Spec /\ Fairness

-----------------------------------------------------------------------------
(***************************************************************************)
(* Properties.                                                             *)
(***************************************************************************)
\* ioc.py:47-52.  The pool never believes that connections are out which are
\* not: what it counts is idle or with a running handler, through broken
\* connections, failed connects and checkouts that time out.
CounterIsExact == overflow + PoolSize = Idle + Cardinality(Holders)

\* All connections are out, with handlers that use the database or send an
\* answer: none is with one that waits for event-admin or the broker.
AllInUse ==
    Cardinality({h \in Holders : job[h].at # "neighbour"})
        = PoolSize + MaxOverflow

\* ioc.py:51, routes.py:59 and 190, consumer.py:82.  A handler fails, so that
\* a message is rejected or the probe answers 503, for one of two reasons
\* alone: the database was away during its own life, or AllInUse when it had
\* waited long enough.  An outage that was over before leaves nothing behind,
\* and a slow neighbour costs nobody a connection.
FailuresHaveCause ==
    [][\A h \in Handlers :
          ~At(h, "failed") /\ At(h, "failed")' => h \in shaken \/ AllInUse]_vars

\* However many messages arrive, no handler waits for ever.
HandlersEnd == \A h \in Handlers : job[h] # Null ~> job[h] = Null
=============================================================================
