------------------------ MODULE ConnectionPoolProofs ------------------------
(***************************************************************************)
(* Proofs about ConnectionPool, for every number of handlers, connections  *)
(* and outages.                                                            *)
(***************************************************************************)
EXTENDS ConnectionPool, FiniteSetTheorems, TLAPS

\* What a handler has of the pool at each stage.
Fits(j) ==
    /\ j.at \in {"checkout", "waiting", "neighbour", "failed"}
         => j.holds = "none"
    /\ j.at \in {"statement", "reply"} => j.holds \in States
    /\ j.at = "connecting" => j.holds \in {"new", "broken"}

HoldsFit == \A h \in Handlers : job[h] # Null => Fits(job[h])

\* Who runs while the database is away, or uses a connection that has broken,
\* has lived through an outage.
ShakenKnow ==
    \A h \in Handlers :
        job[h] # Null /\ (~up \/ (At(h, "statement") /\ job[h].holds = "broken"))
            => h \in shaken

PoolInv == TypeOK /\ CounterIsExact /\ HoldsFit /\ ShakenKnow

PoolTyped ==
    /\ idle \in [States -> 0 .. PoolSize] /\ Idle <= PoolSize
    /\ overflow \in -PoolSize .. MaxOverflow

JobsTyped == job \in [Handlers -> Job \cup {Null}]

\* The step of one handler: j is what it does next.
Becomes(h, j) == job' = [job EXCEPT ![h] = j]

Holding(j) == j # Null /\ j.holds # "none"

-----------------------------------------------------------------------------
\* A step of one handler changes the number of holders by itself alone.
LEMMA HoldersChange ==
    ASSUME JobsTyped, NEW h \in Handlers, NEW j \in Job \cup {Null},
           Becomes(h, j)
    PROVE  /\ Cardinality(Holders) \in Nat
           /\ Holding(job[h]) => Cardinality(Holders) > 0
           /\ Holding(job[h]) <=> Holding(j)
                => Cardinality(Holders') = Cardinality(Holders)
           /\ Holding(job[h]) /\ ~Holding(j)
                => Cardinality(Holders') = Cardinality(Holders) - 1
           /\ ~Holding(job[h]) /\ Holding(j)
                => Cardinality(Holders') = Cardinality(Holders) + 1
<1>1. IsFiniteSet(Holders)
  BY PoolIsTyped, FS_Subset DEF Holders
<1>2. Cardinality(Holders) \in Nat
  BY <1>1, FS_CardinalityType
<1>3. /\ h \in Holders <=> Holding(job[h])
      /\ h \in Holders' <=> Holding(j)
      /\ \A g \in Handlers \ {h} : g \in Holders' <=> g \in Holders
  BY DEF Holders, Holding, Becomes, JobsTyped
<1>4. Holders \subseteq Handlers /\ Holders' \subseteq Handlers
  BY DEF Holders
<1>5. Holding(job[h]) => Cardinality(Holders) > 0
  BY <1>1, <1>2, <1>3, FS_EmptySet
<1>6. CASE Holding(job[h]) <=> Holding(j)
  <2>1. Holders' = Holders
    BY <1>3, <1>4, <1>6
  <2> QED
    BY <1>2, <1>5, <1>6, <2>1
<1>7. CASE Holding(job[h]) /\ ~Holding(j)
  <2>1. Holders' = Holders \ {h} /\ h \in Holders
    BY <1>3, <1>4, <1>7
  <2> QED
    BY <1>1, <1>2, <1>5, <1>7, <2>1, FS_RemoveElement
<1>8. CASE ~Holding(job[h]) /\ Holding(j)
  <2>1. Holders' = Holders \cup {h} /\ h \notin Holders
    BY <1>3, <1>4, <1>8
  <2> QED
    BY <1>1, <1>2, <1>5, <1>8, <2>1, FS_AddElement
<1> QED
  BY <1>6, <1>7, <1>8

\* What Goto means for the record of a handler.
LEMMA GotoBecomes ==
    ASSUME JobsTyped, NEW h \in Handlers, job[h] # Null,
           NEW stage \in Stages, NEW connection \in States \cup {"new", "none"},
           Goto(h, stage, connection)
    PROVE  \E j \in Job : /\ Becomes(h, j) /\ j # Null
                          /\ j.at = stage /\ j.holds = connection
<1> DEFINE j == [job[h] EXCEPT !.at = stage, !.holds = connection]
<1>1. job[h] \in Job
  BY DEF JobsTyped
<1>2. j \in Job /\ j.at = stage /\ j.holds = connection
  BY <1>1 DEF Job
<1>3. Becomes(h, j)
  BY DEF Goto, Becomes
<1> QED
  BY <1>2, <1>3, NullIsNoJob

\* A step of one handler that leaves the database alone keeps the invariant
\* if the pool still counts what it gave away.
LEMMA HandlerKeepsPool ==
    ASSUME PoolInv, NEW h \in Handlers, NEW j \in Job \cup {Null},
           Becomes(h, j), UNCHANGED database, PoolTyped',
           j # Null => Fits(j),
           shaken' = IF j = Null THEN shaken \ {h} ELSE shaken,
           j # Null => job[h] # Null,
           j # Null /\ j.at = "statement" /\ j.holds = "broken" => h \in shaken,
           /\ Holding(job[h]) <=> Holding(j) =>
                overflow' - Idle' = overflow - Idle
           /\ Holding(job[h]) /\ ~Holding(j) =>
                overflow' - Idle' = overflow - Idle - 1
           /\ ~Holding(job[h]) /\ Holding(j) =>
                overflow' - Idle' = overflow - Idle + 1
    PROVE  PoolInv'
<1>1. JobsTyped /\ PoolTyped
  BY DEF PoolInv, TypeOK, JobsTyped, PoolTyped
<1>2. /\ JobsTyped'
      /\ job'[h] = j
      /\ \A g \in Handlers : g # h => job'[g] = job[g]
  BY <1>1 DEF JobsTyped, Becomes
<1>3. TypeOK'
  BY <1>1, <1>2 DEF PoolInv, TypeOK, JobsTyped, PoolTyped, database
<1>4. HoldsFit'
  BY <1>2 DEF PoolInv, HoldsFit
<1>5. ShakenKnow'
  <2>1. up' = up
    BY DEF database
  <2>2. ASSUME NEW g \in Handlers, job'[g] # Null,
               ~up \/ (job'[g].at = "statement" /\ job'[g].holds = "broken")
        PROVE  g \in shaken'
    <3>1. CASE g = h
      <4>1. j # Null /\ job[h] # Null /\ shaken' = shaken
        BY <1>2, <2>2, <3>1
      <4>2. ~up => h \in shaken
        BY <4>1 DEF PoolInv, ShakenKnow
      <4> QED
        BY <1>2, <2>2, <3>1, <4>1, <4>2
    <3>2. CASE g # h
      <4>1. job[g] = job'[g]
        BY <1>2, <3>2
      <4>2. g \in shaken
        BY <2>2, <4>1 DEF PoolInv, ShakenKnow, At
      <4> QED
        BY <3>2, <4>2
    <3> QED
      BY <3>1, <3>2
  <2> QED
    BY <2>1, <2>2 DEF ShakenKnow, At
<1>6. CounterIsExact'
  <2>1. /\ overflow \in Int /\ overflow' \in Int
        /\ Idle \in Int /\ Idle' \in Int /\ PoolSize \in Int
    BY <1>1, PoolIsTyped DEF PoolTyped, Idle, States
  <2>2. overflow + PoolSize = Idle + Cardinality(Holders)
    BY DEF PoolInv, CounterIsExact
  <2>3. Cardinality(Holders) \in Nat /\ Cardinality(Holders') \in Int
    BY <1>1, HoldersChange
  <2>4. CASE Holding(job[h]) <=> Holding(j)
    <3>1. Cardinality(Holders') = Cardinality(Holders)
      BY <1>1, <2>4, HoldersChange
    <3>2. overflow' - Idle' = overflow - Idle
      BY <2>4
    <3> HIDE DEF Idle
    <3> QED
      BY <2>1, <2>2, <2>3, <3>1, <3>2 DEF CounterIsExact
  <2>5. CASE Holding(job[h]) /\ ~Holding(j)
    <3>1. Cardinality(Holders') = Cardinality(Holders) - 1
      BY <1>1, <2>5, HoldersChange
    <3>2. overflow' - Idle' = overflow - Idle - 1
      BY <2>5
    <3> QED
      BY <2>1, <2>2, <2>3, <3>1, <3>2 DEF CounterIsExact
  <2>6. CASE ~Holding(job[h]) /\ Holding(j)
    <3>1. Cardinality(Holders') = Cardinality(Holders) + 1
      BY <1>1, <2>6, HoldersChange
    <3>2. overflow' - Idle' = overflow - Idle + 1
      BY <2>6
    <3> QED
      BY <2>1, <2>2, <2>3, <3>1, <3>2 DEF CounterIsExact
  <2> QED
    BY <2>4, <2>5, <2>6
<1> QED
  BY <1>3, <1>4, <1>5, <1>6 DEF PoolInv

\* A connection that goes back is counted as idle, or not at all.
LEMMA ReturnCounts ==
    ASSUME PoolInv, NEW h \in Handlers, Holding(job[h]),
           NEW connection \in States, Return(connection)
    PROVE  PoolTyped' /\ overflow' - Idle' = overflow - Idle - 1
<1>1. /\ PoolTyped /\ JobsTyped
      /\ overflow + PoolSize = Idle + Cardinality(Holders)
  BY DEF PoolInv, TypeOK, PoolTyped, JobsTyped, CounterIsExact
<1>2. Cardinality(Holders) \in Nat /\ Cardinality(Holders) > 0
  <2>1. IsFiniteSet(Holders) /\ h \in Holders
    BY PoolIsTyped, FS_Subset DEF Holders, Holding
  <2> QED
    BY <2>1, FS_CardinalityType, FS_EmptySet
<1>3. CASE Idle < PoolSize
  <2>1. /\ idle' = [idle EXCEPT ![connection] = idle[connection] + 1]
        /\ overflow' = overflow
    BY <1>3 DEF Return
  <2>2. Idle' = Idle + 1 /\ idle' \in [States -> 0 .. PoolSize]
    BY <1>1, <1>3, <2>1, PoolIsTyped DEF PoolTyped, Idle, States
  <2> QED
    BY <1>1, <1>3, <2>1, <2>2, PoolIsTyped DEF PoolTyped, Idle, States
<1>4. CASE ~(Idle < PoolSize)
  <2>1. overflow' = overflow - 1 /\ idle' = idle /\ Idle' = Idle
    BY <1>4 DEF Return, Idle
  <2> QED
    BY <1>1, <1>2, <1>4, <2>1, PoolIsTyped DEF PoolTyped, Idle, States
<1> QED
  BY <1>3, <1>4

\* A handler that goes on keeps the invariant.
LEMMA GotoKeepsPool ==
    ASSUME PoolInv, NEW h \in Handlers, job[h] # Null,
           NEW stage \in Stages, NEW connection \in States \cup {"new", "none"},
           Goto(h, stage, connection), UNCHANGED <<database, shaken>>,
           PoolTyped',
           Fits([at |-> stage, holds |-> connection]),
           stage = "statement" /\ connection = "broken" => h \in shaken,
           /\ Holding(job[h]) <=> connection # "none" =>
                overflow' - Idle' = overflow - Idle
           /\ Holding(job[h]) /\ connection = "none" =>
                overflow' - Idle' = overflow - Idle - 1
           /\ ~Holding(job[h]) /\ connection # "none" =>
                overflow' - Idle' = overflow - Idle + 1
    PROVE  PoolInv'
<1>1. JobsTyped
  BY DEF PoolInv, TypeOK, JobsTyped
<1>2. PICK j \in Job : /\ Becomes(h, j) /\ j # Null
                       /\ j.at = stage /\ j.holds = connection
  BY <1>1, GotoBecomes
<1>3. Fits(j)
  BY <1>2 DEF Fits
<1>4. Holding(j) <=> connection # "none"
  BY <1>2 DEF Holding
<1>5. shaken' = IF j = Null THEN shaken \ {h} ELSE shaken
  BY <1>2
<1>6. UNCHANGED database /\ job[h] # Null
  OBVIOUS
<1>7. j.at = "statement" /\ j.holds = "broken" => h \in shaken
  BY <1>2
<1>8. /\ Holding(job[h]) <=> Holding(j) =>
           overflow' - Idle' = overflow - Idle
      /\ Holding(job[h]) /\ ~Holding(j) =>
           overflow' - Idle' = overflow - Idle - 1
      /\ ~Holding(job[h]) /\ Holding(j) =>
           overflow' - Idle' = overflow - Idle + 1
  BY <1>4
<1> QED
  BY <1>2, <1>3, <1>5, <1>6, <1>7, <1>8, HandlerKeepsPool

\* So does a handler that ends.
LEMMA EndedKeepsPool ==
    ASSUME PoolInv, NEW h \in Handlers, job[h] # Null, Ended(h), PoolTyped',
           ~Holding(job[h]) => overflow' - Idle' = overflow - Idle,
           Holding(job[h]) => overflow' - Idle' = overflow - Idle - 1
    PROVE  PoolInv'
<1>1. /\ Becomes(h, Null) /\ UNCHANGED database
      /\ shaken' = shaken \ {h}
  BY DEF Ended, Becomes
<1>2. ~Holding(Null)
  BY DEF Holding
<1> QED
  BY <1>1, <1>2, HandlerKeepsPool

\* While the pool is left alone it counts what it counted.
LEMMA PoolStays ==
    ASSUME PoolInv, UNCHANGED pool
    PROVE  PoolTyped' /\ overflow' - Idle' = overflow - Idle
BY DEF PoolInv, TypeOK, PoolTyped, pool, Idle

-----------------------------------------------------------------------------
\* The actions, one by one.
LEMMA BreakKeepsPool ==
    ASSUME PoolInv, Break
    PROVE  PoolInv'
<1>1. /\ PoolTyped /\ JobsTyped
      /\ outages \in Nat /\ outages < MaxOutages /\ MaxOutages \in Nat
  BY PoolIsTyped DEF PoolInv, TypeOK, PoolTyped, JobsTyped, Break
<1>2. PoolTyped' /\ Idle' = Idle
  BY <1>1, PoolIsTyped DEF Break, PoolTyped, Idle, States
<1>3. ASSUME NEW g \in Handlers
      PROVE  /\ job'[g] \in Job \cup {Null}
             /\ job[g] = Null <=> job'[g] = Null
             /\ job[g] # Null =>
                  /\ job'[g].at = job[g].at
                  /\ job'[g].holds = "none" <=> job[g].holds = "none"
                  /\ Fits(job[g]) => Fits(job'[g])
  <2>1. CASE job[g] # Null /\ job[g].holds = "live"
    <3>1. job'[g] = [job[g] EXCEPT !.holds = "broken"] /\ job[g] \in Job
      BY <1>1, <2>1 DEF Break, JobsTyped
    <3>2. /\ job'[g] \in Job /\ job'[g].at = job[g].at
          /\ job'[g].holds = "broken"
      BY <3>1 DEF Job, States
    <3>3. job'[g] # Null
      BY <3>2, NullIsNoJob
    <3> QED
      BY <2>1, <3>2, <3>3 DEF Fits, States
  <2>2. CASE ~(job[g] # Null /\ job[g].holds = "live")
    BY <1>1, <2>2 DEF Break, JobsTyped
  <2> QED
    BY <2>1, <2>2
<1>4. JobsTyped'
  BY <1>3 DEF Break, JobsTyped
<1>5. shaken' = {g \in Handlers : job'[g] # Null}
  BY <1>3 DEF Break
<1>6. TypeOK'
  <2>1. outages' \in 0 .. MaxOutages
    BY <1>1 DEF Break
  <2>2. shaken' \subseteq {g \in Handlers : job'[g] # Null}
    BY <1>5
  <2>3. up' \in BOOLEAN
    BY DEF Break
  <2> QED
    BY <1>2, <1>4, <2>1, <2>2, <2>3 DEF TypeOK, PoolTyped, JobsTyped
<1>7. Holders' = Holders
  BY <1>3 DEF Holders
<1>8. CounterIsExact'
  BY <1>2, <1>7 DEF PoolInv, CounterIsExact, Break
<1>9. HoldsFit'
  BY <1>3 DEF PoolInv, HoldsFit
<1>10. ShakenKnow'
  BY <1>5 DEF ShakenKnow
<1> QED
  BY <1>6, <1>8, <1>9, <1>10 DEF PoolInv

LEMMA RecoverKeepsPool ==
    ASSUME PoolInv, Recover
    PROVE  PoolInv'
BY DEF PoolInv, Recover, TypeOK, CounterIsExact, HoldsFit, ShakenKnow, pool,
       Idle, Holders, At

LEMMA BeginKeepsPool ==
    ASSUME PoolInv, NEW h \in Handlers, Begin(h)
    PROVE  PoolInv'
<1> DEFINE j == [at |-> "checkout", holds |-> "none"]
<1>1. PoolTyped' /\ Idle' = Idle /\ overflow' = overflow /\ JobsTyped
  BY DEF Begin, PoolInv, TypeOK, PoolTyped, JobsTyped, pool, Idle
<1>2. /\ j \in Job /\ j # Null
      /\ Becomes(h, j) /\ job[h] = Null /\ ~Holding(job[h]) /\ ~Holding(j)
  BY NullIsNoJob DEF Begin, Becomes, Holding, Job, Stages
<1>3. /\ job'[h] = j
      /\ \A g \in Handlers : g # h => job'[g] = job[g]
      /\ JobsTyped'
  BY <1>1, <1>2 DEF JobsTyped, Becomes
<1>4. Cardinality(Holders') = Cardinality(Holders)
  BY <1>1, <1>2, HoldersChange
<1>5. /\ shaken \subseteq shaken' /\ shaken' \subseteq shaken \cup {h}
      /\ up' = up /\ (~up => h \in shaken')
  BY DEF Begin, database
<1>6. TypeOK'
  BY <1>1, <1>2, <1>3, <1>5
     DEF PoolInv, TypeOK, PoolTyped, JobsTyped, Begin, database
<1>7. CounterIsExact'
  BY <1>1, <1>4 DEF PoolInv, CounterIsExact
<1>8. HoldsFit'
  BY <1>2, <1>3 DEF PoolInv, HoldsFit, Fits
<1>9. ShakenKnow'
  BY <1>2, <1>3, <1>5 DEF PoolInv, ShakenKnow, At
<1> QED
  BY <1>6, <1>7, <1>8, <1>9 DEF PoolInv

LEMMA TakeKeepsPool ==
    ASSUME PoolInv, NEW h \in Handlers, Take(h)
    PROVE  PoolInv'
<1>1. /\ PoolTyped /\ job[h] # Null /\ ~Holding(job[h])
      /\ UNCHANGED <<database, shaken>> /\ overflow' = overflow
  BY DEF Take, At, PoolInv, TypeOK, PoolTyped, HoldsFit, Fits, Holding
<1>2. PICK connection \in States :
        /\ idle[connection] > 0
        /\ idle' = [idle EXCEPT ![connection] = @ - 1]
        /\ Goto(h, Checked(connection), connection)
  BY DEF Take
<1>3. PoolTyped' /\ overflow' - Idle' = overflow - Idle + 1
  BY <1>1, <1>2, PoolIsTyped DEF PoolTyped, Idle, States
<1>4. /\ Checked(connection) \in Stages /\ connection # "none"
      /\ Fits([at |-> Checked(connection), holds |-> connection])
      /\ ~(Checked(connection) = "statement" /\ connection = "broken")
  BY DEF Checked, Stages, States, Fits
<1> QED
  BY <1>1, <1>2, <1>3, <1>4, GotoKeepsPool

LEMMA OpenKeepsPool ==
    ASSUME PoolInv, NEW h \in Handlers, Open(h)
    PROVE  PoolInv'
<1>1. /\ PoolTyped /\ job[h] # Null /\ ~Holding(job[h])
      /\ UNCHANGED <<database, shaken>>
      /\ Goto(h, "connecting", "new")
  BY DEF Open, At, PoolInv, TypeOK, PoolTyped, HoldsFit, Fits, Holding
<1>2. PoolTyped' /\ overflow' - Idle' = overflow - Idle + 1
  BY <1>1, PoolIsTyped DEF Open, Full, PoolTyped, Idle, States
<1>3. "connecting" \in Stages /\ Fits([at |-> "connecting", holds |-> "new"])
  BY DEF Stages, Fits
<1> QED
  BY <1>1, <1>2, <1>3, GotoKeepsPool

\* A handler that goes from one stage to another and leaves the pool alone.
LEMMA MoveKeepsPool ==
    ASSUME PoolInv, NEW h \in Handlers, job[h] # Null,
           NEW stage \in Stages, NEW connection \in States \cup {"new", "none"},
           Goto(h, stage, connection), UNCHANGED <<database, pool, shaken>>,
           Fits([at |-> stage, holds |-> connection]),
           stage = "statement" /\ connection = "broken" => h \in shaken,
           Holding(job[h]) <=> connection # "none"
    PROVE  PoolInv'
<1>1. PoolTyped' /\ overflow' - Idle' = overflow - Idle
  BY PoolStays
<1> QED
  BY <1>1, GotoKeepsPool

LEMMA WaitKeepsPool ==
    ASSUME PoolInv, NEW h \in Handlers, Wait(h) \/ TimeOut(h)
    PROVE  PoolInv'
<1>1. /\ job[h] # Null /\ ~Holding(job[h])
      /\ UNCHANGED <<database, pool, shaken>>
      /\ Goto(h, "waiting", "none") \/ Goto(h, "failed", "none")
  BY DEF Wait, TimeOut, At, PoolInv, HoldsFit, Fits, Holding
<1>2. \A stage \in {"waiting", "failed"} :
         stage \in Stages /\ Fits([at |-> stage, holds |-> "none"])
  BY DEF Stages, Fits
<1> QED
  BY <1>1, <1>2, MoveKeepsPool

LEMMA ConnectKeepsPool ==
    ASSUME PoolInv, NEW h \in Handlers, Connect(h)
    PROVE  PoolInv'
<1>1. /\ job[h] # Null /\ Holding(job[h])
      /\ UNCHANGED <<database, pool, shaken>>
      /\ Goto(h, "statement", "live")
  BY DEF Connect, At, PoolInv, HoldsFit, Fits, Holding
<1>2. /\ "statement" \in Stages /\ "live" \in States
      /\ Fits([at |-> "statement", holds |-> "live"])
  BY DEF Stages, States, Fits
<1> QED
  BY <1>1, <1>2, MoveKeepsPool

\* What a handler gives back before it goes on.
LEMMA ReturnKeepsPool ==
    ASSUME PoolInv, NEW h \in Handlers, job[h] # Null, Holding(job[h]),
           NEW stage \in {"neighbour", "failed"}, NEW connection \in States,
           Return(connection), Goto(h, stage, "none"),
           UNCHANGED <<database, shaken>>
    PROVE  PoolInv'
<1>1. PoolTyped' /\ overflow' - Idle' = overflow - Idle - 1
  BY ReturnCounts
<1>2. stage \in Stages /\ Fits([at |-> stage, holds |-> "none"])
  BY DEF Stages, Fits
<1> QED
  BY <1>1, <1>2, GotoKeepsPool

LEMMA ConnectFailsKeepsPool ==
    ASSUME PoolInv, NEW h \in Handlers, ConnectFails(h)
    PROVE  PoolInv'
<1>1. /\ job[h] # Null /\ Holding(job[h])
      /\ UNCHANGED <<database, shaken>>
      /\ Goto(h, "failed", "none")
  BY DEF ConnectFails, At, PoolInv, HoldsFit, Fits, Holding
<1>2. CASE job[h].holds = "new"
  <2>1. /\ overflow' = overflow - 1 /\ idle' = idle /\ PoolTyped /\ JobsTyped
        /\ overflow + PoolSize = Idle + Cardinality(Holders)
    BY <1>2 DEF ConnectFails, PoolInv, TypeOK, PoolTyped, JobsTyped,
                CounterIsExact
  <2>2. IsFiniteSet(Holders) /\ h \in Holders
    BY <1>1, PoolIsTyped, FS_Subset DEF Holders, Holding
  <2>3. Cardinality(Holders) \in Nat /\ Cardinality(Holders) > 0
    BY <2>2, FS_CardinalityType, FS_EmptySet
  <2>4. PoolTyped' /\ overflow' - Idle' = overflow - Idle - 1
    BY <2>1, <2>3, PoolIsTyped DEF PoolTyped, Idle, States
  <2>5. "failed" \in Stages /\ Fits([at |-> "failed", holds |-> "none"])
    BY DEF Stages, Fits
  <2> QED
    BY <1>1, <2>4, <2>5, GotoKeepsPool
<1>3. CASE job[h].holds # "new"
  <2>1. Return("broken") /\ "broken" \in States
    BY <1>3 DEF ConnectFails, States
  <2> QED
    BY <1>1, <2>1, ReturnKeepsPool
<1> QED
  BY <1>2, <1>3

LEMMA CommitKeepsPool ==
    ASSUME PoolInv, NEW h \in Handlers, Commit(h)
    PROVE  PoolInv'
<1>1. /\ job[h] # Null /\ Holding(job[h]) /\ "live" \in States
      /\ UNCHANGED <<database, shaken>>
      /\ Return("live") /\ Goto(h, "neighbour", "none")
  BY DEF Commit, Runs, At, Holding, States
<1> QED
  BY <1>1, ReturnKeepsPool

LEMMA AnswerKeepsPool ==
    ASSUME PoolInv, NEW h \in Handlers, Answer(h)
    PROVE  PoolInv'
<1>1. /\ job[h] # Null /\ Holding(job[h])
      /\ UNCHANGED <<database, pool, shaken>>
      /\ Goto(h, "reply", "live")
  BY DEF Answer, Runs, At, Holding
<1>2. /\ "reply" \in Stages /\ "live" \in States
      /\ Fits([at |-> "reply", holds |-> "live"])
  BY DEF Stages, States, Fits
<1> QED
  BY <1>1, <1>2, MoveKeepsPool

LEMMA StatementFailsKeepsPool ==
    ASSUME PoolInv, NEW h \in Handlers, StatementFails(h)
    PROVE  PoolInv'
<1>1. /\ job[h] # Null /\ Holding(job[h]) /\ "broken" \in States
      /\ UNCHANGED <<database, shaken>>
      /\ Return("broken") /\ Goto(h, "failed", "none")
  BY DEF StatementFails, At, Holding, States
<1> QED
  BY <1>1, ReturnKeepsPool

LEMMA EndKeepsPool ==
    ASSUME PoolInv, NEW h \in Handlers, Release(h) \/ Sent(h) \/ Finish(h)
    PROVE  PoolInv'
<1>1. job[h] # Null /\ Ended(h) /\ Fits(job[h])
  BY DEF Release, Sent, Finish, Runs, At, PoolInv, HoldsFit
<1>2. CASE Holding(job[h])
  <2>1. PICK connection \in States : Return(connection)
    BY <1>1, <1>2 DEF Release, Sent, Finish, Runs, At, Holding, Fits, States
  <2>2. PoolTyped' /\ overflow' - Idle' = overflow - Idle - 1
    BY <1>2, <2>1, ReturnCounts
  <2> QED
    BY <1>1, <1>2, <2>2, EndedKeepsPool
<1>3. CASE ~Holding(job[h])
  <2>1. UNCHANGED pool
    BY <1>1, <1>3 DEF Release, Sent, Finish, Runs, At, Holding, Fits, States
  <2> QED
    BY <1>1, <1>3, <2>1, PoolStays, EndedKeepsPool
<1> QED
  BY <1>2, <1>3

-----------------------------------------------------------------------------
LEMMA PoolInvInit == Init => PoolInv
<1> SUFFICES ASSUME Init
             PROVE  PoolInv
  OBVIOUS
<1>1. TypeOK /\ HoldsFit /\ ShakenKnow
  BY PoolIsTyped
     DEF Init, TypeOK, HoldsFit, ShakenKnow, Idle, States, At
<1>2. Holders = {} /\ Idle = 0
  BY DEF Init, Holders, Idle, States
<1>3. CounterIsExact
  BY <1>2, FS_EmptySet, PoolIsTyped DEF Init, CounterIsExact
<1> QED
  BY <1>1, <1>3 DEF PoolInv

LEMMA PoolInvNext == PoolInv /\ [Next]_vars => PoolInv'
<1> SUFFICES ASSUME PoolInv, [Next]_vars
             PROVE  PoolInv'
  OBVIOUS
<1>1. CASE Break
  BY <1>1, BreakKeepsPool
<1>2. CASE Recover
  BY <1>2, RecoverKeepsPool
<1>3. ASSUME NEW h \in Handlers, Begin(h) \/ Step(h)
      PROVE  PoolInv'
  BY <1>3, BeginKeepsPool, TakeKeepsPool, OpenKeepsPool, WaitKeepsPool,
     ConnectKeepsPool, ConnectFailsKeepsPool, CommitKeepsPool,
     AnswerKeepsPool, StatementFailsKeepsPool, EndKeepsPool DEF Step
<1>4. CASE UNCHANGED vars
  BY <1>4 DEF PoolInv, TypeOK, CounterIsExact, HoldsFit, ShakenKnow, Idle,
              Holders, At, vars, database, pool
<1> QED
  BY <1>1, <1>2, <1>3, <1>4 DEF Next

\* Every reachable state of the pool is of this kind.
THEOREM PoolInvHolds == Spec => []PoolInv
BY PoolInvInit, PoolInvNext, PTL DEF Spec

\* ioc.py:47-52.  The pool keeps no more idle connections than its size and
\* never grows past its overflow, and a handler holds one connection at most.
THEOREM PoolTypes == Spec => []TypeOK
<1>1. PoolInv => TypeOK
  BY DEF PoolInv
<1> QED
  BY <1>1, PoolInvHolds, PTL

\* ioc.py:47-52.  The pool knows how many connections are out, whatever
\* happens to them and however many handlers there are.
THEOREM CounterStaysExact == Spec => []CounterIsExact
<1>1. PoolInv => CounterIsExact
  BY DEF PoolInv
<1> QED
  BY <1>1, PoolInvHolds, PTL

-----------------------------------------------------------------------------
\* Who waits when the pool is empty and full waits for handlers that use what
\* they hold.
LEMMA TimeOutMeansInUse ==
    ASSUME PoolInv, NEW h \in Handlers, TimeOut(h)
    PROVE  AllInUse
<1>1. {g \in Holders : job[g].at # "neighbour"} = Holders
  BY DEF PoolInv, HoldsFit, Fits, Holders
<1>2. /\ Idle = 0 /\ overflow >= MaxOverflow
      /\ overflow \in -PoolSize .. MaxOverflow
      /\ overflow + PoolSize = Idle + Cardinality(Holders)
  BY DEF TimeOut, Full, PoolInv, TypeOK, CounterIsExact
<1>3. Cardinality(Holders) \in Nat
  BY PoolIsTyped, FS_Subset, FS_CardinalityType DEF Holders
<1>4. Cardinality(Holders) = PoolSize + MaxOverflow
  <2> HIDE DEF Idle
  <2> QED
    BY <1>2, <1>3, PoolIsTyped
<1> QED
  BY <1>1, <1>4 DEF AllInUse

\* The steps after which a handler has failed.
LEMMA FailingSteps ==
    ASSUME PoolInv, [Next]_vars, NEW h \in Handlers,
           ~At(h, "failed"), At(h, "failed")'
    PROVE  TimeOut(h) \/ ConnectFails(h) \/ StatementFails(h)
<1>1. JobsTyped /\ job'[h] # job[h]
  BY DEF PoolInv, TypeOK, JobsTyped, At
<1>2. PICK g \in Handlers : Begin(g) \/ Step(g)
  <2>1. ~Break
    BY <1>1 DEF Break, At, JobsTyped, Job
  <2>2. ~Recover /\ ~UNCHANGED vars
    BY <1>1 DEF Recover, vars
  <2> QED
    BY <2>1, <2>2 DEF Next
<1>3. g = h
  BY <1>1, <1>2
     DEF Begin, Step, Take, Open, Wait, TimeOut, Connect, ConnectFails,
         Commit, Answer, Release, StatementFails, Sent, Finish, Ended, Goto,
         JobsTyped
<1>4. job[h] \in Job \/ job[h] = Null
  BY <1>1 DEF JobsTyped
<1>5. ~Begin(h)
  BY <1>1 DEF Begin, At, JobsTyped
<1>6. ~(Release(h) \/ Sent(h) \/ Finish(h))
  BY <1>1 DEF Release, Sent, Finish, Ended, At, JobsTyped
<1>7. ASSUME NEW stage \in Stages \ {"failed"}, NEW connection, job[h] # Null,
             Goto(h, stage, connection)
      PROVE  FALSE
  BY <1>1, <1>4, <1>7 DEF Goto, At, JobsTyped, Job
<1>8. ~Take(h)
  BY <1>7 DEF Take, At, Checked, Stages
<1>9. ~(Open(h) \/ Wait(h) \/ Connect(h) \/ Commit(h) \/ Answer(h))
  BY <1>7 DEF Open, Wait, Connect, Commit, Answer, Runs, At, Stages
<1> QED
  BY <1>2, <1>3, <1>5, <1>6, <1>8, <1>9 DEF Step

\* ioc.py:51, routes.py:59 and 190, consumer.py:82.  A handler fails only if
\* the database was away in its own life, or all connections were with
\* handlers that used them when it had waited long enough.
THEOREM FailuresHaveACause == Spec => FailuresHaveCause
<1>1. ASSUME PoolInv, [Next]_vars, NEW h \in Handlers,
             ~At(h, "failed"), At(h, "failed")'
      PROVE  h \in shaken \/ AllInUse
  <2>1. CASE TimeOut(h)
    BY <1>1, <2>1, TimeOutMeansInUse
  <2>2. CASE ConnectFails(h)
    BY <1>1, <2>2 DEF ConnectFails, At, PoolInv, ShakenKnow
  <2>3. CASE StatementFails(h)
    BY <1>1, <2>3 DEF StatementFails, PoolInv, ShakenKnow, At
  <2> QED
    BY <1>1, <2>1, <2>2, <2>3, FailingSteps
<1>2. PoolInv /\ [Next]_vars =>
        \A h \in Handlers :
          ~At(h, "failed") /\ At(h, "failed")' => h \in shaken \/ AllInUse
  BY <1>1
<1> QED
  BY <1>2, PoolInvHolds, PTL DEF Spec, FailuresHaveCause
=============================================================================
