-------------------------- MODULE AgentCacheProofs --------------------------
(***************************************************************************)
(* Proofs of the safety properties of AgentCache for any number of callers *)
(* and threads and any bounds.  Inv strengthens the properties into an     *)
(* inductive invariant; each part is proved to hold initially and to be    *)
(* preserved by every action, and the properties follow from it.           *)
(***************************************************************************)
EXTENDS AgentCache, FiniteSetTheorems, TLAPS

\* Whoever awaits awaits a task that was created, and two creators await two.
Awaits ==
    /\ \A c \in Callers : pc[c] # "idle" => on[c] \in 1..tasks
    /\ pending \in 0..tasks
    /\ \A c, d \in Creators : on[c] = on[d] => c = d

\* Every creator but the one whose entry is pending lost its entry to a clear.
CreatorsCounted ==
    Cardinality(Creators) <= clears + (IF pending # None THEN 1 ELSE 0)

\* Only the thread that holds the lock builds, and only what is missing.
BuildsUnderLock ==
    \A h \in Threads : thread[h] = "building" => lock = h /\ ~syncCached

SyncCounted == syncBuilds <= clears + (IF syncCached THEN 1 ELSE 0)

\* Without clears and cancellations, a build that runs or is done is the one
\* pending or the one cached, never both, and only done builds are handed out.
OneBuild ==
    clears = 0 /\ cancels = 0 =>
        /\ doomed = {}
        /\ cached = None \/ pending = None
        /\ cached # None => task[cached] = "done"
        /\ \A c \in Creators : on[c] = pending
        /\ \A b \in Builds : task[b] \in {"running", "done"} => b \in {cached, pending}
        /\ \A b \in handed : task[b] = "done"

KeyErrorsCounted ==
    clears = 0 =>
        /\ keyError = {}
        /\ \A h \in Threads : thread[h] = "outside" => syncCached

Inv ==
    /\ TypeOK
    /\ Awaits
    /\ PendingHasCreator
    /\ CreatorsCounted
    /\ BuildsUnderLock
    /\ SyncCounted
    /\ OneBuild
    /\ KeyErrorsCounted

-----------------------------------------------------------------------------
(* The callers and the threads share nothing but clear_cache. *)

CallerStep ==
    \/ \E c \in Callers : Hit(c) \/ Join(c) \/ Create(c) \/ Cancel(c) \/ Resume(c)
    \/ \E b \in Builds : BuildEnds(b)
    \/ UNCHANGED vars

ThreadStep ==
    \/ \E h \in Threads : Enter(h) \/ GoOn(h)
    \/ UNCHANGED vars

\* A step of a caller, or of its build, leaves the sync side alone.
LEMMA CallersLeaveSync ==
    ASSUME CallerStep
    PROVE  UNCHANGED <<sync, clears>>
BY DEF CallerStep, Hit, Join, Create, Cancel, Resume, CreatorReturns, CreatorRaises,
       WaiterLeaves, TakesResult, Resumes, BuildEnds, vars, sync

\* A step of a thread leaves the async side alone.
LEMMA ThreadsLeaveAsync ==
    ASSUME ThreadStep
    PROVE  UNCHANGED <<async, clears>>
BY DEF ThreadStep, Enter, GoOn, SyncBuildReturns, SyncBuildRaises, ReadAgain, vars,
       async

-----------------------------------------------------------------------------
(* Every part of the invariant is preserved. *)

\* The types of the async side.
LEMMA AsyncTypePreserved ==
    ASSUME AsyncTypeOK, Awaits, [Next]_vars
    PROVE  AsyncTypeOK'
<1> USE DEF AsyncTypeOK, Builds, None
<1>1. ASSUME NEW c \in Callers, Hit(c) PROVE AsyncTypeOK'
    BY <1>1 DEF Hit
<1>2. ASSUME NEW c \in Callers, Join(c) PROVE AsyncTypeOK'
    BY <1>2 DEF Join
<1>3. ASSUME NEW c \in Callers, Create(c) PROVE AsyncTypeOK'
    <2>1. tasks' \in Builds
        BY <1>3, AgentConstants DEF Create
    <2> QED
        BY <1>3, <2>1 DEF Create, NotCachedNorPending
<1>4. ASSUME NEW c \in Callers, Cancel(c) PROVE AsyncTypeOK'
    <2>1. on[c] \in Builds
        BY <1>4 DEF Cancel, Awaits
    <2>2. cancels' \in 0..MaxCancels
        BY <1>4, AgentConstants DEF Cancel
    <2> QED
        BY <1>4, <2>1, <2>2 DEF Cancel
<1>5. ASSUME NEW c \in Callers, CreatorReturns(c) PROVE AsyncTypeOK'
    <2>1. on[c] \in Builds
        BY <1>5 DEF CreatorReturns, Resumes, Awaits
    <2> QED
        BY <1>5, <2>1 DEF CreatorReturns, Resumes, CacheAgent, DropPending
<1>6. ASSUME NEW c \in Callers, CreatorRaises(c) PROVE AsyncTypeOK'
    <2>1. on[c] \in Builds
        BY <1>6 DEF CreatorRaises, Resumes, Awaits
    <2> QED
        BY <1>6, <2>1 DEF CreatorRaises, Resumes, CacheAgent, DropPending
<1>7. ASSUME NEW c \in Callers, WaiterLeaves(c) PROVE AsyncTypeOK'
    <2>1. on[c] \in Builds
        BY <1>7 DEF WaiterLeaves, TakesResult, Resumes, Awaits
    <2> QED
        BY <1>7, <2>1 DEF WaiterLeaves, TakesResult, Resumes
<1>8. ASSUME NEW b \in Builds, BuildEnds(b) PROVE AsyncTypeOK'
    BY <1>8 DEF BuildEnds
<1>9. CASE Clear
    <2>1. clears' \in 0..MaxClears
        BY <1>9, AgentConstants DEF Clear
    <2> QED
        BY <1>9, <2>1 DEF Clear
<1>10. CASE ThreadStep
    BY <1>10, ThreadsLeaveAsync DEF async
<1> QED
    BY <1>1, <1>2, <1>3, <1>4, <1>5, <1>6, <1>7, <1>8, <1>9, <1>10 DEF Next, Resume,
           GoOn, ThreadStep

\* The types of the sync side.
LEMMA SyncTypePreserved ==
    ASSUME SyncTypeOK, [Next]_vars
    PROVE  SyncTypeOK'
<1> USE DEF SyncTypeOK
<1>1. ASSUME NEW h \in Threads, Enter(h) PROVE SyncTypeOK'
    BY <1>1 DEF Enter, LockFree
<1>2. ASSUME NEW h \in Threads, SyncBuildReturns(h) PROVE SyncTypeOK'
    BY <1>2 DEF SyncBuildReturns
<1>3. ASSUME NEW h \in Threads, SyncBuildRaises(h) PROVE SyncTypeOK'
    BY <1>3 DEF SyncBuildRaises, Leaves
<1>4. ASSUME NEW h \in Threads, ReadAgain(h) PROVE SyncTypeOK'
    BY <1>4 DEF ReadAgain
<1>5. CASE Clear
    <2>1. clears' \in 0..MaxClears
        BY <1>5, AgentConstants DEF Clear
    <2> QED
        BY <1>5, <2>1 DEF Clear
<1>6. CASE CallerStep
    BY <1>6, CallersLeaveSync DEF sync
<1> QED
    BY <1>1, <1>2, <1>3, <1>4, <1>5, <1>6 DEF Next, Resume, GoOn, CallerStep

\* A new task is a number of its own, so no two creators share one.
LEMMA AwaitsPreserved ==
    ASSUME AsyncTypeOK, Awaits, [Next]_vars
    PROVE  Awaits'
<1> USE DEF AsyncTypeOK, Awaits, Creators, Builds, None
<1>1. ASSUME NEW c \in Callers, Hit(c) PROVE Awaits'
    BY <1>1 DEF Hit
<1>2. ASSUME NEW c \in Callers, Join(c) PROVE Awaits'
    BY <1>2 DEF Join
<1>3. ASSUME NEW c \in Callers, Create(c) PROVE Awaits'
    BY <1>3 DEF Create, NotCachedNorPending
<1>4. ASSUME NEW c \in Callers, Cancel(c) PROVE Awaits'
    BY <1>4 DEF Cancel
<1>5. ASSUME NEW c \in Callers, CreatorReturns(c) PROVE Awaits'
    BY <1>5 DEF CreatorReturns, Resumes, WaitEnds, GetsAgent, CacheAgent, DropPending
<1>6. ASSUME NEW c \in Callers, CreatorRaises(c) PROVE Awaits'
    BY <1>6 DEF CreatorRaises, Resumes, WaitEnds, GetsAgent, DropPending
<1>7. ASSUME NEW c \in Callers, WaiterLeaves(c) PROVE Awaits'
    BY <1>7 DEF WaiterLeaves, TakesResult, Resumes, WaitEnds, GetsAgent
<1>8. ASSUME NEW b \in Builds, BuildEnds(b) PROVE Awaits'
    BY <1>8 DEF BuildEnds
<1>9. CASE Clear
    BY <1>9 DEF Clear
<1>10. CASE ThreadStep
    BY <1>10, ThreadsLeaveAsync DEF async
<1> QED
    BY <1>1, <1>2, <1>3, <1>4, <1>5, <1>6, <1>7, <1>8, <1>9, <1>10 DEF Next, Resume,
           GoOn, ThreadStep

\* An entry comes with its creator, and no creator leaves one behind.
LEMMA PendingPreserved ==
    ASSUME AsyncTypeOK, Awaits, PendingHasCreator, [Next]_vars
    PROVE  PendingHasCreator'
<1> USE DEF PendingHasCreator, Creators, AsyncTypeOK, Awaits, Builds, None
<1>1. ASSUME NEW c \in Callers, Hit(c) PROVE PendingHasCreator'
    BY <1>1 DEF Hit
<1>2. ASSUME NEW c \in Callers, Join(c) PROVE PendingHasCreator'
    BY <1>2 DEF Join
<1>3. ASSUME NEW c \in Callers, Create(c) PROVE PendingHasCreator'
    BY <1>3 DEF Create, NotCachedNorPending
<1>4. ASSUME NEW c \in Callers, Cancel(c) PROVE PendingHasCreator'
    BY <1>4 DEF Cancel
<1>5. ASSUME NEW c \in Callers, CreatorReturns(c) PROVE PendingHasCreator'
    BY <1>5 DEF CreatorReturns, Resumes, WaitEnds, GetsAgent, CacheAgent, DropPending
<1>6. ASSUME NEW c \in Callers, CreatorRaises(c) PROVE PendingHasCreator'
    BY <1>6 DEF CreatorRaises, Resumes, WaitEnds, GetsAgent, DropPending
<1>7. ASSUME NEW c \in Callers, WaiterLeaves(c) PROVE PendingHasCreator'
    BY <1>7 DEF WaiterLeaves, TakesResult, Resumes, WaitEnds, GetsAgent
<1>8. ASSUME NEW b \in Builds, BuildEnds(b) PROVE PendingHasCreator'
    BY <1>8 DEF BuildEnds
<1>9. CASE Clear
    BY <1>9 DEF Clear
<1>10. CASE ThreadStep
    BY <1>10, ThreadsLeaveAsync DEF async
<1> QED
    BY <1>1, <1>2, <1>3, <1>4, <1>5, <1>6, <1>7, <1>8, <1>9, <1>10 DEF Next, Resume,
           GoOn, ThreadStep

\* The lock keeps the builds of the threads apart.
LEMMA LockPreserved ==
    ASSUME SyncTypeOK, BuildsUnderLock, [Next]_vars
    PROVE  BuildsUnderLock'
<1> USE DEF BuildsUnderLock, SyncTypeOK
<1>1. ASSUME NEW h \in Threads, Enter(h) PROVE BuildsUnderLock'
    BY <1>1, AgentConstants DEF Enter, LockFree
<1>2. ASSUME NEW h \in Threads, SyncBuildReturns(h) PROVE BuildsUnderLock'
    BY <1>2 DEF SyncBuildReturns
<1>3. ASSUME NEW h \in Threads, SyncBuildRaises(h) PROVE BuildsUnderLock'
    BY <1>3 DEF SyncBuildRaises, Leaves
<1>4. ASSUME NEW h \in Threads, ReadAgain(h) PROVE BuildsUnderLock'
    BY <1>4 DEF ReadAgain
<1>5. CASE Clear
    BY <1>5 DEF Clear
<1>6. CASE CallerStep
    BY <1>6, CallersLeaveSync DEF sync
<1> QED
    BY <1>1, <1>2, <1>3, <1>4, <1>5, <1>6 DEF Next, Resume, GoOn, CallerStep

\* A thread that ends a build found no agent, and nobody built meanwhile.
LEMMA SyncCountPreserved ==
    ASSUME SyncTypeOK, BuildsUnderLock, SyncCounted, [Next]_vars
    PROVE  SyncCounted'
<1> USE DEF BuildsUnderLock, SyncCounted, SyncTypeOK
<1>1. ASSUME NEW h \in Threads, Enter(h) PROVE SyncCounted'
    BY <1>1 DEF Enter, LockFree
<1>2. ASSUME NEW h \in Threads, SyncBuildReturns(h) PROVE SyncCounted'
    BY <1>2 DEF SyncBuildReturns
<1>3. ASSUME NEW h \in Threads, SyncBuildRaises(h) PROVE SyncCounted'
    BY <1>3 DEF SyncBuildRaises, Leaves
<1>4. ASSUME NEW h \in Threads, ReadAgain(h) PROVE SyncCounted'
    BY <1>4 DEF ReadAgain
<1>5. CASE Clear
    BY <1>5 DEF Clear
<1>6. CASE CallerStep
    BY <1>6, CallersLeaveSync DEF sync
<1> QED
    BY <1>1, <1>2, <1>3, <1>4, <1>5, <1>6 DEF Next, Resume, GoOn, CallerStep

\* Without clears and cancellations one build follows another.
LEMMA OneBuildPreserved ==
    ASSUME AsyncTypeOK, Awaits, OneBuild, [Next]_vars
    PROVE  OneBuild'
<1> USE DEF OneBuild, Creators, AsyncTypeOK, Awaits, Builds, None
<1>1. ASSUME NEW c \in Callers, Hit(c) PROVE OneBuild'
    BY <1>1 DEF Hit
<1>2. ASSUME NEW c \in Callers, Join(c) PROVE OneBuild'
    BY <1>2 DEF Join
<1>3. ASSUME NEW c \in Callers, Create(c) PROVE OneBuild'
    BY <1>3 DEF Create, NotCachedNorPending
<1>4. ASSUME NEW c \in Callers, Cancel(c) PROVE OneBuild'
    BY <1>4 DEF Cancel
<1>5. ASSUME NEW c \in Callers, CreatorReturns(c) PROVE OneBuild'
    <2> SUFFICES ASSUME clears = 0, cancels = 0
                 PROVE  OneBuild'
        BY <1>5 DEF CreatorReturns, Resumes
    <2>1. on[c] \in Builds /\ on[c] = pending /\ doomed' = {}
        BY <1>5 DEF CreatorReturns, Resumes
    <2>2. Creators' = {}
        BY <1>5, <2>1 DEF CreatorReturns, Resumes
    <2> QED
        BY <1>5, <2>1, <2>2 DEF CreatorReturns, Resumes,
                   WaitEnds, GetsAgent, CacheAgent, DropPending
<1>6. ASSUME NEW c \in Callers, CreatorRaises(c) PROVE OneBuild'
    <2> SUFFICES ASSUME clears = 0, cancels = 0
                 PROVE  OneBuild'
        BY <1>6 DEF CreatorRaises, Resumes
    <2>1. on[c] \in Builds /\ on[c] = pending /\ doomed' = {}
        BY <1>6 DEF CreatorRaises, Resumes
    <2>2. Creators' = {}
        BY <1>6, <2>1 DEF CreatorRaises, Resumes
    <2> QED
        BY <1>6, <2>1, <2>2 DEF CreatorRaises, Resumes,
                   WaitEnds, GetsAgent, CacheAgent, DropPending
<1>7. ASSUME NEW c \in Callers, WaiterLeaves(c) PROVE OneBuild'
    BY <1>7 DEF WaiterLeaves, TakesResult, Resumes, WaitEnds, GetsAgent
<1>8. ASSUME NEW b \in Builds, BuildEnds(b) PROVE OneBuild'
    BY <1>8 DEF BuildEnds
<1>9. CASE Clear
    BY <1>9 DEF Clear
<1>10. CASE ThreadStep
    BY <1>10, ThreadsLeaveAsync DEF async
<1> QED
    BY <1>1, <1>2, <1>3, <1>4, <1>5, <1>6, <1>7, <1>8, <1>9, <1>10 DEF Next, Resume,
           GoOn, ThreadStep

\* Without clears a thread that reads again finds the agent.
LEMMA KeyErrorPreserved ==
    ASSUME SyncTypeOK, KeyErrorsCounted, [Next]_vars
    PROVE  KeyErrorsCounted'
<1> USE DEF KeyErrorsCounted, SyncTypeOK
<1>1. ASSUME NEW h \in Threads, Enter(h) PROVE KeyErrorsCounted'
    BY <1>1 DEF Enter, LockFree
<1>2. ASSUME NEW h \in Threads, SyncBuildReturns(h) PROVE KeyErrorsCounted'
    BY <1>2 DEF SyncBuildReturns
<1>3. ASSUME NEW h \in Threads, SyncBuildRaises(h) PROVE KeyErrorsCounted'
    BY <1>3 DEF SyncBuildRaises, Leaves
<1>4. ASSUME NEW h \in Threads, ReadAgain(h) PROVE KeyErrorsCounted'
    BY <1>4 DEF ReadAgain
<1>5. CASE Clear
    BY <1>5 DEF Clear
<1>6. CASE CallerStep
    BY <1>6, CallersLeaveSync DEF sync
<1> QED
    BY <1>1, <1>2, <1>3, <1>4, <1>5, <1>6 DEF Next, Resume, GoOn, CallerStep

-----------------------------------------------------------------------------
(* Counting creators *)

\* The number of creators when one comes or goes.
LEMMA CountCreators ==
    ASSUME NEW S, NEW c, IsFiniteSet(S)
    PROVE  /\ IsFiniteSet(S \cup {c}) /\ IsFiniteSet(S \ {c})
           /\ Cardinality(S) \in Nat
           /\ c \notin S => Cardinality(S \cup {c}) = Cardinality(S) + 1
           /\ c \in S => Cardinality(S \ {c}) = Cardinality(S) - 1
BY FS_AddElement, FS_RemoveElement, FS_CardinalityType

\* A creator takes the place of the pending entry, or leaves and takes its own
\* count along whomever the entry it removes belongs to; a clear turns the
\* pending entry into one more clear.
LEMMA CreatorsPreserved ==
    ASSUME AsyncTypeOK, CreatorsCounted, [Next]_vars
    PROVE  CreatorsCounted'
<1> USE DEF AsyncTypeOK, CreatorsCounted, None
<1>0. IsFiniteSet(Creators) /\ Cardinality(Creators) \in Nat /\ clears \in Nat
    <2>1. IsFiniteSet(Creators)
        BY AgentConstants, FS_Subset DEF Creators
    <2> QED
        BY <2>1, FS_CardinalityType, AgentConstants
<1>1. ASSUME NEW c \in Callers, Create(c) PROVE CreatorsCounted'
    <2>1. Creators' = Creators \cup {c} /\ c \notin Creators
        BY <1>1 DEF Create, Creators
    <2>2. pending = None /\ pending' # None /\ clears' = clears
        BY <1>1 DEF Create, NotCachedNorPending
    <2>3. Cardinality(Creators') = Cardinality(Creators) + 1
        BY <1>0, <2>1, CountCreators
    <2> QED
        BY <1>0, <2>2, <2>3
<1>2. ASSUME NEW c \in Callers, CreatorReturns(c) \/ CreatorRaises(c)
      PROVE  CreatorsCounted'
    <2>1. Creators' = Creators \ {c} /\ c \in Creators
        BY <1>2 DEF CreatorReturns, CreatorRaises, Resumes, Creators
    <2>2. pending' = None /\ clears' = clears
        BY <1>2 DEF CreatorReturns, CreatorRaises, Resumes, DropPending
    <2>3. Cardinality(Creators') = Cardinality(Creators) - 1
        BY <1>0, <2>1, CountCreators
    <2> QED
        BY <1>0, <2>2, <2>3
<1>3. CASE Clear
    <2>1. Creators' = Creators
        BY <1>3 DEF Clear, Creators
    <2> QED
        BY <1>0, <1>3, <2>1 DEF Clear
<1>4. ASSUME NEW c \in Callers, Hit(c) \/ Join(c) \/ Cancel(c) \/ WaiterLeaves(c)
      PROVE  CreatorsCounted'
    <2>1. Creators' = Creators
        BY <1>4 DEF Hit, Join, Cancel, WaiterLeaves, TakesResult, Resumes, Creators
    <2> QED
        BY <1>4, <2>1 DEF Hit, Join, Cancel, WaiterLeaves, TakesResult, Resumes
<1>5. ASSUME NEW b \in Builds, BuildEnds(b) PROVE CreatorsCounted'
    BY <1>5 DEF BuildEnds, Creators
<1>6. CASE ThreadStep
    BY <1>6, ThreadsLeaveAsync DEF async, Creators
<1> QED
    BY <1>1, <1>2, <1>3, <1>4, <1>5, <1>6 DEF Next, Resume, GoOn, ThreadStep

-----------------------------------------------------------------------------
(* The invariant and the properties that follow from it *)

\* An empty cache with nobody at work satisfies the invariant.
LEMMA InvInit == Init => Inv
<1> SUFFICES ASSUME Init PROVE Inv
    OBVIOUS
<1> USE AgentConstants DEF Init, None
<1>1. TypeOK
    <2>1. 0 \in 0..MaxBuilds /\ 0 \in 0..MaxCancels /\ 0 \in 0..MaxClears
        OBVIOUS
    <2> QED
        BY <2>1 DEF TypeOK, AsyncTypeOK, SyncTypeOK
<1>2. Creators = {}
    BY DEF Creators
<1>3. CreatorsCounted
    BY <1>2, FS_EmptySet DEF CreatorsCounted
<1> QED
    BY <1>1, <1>2, <1>3 DEF Inv, Awaits, PendingHasCreator, BuildsUnderLock, SyncCounted,
           OneBuild, KeyErrorsCounted, Builds

\* Every step, of callers, builds, threads and clear_cache, keeps the invariant.
LEMMA InvNext == Inv /\ [Next]_vars => Inv'
<1> SUFFICES ASSUME Inv, [Next]_vars PROVE Inv'
    OBVIOUS
<1> USE DEF Inv, TypeOK
<1>1. TypeOK'
    BY AsyncTypePreserved, SyncTypePreserved
<1>2. Awaits' /\ PendingHasCreator' /\ CreatorsCounted' /\ OneBuild'
    BY AwaitsPreserved, PendingPreserved, CreatorsPreserved, OneBuildPreserved
<1>3. BuildsUnderLock' /\ SyncCounted' /\ KeyErrorsCounted'
    BY LockPreserved, SyncCountPreserved, KeyErrorPreserved
<1> QED
    BY <1>1, <1>2, <1>3

\* The properties are consequences of the invariant.
LEMMA InvImplies ==
    ASSUME Inv
    PROVE  BuildersBounded /\ OneAgent /\ SyncBuildsBounded /\ KeyErrorNeedsClear
<1> USE AgentConstants DEF Inv, TypeOK, AsyncTypeOK, SyncTypeOK
<1>1. BuildersBounded
    <2>1. Cardinality(Creators) \in Nat
        BY FS_Subset, FS_CardinalityType DEF Creators
    <2> QED
        BY <2>1 DEF BuildersBounded, CreatorsCounted
<1>2. SyncBuildsBounded
    BY DEF SyncBuildsBounded, SyncCounted
<1>3. KeyErrorNeedsClear
    BY DEF KeyErrorNeedsClear, KeyErrorsCounted
<1>4. OneAgent
    <2> SUFFICES ASSUME clears = 0, cancels = 0
                 PROVE  Cardinality(handed) <= 1
        BY DEF OneAgent
    <2> DEFINE it == IF cached # None THEN cached ELSE pending
    <2>1. handed \subseteq {it}
        BY DEF OneBuild, Builds, None
    <2>2. Cardinality({it}) = 1 /\ IsFiniteSet({it})
        BY FS_Singleton
    <2> QED
        BY <2>1, <2>2, FS_Subset
<1> QED
    BY <1>1, <1>2, <1>3, <1>4

\* The inductive invariant holds of both halves of AnalystAgentFactory, for any
\* numbers of callers, threads, clears and cancellations.
THEOREM Invariance == Spec => []Inv
    BY InvInit, InvNext, PTL DEF Spec

\* The variables keep their types.
THEOREM Typing == Spec => []TypeOK
<1>1. Inv => TypeOK
    BY DEF Inv
<1> QED
    BY <1>1, Invariance, PTL

\* No pending entry outlives the coroutine that has to remove it, for any
\* number of callers, clears and cancellations (analyst_agent.py:249-254).
THEOREM NoOrphanedEntry == Spec => []PendingHasCreator
<1>1. Inv => PendingHasCreator
    BY DEF Inv
<1> QED
    BY <1>1, Invariance, PTL

\* At most one more coroutine builds than clear_cache was called: without it,
\* cold-start calls share one build (analyst_agent.py:238-239).
THEOREM BuildsAreShared == Spec => []BuildersBounded
<1>1. Inv => BuildersBounded
    BY InvImplies
<1> QED
    BY <1>1, Invariance, PTL

\* All calls of a process that neither clears nor cancels get one agent.
THEOREM AllGetOneAgent == Spec => []OneAgent
<1>1. Inv => OneAgent
    BY InvImplies
<1> QED
    BY <1>1, Invariance, PTL

\* Threads build once, and once more for each clear (analyst_agent.py:45-46).
THEOREM ThreadsBuildOnce == Spec => []SyncBuildsBounded
<1>1. Inv => SyncBuildsBounded
    BY InvImplies
<1> QED
    BY <1>1, Invariance, PTL

\* get_cached_agent raises KeyError only if clear_cache was called.
THEOREM KeyErrorOnlyAfterClear == Spec => []KeyErrorNeedsClear
<1>1. Inv => KeyErrorNeedsClear
    BY InvImplies
<1> QED
    BY <1>1, Invariance, PTL
=============================================================================
