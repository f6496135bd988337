----------------------------- MODULE AgentCache -----------------------------
(***************************************************************************)
(* AnalystAgentFactory of agent/analyst_agent.py: the cached agent that    *)
(* all requests share.  The agent is built at the first request; async     *)
(* callers that come meanwhile await the asyncio.Task of the build, threads*)
(* of the sync version wait for a lock.  Only the name "default" is used,  *)
(* and the caches keep names apart, so one name is modelled.               *)
(*                                                                         *)
(* The agent built by task n is called agent n.  Between the end of a task *)
(* and the moment an awaiting caller resumes, any other caller may run.    *)
(* Cancelling a caller that awaits a task cancels the task itself, as      *)
(* asyncio does for `await task` without a shield.                         *)
(***************************************************************************)
EXTENDS Integers, FiniteSets

CONSTANTS
    Callers,     \* coroutines that call get_cached_async_agent
    Threads,     \* threads that call get_cached_agent
    NoThread,    \* who holds the lock when it is free
    MaxBuilds,   \* bound: tasks the coroutines create
    MaxCancels,  \* bound: cancellations of a caller
    MaxClears    \* bound: calls of clear_cache

ASSUME AgentConstants ==
    /\ IsFiniteSet(Callers)
    /\ NoThread \notin Threads
    /\ MaxBuilds \in Nat
    /\ MaxCancels \in Nat
    /\ MaxClears \in Nat

VARIABLES
    cached,      \* _async_agent_cache: the agent, None if there is none
    pending,     \* _async_agent_pending: the task, None if there is none
    task,        \* the state of each build task
    tasks,       \* how many tasks were created
    pc,          \* where a caller stands
    on,          \* the task it awaits
    doomed,      \* callers that will resume with CancelledError although the
                 \*   task they awaited has ended
    handed,      \* history: the agents that calls have returned
    cancels,     \* cancellations so far
    clears,      \* calls of clear_cache so far
    lock,        \* _sync_lock: the thread that holds it
    syncCached,  \* _agent_cache holds an agent
    syncBuilds,  \* calls of create_agent that returned
    thread,      \* where a thread stands
    keyError     \* history: threads whose call raised KeyError

async == <<cached, pending, task, tasks, pc, on, doomed, handed, cancels>>
sync == <<lock, syncCached, syncBuilds, thread, keyError>>
vars == <<async, clears, sync>>

None == 0
Builds == 1..MaxBuilds

AsyncTypeOK ==
    /\ cached \in {None} \cup Builds
    /\ pending \in {None} \cup Builds
    /\ task \in [Builds -> {"unborn", "running", "done", "failed", "cancelled"}]
    /\ tasks \in 0..MaxBuilds
    /\ pc \in [Callers -> {"idle", "creating", "waiting"}]
    /\ on \in [Callers -> {None} \cup Builds]
    /\ doomed \subseteq Callers
    /\ handed \subseteq Builds
    /\ cancels \in 0..MaxCancels
    /\ clears \in 0..MaxClears

SyncTypeOK ==
    /\ clears \in 0..MaxClears
    /\ lock \in Threads \cup {NoThread}
    /\ syncCached \in BOOLEAN
    /\ syncBuilds \in Nat
    /\ thread \in [Threads -> {"idle", "building", "outside"}]
    /\ keyError \subseteq Threads

TypeOK == AsyncTypeOK /\ SyncTypeOK

Init ==
    /\ cached = None
    /\ pending = None
    /\ task = [b \in Builds |-> "unborn"]
    /\ tasks = 0
    /\ pc = [c \in Callers |-> "idle"]
    /\ on = [c \in Callers |-> None]
    /\ doomed = {}
    /\ handed = {}
    /\ cancels = 0
    /\ clears = 0
    /\ lock = NoThread
    /\ syncCached = FALSE
    /\ syncBuilds = 0
    /\ thread = [h \in Threads |-> "idle"]
    /\ keyError = {}

-----------------------------------------------------------------------------
(* get_cached_async_agent *)

\* The agent is in the cache.
Hit(c) ==
    /\ pc[c] = "idle" /\ cached # None
    /\ handed' = handed \cup {cached}
    /\ UNCHANGED <<cached, pending, task, tasks, pc, on, doomed, cancels,
                   clears, sync>>

\* A build is under way: await its task.
Join(c) ==
    /\ pc[c] = "idle" /\ cached = None /\ pending # None
    /\ pc' = [pc EXCEPT ![c] = "waiting"]
    /\ on' = [on EXCEPT ![c] = pending]
    /\ UNCHANGED <<cached, pending, task, tasks, doomed, handed, cancels,
                   clears, sync>>

\* The test that asks the cache only.
NotCached == cached = None
NotCachedNorPending == cached = None /\ pending = None

\* Nothing is there: create the task, enter it as pending and await it.
Create(c) ==
    /\ pc[c] = "idle" /\ NotCachedNorPending
    /\ tasks < MaxBuilds
    /\ tasks' = tasks + 1
    /\ task' = [task EXCEPT ![tasks'] = "running"]
    /\ pending' = tasks'
    /\ pc' = [pc EXCEPT ![c] = "creating"]
    /\ on' = [on EXCEPT ![c] = tasks']
    /\ UNCHANGED <<cached, doomed, handed, cancels, clears, sync>>

\* create_async_agent returns or raises.
BuildEnds(b) ==
    /\ task[b] = "running"
    /\ \E end \in {"done", "failed"} : task' = [task EXCEPT ![b] = end]
    /\ UNCHANGED <<cached, pending, tasks, pc, on, doomed, handed, cancels,
                   clears, sync>>

\* A caller is cancelled while it awaits: so is a running task, and with it
\* everyone who awaits it.
Cancel(c) ==
    /\ pc[c] # "idle" /\ c \notin doomed
    /\ cancels < MaxCancels
    /\ cancels' = cancels + 1
    /\ \/ /\ task[on[c]] = "running"
          /\ task' = [task EXCEPT ![on[c]] = "cancelled"]
          /\ UNCHANGED doomed
       \/ /\ task[on[c]] # "running"
          /\ doomed' = doomed \cup {c}
          /\ UNCHANGED task
    /\ UNCHANGED <<cached, pending, tasks, pc, on, handed, clears, sync>>

\* The caller that looks for the agent in the cache instead.
WaitEndsWhenCached(c) == task[on[c]] # "running" /\ (pc[c] = "waiting" => cached # None)

\* The wait of a caller is over.
WaitEnds(c) == task[on[c]] # "running"

\* `await task` comes back, with the agent or with an exception.
Resumes(c, place) ==
    /\ pc[c] = place
    /\ WaitEnds(c)
    /\ pc' = [pc EXCEPT ![c] = "idle"]
    /\ on' = [on EXCEPT ![c] = None]
    /\ doomed' = doomed \ {c}
    /\ UNCHANGED <<task, tasks, cancels, clears, sync>>

GetsAgent(c) == task[on[c]] = "done" /\ c \notin doomed

\* The entry that stays when the build has failed.
KeepPending == pending' = pending
DropPending == pending' = None

\* The creator that leaves the cache as it was.
CacheNothing(agent) == cached' = cached
CacheAgent(agent) == cached' = agent

\* The creator gets the agent: it caches it and drops the pending entry.
CreatorReturns(c) ==
    /\ Resumes(c, "creating")
    /\ GetsAgent(c)
    /\ CacheAgent(on[c])
    /\ DropPending
    /\ handed' = handed \cup {on[c]}

\* except BaseException: drop the pending entry and raise.
CreatorRaises(c) ==
    /\ Resumes(c, "creating")
    /\ ~GetsAgent(c)
    /\ DropPending
    /\ UNCHANGED <<cached, handed>>

\* The waiter that returns what the cache holds by now, None after a clear.
TakesCached(c) == cached
TakesResult(c) == on[c]

\* A waiter returns the result of the task, or raises what ended it.
WaiterLeaves(c) ==
    /\ Resumes(c, "waiting")
    /\ handed' = IF GetsAgent(c) THEN handed \cup {TakesResult(c)} ELSE handed
    /\ UNCHANGED <<cached, pending>>

-----------------------------------------------------------------------------
(* get_cached_agent *)

\* The lock that keeps nobody out.
LockIgnored == TRUE
LockFree == lock = NoThread

\* The lock is taken; the agent is there, and the lock released, or it has to
\* be built under the lock.
Enter(h) ==
    /\ thread[h] = "idle" /\ LockFree
    /\ \/ /\ syncCached
          /\ thread' = [thread EXCEPT ![h] = "outside"]
          /\ UNCHANGED lock
       \/ /\ ~syncCached
          /\ thread' = [thread EXCEPT ![h] = "building"]
          /\ lock' = h
    /\ UNCHANGED <<async, clears, syncCached, syncBuilds, keyError>>

\* create_agent returns: the agent is stored and the lock released.
SyncBuildReturns(h) ==
    /\ thread[h] = "building"
    /\ syncCached' = TRUE
    /\ syncBuilds' = syncBuilds + 1
    /\ lock' = NoThread
    /\ thread' = [thread EXCEPT ![h] = "outside"]
    /\ UNCHANGED <<async, clears, keyError>>

\* The caller that goes on although the build has raised.
GoesOn(h) == thread' = [thread EXCEPT ![h] = "outside"]
Leaves(h) == thread' = [thread EXCEPT ![h] = "idle"]

\* create_agent raises: the lock is released and the call ends.
SyncBuildRaises(h) ==
    /\ thread[h] = "building"
    /\ lock' = NoThread
    /\ Leaves(h)
    /\ UNCHANGED <<async, clears, syncCached, syncBuilds, keyError>>

\* The cache is read again, now without the lock.
ReadAgain(h) ==
    /\ thread[h] = "outside"
    /\ thread' = [thread EXCEPT ![h] = "idle"]
    /\ keyError' = IF syncCached THEN keyError ELSE keyError \cup {h}
    /\ UNCHANGED <<async, clears, lock, syncCached, syncBuilds>>

-----------------------------------------------------------------------------

\* clear_cache: no lock, no regard for builds under way.
Clear ==
    /\ clears < MaxClears
    /\ clears' = clears + 1
    /\ cached' = None
    /\ pending' = None
    /\ syncCached' = FALSE
    /\ UNCHANGED <<task, tasks, pc, on, doomed, handed, cancels, lock,
                   syncBuilds, thread, keyError>>

Resume(c) == CreatorReturns(c) \/ CreatorRaises(c) \/ WaiterLeaves(c)

GoOn(h) == SyncBuildReturns(h) \/ SyncBuildRaises(h) \/ ReadAgain(h)

Next ==
    \/ \E c \in Callers : Hit(c) \/ Join(c) \/ Create(c) \/ Cancel(c) \/ Resume(c)
    \/ \E b \in Builds : BuildEnds(b)
    \/ \E h \in Threads : Enter(h) \/ GoOn(h)
    \/ Clear

Spec == Init /\ [][Next]_vars

\* A build returns or raises some time, the event loop resumes the coroutine
\* whose task has ended, and a thread goes on; nobody has to call or to cancel.
Fairness ==
    /\ \A b \in Builds : WF_vars(BuildEnds(b))
    /\ \A c \in Callers : WF_vars(Resume(c))
    /\ \A h \in Threads : WF_vars(GoOn(h))

FairSpec == Spec /\ Fairness

-----------------------------------------------------------------------------
(* Properties *)

Creators == {c \in Callers : pc[c] = "creating"}

\* A pending entry belongs to a coroutine that will remove it, whatever build
\* failed, whoever was cancelled and whenever the caches were cleared: no later
\* caller finds the entry of a dead build (analyst_agent.py:249-251).
PendingHasCreator ==
    pending # None => \E c \in Creators : on[c] = pending

\* Cold-start calls share one build: at most one more coroutine is building
\* than clear_cache was called while builds ran (analyst_agent.py:238-239), and
\* that although a creator may remove the pending entry of another one.
BuildersBounded == Cardinality(Creators) <= clears + 1

\* As long as no cache is cleared and no caller is cancelled, all calls return
\* the same agent, across failed builds and the retries after them.
OneAgent == clears = 0 /\ cancels = 0 => Cardinality(handed) <= 1

\* Threads that start together build once (analyst_agent.py:45-46), and once
\* more after each clear_cache.
SyncBuildsBounded == syncBuilds <= clears + 1

\* Reading the cache after the lock is released fails only for a caller that
\* clear_cache overtook, never because of another thread's failed build
\* (analyst_agent.py:230-231).
KeyErrorNeedsClear == keyError # {} => clears > 0

\* Every call ends: nobody awaits a task for ever, whether its build failed,
\* was cancelled through another caller or was cleared from the pending table.
CallsEnd ==
    /\ \A c \in Callers : pc[c] # "idle" ~> pc[c] = "idle"
    /\ \A h \in Threads : thread[h] # "idle" ~> thread[h] = "idle"
=============================================================================
