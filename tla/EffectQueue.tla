---------------------------- MODULE EffectQueue ----------------------------
(***************************************************************************)
(* AsyncEffectQueue of utils/effect_queue.py: retryable effects, merged by *)
(* key, run by coroutines that call run_pending, and saved to a JSONL file *)
(* that recover() reads after a restart.                                   *)
(*                                                                         *)
(* A step is one piece of a coroutine between two points where the code    *)
(* could be observed; `_persist` has no await in it, so a save belongs to  *)
(* the step that calls it, but it may raise.  What a handler has done and  *)
(* what its coroutine then does about it are two steps: a crash may come   *)
(* between them.  The turns of run_pending's loop are steps of their own,  *)
(* too, which allows more interleavings than the event loop does.          *)
(* The length of a back-off is abstracted to "some time", and so is the    *)
(* order of two effects whose back-offs have both elapsed.                 *)
(***************************************************************************)
EXTENDS Integers, Sequences, FiniteSets

CONSTANTS
    Keys,         \* the "kind:key" identifiers effects are stored under
    Handled,      \* the keys whose kind has a registered handler
    Runners,      \* coroutines that call run_pending
    MaxAttempts,  \* max_attempts of every effect
    MaxPayloads,  \* bound: payloads the consumer submits
    MaxCrashes,   \* bound: crashes of the process
    MaxRaises     \* bound: saves that raise

ASSUME QueueConstants ==
    /\ Handled \subseteq Keys
    /\ IsFiniteSet(Runners)
    /\ MaxAttempts \in Nat
    /\ MaxPayloads \in Nat
    /\ MaxCrashes \in Nat
    /\ MaxRaises \in Nat

VARIABLES
    queue,     \* _effects: the number of the object stored under a key
    effect,    \* the _Effect objects made since the process started
    submitted, \* how many payloads the consumer has submitted
    pc,        \* where each run_pending stands
    todo,      \* the rest of its `due` list, the effect at hand first
    arg,       \* the payload its handler was given
    counted,   \* _settle_count and _fail_count together, by the object counted
    disk,      \* the file: the payload in the row of each key
    rows,      \* what recover() returned and is not enqueued again yet
    boot,      \* "ready", or "booting" while a restarted process recovers
    crashes,
    raises,    \* how many saves have raised
    unsaved,   \* history: payloads whose save raised since the last save
    status,    \* history: what became of each payload
    runs       \* history: how often each object was handed to its handler

runner == <<pc, todo, arg>>
consumer == <<rows, boot, crashes>>
saving == <<raises, unsaved>>
vars == <<queue, effect, submitted, runner, counted, disk, consumer,
          saving, status, runs>>

Payloads == 1..MaxPayloads
None == 0                 \* no object, no payload, no row

Effect == [key : Keys, payload : Payloads, attempts : 0..MaxAttempts,
           due : {"asap", "waiting", "elapsed"}]

TypeOK ==
    /\ effect \in Seq(Effect)
    /\ queue \in [Keys -> None..Len(effect)]
    /\ submitted \in 0..MaxPayloads
    /\ pc \in [Runners -> {"idle", "looping", "handling", "returned", "sleeping"}]
    /\ todo \in [Runners -> Seq(1..Len(effect))]
    /\ arg \in [Runners -> {None} \cup Payloads]
    /\ counted \in Seq(Nat) /\ Len(counted) = Len(effect)
    /\ disk \in [Keys -> {None} \cup Payloads]
    /\ rows \in [Keys -> {None} \cup Payloads]
    /\ boot \in {"ready", "booting"}
    /\ crashes \in 0..MaxCrashes
    /\ raises \in 0..MaxRaises
    /\ unsaved \subseteq Payloads
    /\ status \in [Payloads ->
                      {"unused", "accepted", "replaced", "done", "failed"}]
    /\ runs \in Seq(Nat) /\ Len(runs) = Len(effect)

Init ==
    /\ queue = [k \in Keys |-> None]
    /\ effect = <<>>
    /\ submitted = 0
    /\ pc = [r \in Runners |-> "idle"]
    /\ todo = [r \in Runners |-> <<>>]
    /\ arg = [r \in Runners |-> None]
    /\ counted = <<>>
    /\ disk = [k \in Keys |-> None]
    /\ rows = [k \in Keys |-> None]
    /\ boot = "ready"
    /\ crashes = 0
    /\ raises = 0
    /\ unsaved = {}
    /\ status = [p \in Payloads |-> "unused"]
    /\ runs = <<>>

-----------------------------------------------------------------------------
(* The store and its file *)

Pending == {k \in Keys : queue[k] # None}

\* The rows _persist writes for a queue q of objects e: one for each effect.
Rows(q, e) == [k \in Keys |-> IF q[k] = None THEN None ELSE e[q[k]].payload]

\* A save that leaves the file as it is.
PersistNothing(q, e) == disk' = disk

\* _persist: a temporary file replaces the old one, all rows at once.
Persist(q, e) == disk' = Rows(q, e)

Save(q, e) == Persist(q, e) /\ unsaved' = {} /\ UNCHANGED raises

\* The write or the replacement raises: the old file stays as it is.
SaveRaises(p) ==
    /\ raises < MaxRaises
    /\ raises' = raises + 1
    /\ unsaved' = unsaved \cup {p}
    /\ UNCHANGED disk

\* enqueue under a key that holds an effect: the payload is replaced and due
\* at once; the attempts already made stay.
Merge(k, p) ==
    LET o == queue[k] IN
    /\ o # None
    /\ effect' = [effect EXCEPT ![o].payload = p, ![o].due = "asap"]
    /\ status' = [status EXCEPT ![p] = "accepted",
                                ![effect[o].payload] =
                                    IF @ = "accepted" /\ effect[o].payload # p
                                    THEN "replaced" ELSE @]
    /\ UNCHANGED <<queue, counted, runs>>

\* enqueue under a free key.
Insert(k, p) ==
    /\ queue[k] = None
    /\ effect' = Append(effect, [key |-> k, payload |-> p,
                                 attempts |-> 0, due |-> "asap"])
    /\ runs' = Append(runs, 0)
    /\ counted' = Append(counted, 0)
    /\ queue' = [queue EXCEPT ![k] = Len(effect')]
    /\ status' = [status EXCEPT ![p] = "accepted"]

\* The effect stays in the queue also when the save raises into the caller.
Enqueue(k, p) ==
    /\ Merge(k, p) \/ Insert(k, p)
    /\ Save(queue', effect') \/ SaveRaises(p)
    /\ UNCHANGED <<runner, crashes, boot>>

\* The consumer enqueues new work (once it has recovered what was left).
Submit(k) ==
    /\ boot = "ready"
    /\ submitted < MaxPayloads
    /\ submitted' = submitted + 1
    /\ Enqueue(k, submitted')
    /\ UNCHANGED rows

-----------------------------------------------------------------------------
(* run_pending *)

IsDue(o) == effect[o].due # "waiting"

\* The effect is thought due only as long as it was never retried.
DueUnlessRetried(k) == effect[queue[k]].due = "asap"
DueNow(k) == IsDue(queue[k])

\* The `due` lists run_pending may build: the stored effects that are due,
\* sorted by next_due, where 0.0 (made due by enqueue) sorts before any time
\* that has passed and equal keys keep the order of the dict.
DueLists ==
    LET due == {queue[k] : k \in {j \in Pending : DueNow(j)}} IN
    {s \in [1..Cardinality(due) -> due] :
        \A i, j \in DOMAIN s : i < j =>
            /\ s[i] # s[j]
            /\ effect[s[j]].due = "asap" =>
                  effect[s[i]].due = "asap" /\ s[i] < s[j]}

StartRun(r) ==
    /\ pc[r] = "idle" /\ boot = "ready"
    /\ \E s \in DueLists :
          /\ s # <<>>
          /\ todo' = [todo EXCEPT ![r] = s]
    /\ pc' = [pc EXCEPT ![r] = "looping"]
    /\ UNCHANGED <<queue, effect, submitted, arg, counted, disk, consumer,
                   saving, status, runs>>

\* The loop ends and run_pending returns.
EndRun(r) ==
    /\ pc[r] = "looping" /\ todo[r] = <<>>
    /\ pc' = [pc EXCEPT ![r] = "idle"]
    /\ UNCHANGED <<queue, effect, submitted, todo, arg, counted, disk,
                   consumer, saving, status, runs>>

\* The effect stays where it is.
PopNothing(o) == queue' = queue

\* _effects.pop(e._id): whatever is stored under the key of object o goes.
Pop(o) == queue' = [queue EXCEPT ![effect[o].key] = None]

\* The failure that is not counted.
CountNothing(o) == counted' = counted
CountFailure(o) == counted' = [counted EXCEPT ![o] = @ + 1]

\* _finish_failed: counts a failure and pops the effect, but saves nothing.  (A
\* payload that another run has done stays "done" in the history.)
FinishFailed(r, p) ==
    /\ CountFailure(Head(todo[r]))
    /\ Pop(Head(todo[r]))
    /\ status' = [status EXCEPT ![p] = IF @ = "done" THEN @ ELSE "failed"]
    /\ todo' = [todo EXCEPT ![r] = Tail(@)]
    /\ pc' = [pc EXCEPT ![r] = "looping"]
    /\ arg' = [arg EXCEPT ![r] = None]
    /\ UNCHANGED <<effect, submitted, disk, consumer, saving, runs>>

AtEffect(r) == pc[r] = "looping" /\ todo[r] # <<>>

\* No handler is registered for the kind.
NoHandler(r) ==
    /\ AtEffect(r)
    /\ effect[Head(todo[r])].key \notin Handled
    /\ FinishFailed(r, effect[Head(todo[r])].payload)

\* `await handler(e.payload)` begins, with the payload of that moment.
CallHandler(r) ==
    LET o == Head(todo[r]) IN
    /\ AtEffect(r)
    /\ effect[o].key \in Handled
    /\ pc' = [pc EXCEPT ![r] = "handling"]
    /\ arg' = [arg EXCEPT ![r] = effect[o].payload]
    /\ runs' = [runs EXCEPT ![o] = @ + 1]
    /\ UNCHANGED <<queue, effect, submitted, todo, counted, disk, consumer,
                   saving, status>>

\* The handler returns: what it is for is done, the queue does not know it yet.
HandlerReturns(r) ==
    /\ pc[r] = "handling"
    /\ status' = [status EXCEPT ![arg[r]] = "done"]
    /\ pc' = [pc EXCEPT ![r] = "returned"]
    /\ UNCHANGED <<queue, effect, submitted, todo, arg, counted, disk, consumer,
                   saving, runs>>

\* The coroutine goes on: the effect is settled, popped by its key and the queue
\* saved.
Settle(r) ==
    LET o == Head(todo[r]) IN
    /\ pc[r] = "returned"
    /\ counted' = [counted EXCEPT ![o] = @ + 1]
    /\ Pop(o)
    /\ Save(queue', effect)
    /\ todo' = [todo EXCEPT ![r] = Tail(@)]
    /\ pc' = [pc EXCEPT ![r] = "looping"]
    /\ arg' = [arg EXCEPT ![r] = None]
    /\ UNCHANGED <<effect, submitted, consumer, status, runs>>

\* One attempt too many.
MayRetryOnceMore(o) == effect[o].attempts <= MaxAttempts
MayRetry(o) == effect[o].attempts < MaxAttempts

\* The retry that does not count.
RetryUncounted(o) == [effect[o] EXCEPT !.due = "waiting"]
Retried(o) == [effect[o] EXCEPT !.attempts = @ + 1, !.due = "waiting"]

\* A transient error with attempts left: back off, and sleep the back-off
\* before going on to the next effect of the list.
HandlerBacksOff(r) ==
    LET o == Head(todo[r]) IN
    /\ pc[r] = "handling"
    /\ MayRetry(o)
    /\ effect' = [effect EXCEPT ![o] = Retried(o)]
    /\ pc' = [pc EXCEPT ![r] = "sleeping"]
    /\ arg' = [arg EXCEPT ![r] = None]
    /\ UNCHANGED <<queue, submitted, todo, counted, disk, consumer, saving,
                   status, runs>>

\* Any other error, or no attempts left: the effect has failed for good.
HandlerFails(r) ==
    /\ pc[r] = "handling"
    /\ FinishFailed(r, arg[r])

\* The save after the handler's success raises inside the same try: the effect is
\* settled and popped, its row stays in the file, and the run is taken for one
\* that failed, to be backed off from or counted once more.
SettleUnsaved(r) ==
    LET o == Head(todo[r]) IN
    /\ pc[r] = "returned"
    /\ Pop(o)
    /\ SaveRaises(arg[r])
    /\ arg' = [arg EXCEPT ![r] = None]
    /\ \/ /\ MayRetry(o)
          /\ effect' = [effect EXCEPT ![o] = Retried(o)]
          /\ counted' = [counted EXCEPT ![o] = @ + 1]
          /\ pc' = [pc EXCEPT ![r] = "sleeping"]
          /\ UNCHANGED todo
       \/ /\ counted' = [counted EXCEPT ![o] = @ + 2]
          /\ pc' = [pc EXCEPT ![r] = "looping"]
          /\ todo' = [todo EXCEPT ![r] = Tail(@)]
          /\ UNCHANGED effect
    /\ UNCHANGED <<submitted, consumer, status, runs>>

\* asyncio.sleep(delay) ends.
Wake(r) ==
    /\ pc[r] = "sleeping"
    /\ todo' = [todo EXCEPT ![r] = Tail(@)]
    /\ pc' = [pc EXCEPT ![r] = "looping"]
    /\ UNCHANGED <<queue, effect, submitted, arg, counted, disk, consumer,
                   saving, status, runs>>

\* The clock passes next_due of object o.
Elapse(o) ==
    /\ effect[o].due = "waiting"
    /\ effect' = [effect EXCEPT ![o].due = "elapsed"]
    /\ UNCHANGED <<queue, submitted, runner, counted, disk, consumer,
                   saving, status, runs>>

-----------------------------------------------------------------------------
(* Crash, restart and recovery *)

\* The process ends: all that is left is the file.  The consumer of the new
\* process reads it at once.
Crash ==
    /\ crashes < MaxCrashes
    /\ crashes' = crashes + 1
    /\ queue' = [k \in Keys |-> None]
    /\ effect' = <<>>
    /\ pc' = [r \in Runners |-> "idle"]
    /\ todo' = [r \in Runners |-> <<>>]
    /\ arg' = [r \in Runners |-> None]
    /\ counted' = <<>>
    /\ runs' = <<>>
    /\ unsaved' = {}
    /\ boot' = "booting"
    /\ rows' = disk   \* recover()
    /\ UNCHANGED <<submitted, disk, raises, status>>

\* The consumer enqueues a recovered row again.
Requeue(k) ==
    /\ boot = "booting" /\ rows[k] # None
    /\ Enqueue(k, rows[k])
    /\ UNCHANGED submitted
    /\ rows' = [rows EXCEPT ![k] = None]

RecoveryEnds ==
    /\ boot = "booting" /\ \A k \in Keys : rows[k] = None
    /\ boot' = "ready"
    /\ UNCHANGED <<queue, effect, submitted, runner, counted, disk, rows,
                   crashes, saving, status, runs>>

-----------------------------------------------------------------------------

Run(r) ==
    \/ StartRun(r) \/ EndRun(r)
    \/ NoHandler(r) \/ CallHandler(r)
    \/ HandlerReturns(r) \/ Settle(r) \/ SettleUnsaved(r)
    \/ HandlerBacksOff(r) \/ HandlerFails(r) \/ Wake(r)

Next ==
    \/ \E k \in Keys : Submit(k) \/ Requeue(k)
    \/ \E r \in Runners : Run(r)
    \/ \E o \in 1..Len(effect) : Elapse(o)
    \/ Crash
    \/ RecoveryEnds

Spec == Init /\ [][Next]_vars

\* The consumer keeps calling run_pending, handlers return or raise, timers
\* fire; nothing obliges anyone to enqueue, and nothing to crash.
Fairness ==
    /\ \A r \in Runners : WF_vars(Run(r))
    /\ \A o \in 1..(MaxPayloads + Cardinality(Keys)) :
          WF_vars(o <= Len(effect) /\ Elapse(o))
    /\ \A k \in Keys : WF_vars(Requeue(k))
    /\ WF_vars(RecoveryEnds)

FairSpec == Spec /\ Fairness

-----------------------------------------------------------------------------
(* Properties *)

\* What enqueue has stored is in the file with its latest payload, whatever
\* the runners do meanwhile, unless the save of that payload raised: a crash finds
\* every other pending effect (_persist at effect_queue.py:93 and :112).
PendingIsSaved ==
    \A k \in Pending :
        LET p == effect[queue[k]].payload IN disk[k] = p \/ p \in unsaved

\* A payload whose run succeeded is in the file, where a restart finds it and
\* runs it again, only from the handler's return to the save that follows it, or
\* if that save raised, or while a restart that found it is recovering.  Nothing
\* that another runner fails, merges or saves meanwhile brings a row back
\* (effect_queue.py:108-112, :120).
SettledIsNotRecovered ==
    \A k \in Keys : disk[k] # None /\ status[disk[k]] = "done" =>
        \/ \E r \in Runners : pc[r] = "returned" /\ arg[r] = disk[k]
        \/ disk[k] \in unsaved
        \/ rows[k] = disk[k]

\* However many coroutines run the queue, one _Effect object is handed to its
\* handler at most max_attempts times plus once for each of them, merges of
\* new payloads included: attempts is checked and raised with no await between
\* (effect_queue.py:114-115), and only a run that gives up is not counted.
RunsBounded ==
    \A o \in DOMAIN runs : runs[o] <= MaxAttempts + Cardinality(Runners)

\* An object that is no longer stored was counted as settled or failed, or an
\* older object of its key was counted twice: the only way for a fresh effect to
\* leave without its own run and its own count is a runner that finishes an older
\* effect of the same key once more (effect_queue.py:110-111, :154-155).
LeavesCounted ==
    \A o \in DOMAIN effect : queue[effect[o].key] # o =>
        \/ counted[o] > 0
        \/ \E e \in 1..(o - 1) : effect[e].key = effect[o].key /\ counted[e] > 1

\* Every stored effect leaves the queue in the end: retries are bounded, and
\* the sleep of one runner does not stop another effect for good.
EveryEffectLeaves ==
    \A k \in Keys : queue[k] # None ~> queue[k] = None

\* A payload that enqueue accepted, that no later enqueue replaced and whose
\* run neither succeeded nor failed is still in the queue (effect_queue.py:6:
\* a pending key's payload is replaced and becomes due at once).
AcceptedIsPending ==
    \A p \in Payloads : status[p] = "accepted" =>
        \E k \in Pending : effect[queue[k]].payload = p

\* Whatever happens, an accepted payload that is not finished is in the queue,
\* in the file, or among the rows the consumer is queueing again
\* (effect_queue.py:9: saved to disk, recoverable after a restart).
UnfinishedSurvivesRestart ==
    \A p \in Payloads : status[p] = "accepted" =>
        \/ \E k \in Pending : effect[queue[k]].payload = p
        \/ \E k \in Keys : p \in {disk[k], rows[k]}
=============================================================================
