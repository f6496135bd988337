------------------------ MODULE CheckpointCleanup ------------------------
(***************************************************************************)
(* The life of the server's worker processes (lifespan of api/main.py,     *)
(* setup_checkpointer and setup_store of middleware/config.py) and the     *)
(* cleanup of the saved conversations (utils/checkpoint_cleanup.py), which *)
(* every worker runs when it starts and a request may start, beside the    *)
(* turns that the other workers answer.                                    *)
(*                                                                         *)
(* The three tables belong to the saver, a library: a turn loads the last  *)
(* checkpoint of its thread, attaches writes to it and saves the next      *)
(* checkpoint with the blobs it refers to.  One checkpoint per turn is     *)
(* modelled.  Cleanup is modelled statement by statement: the code opens   *)
(* no transaction, and each statement is committed when it returns.        *)
(***************************************************************************)
EXTENDS Integers, FiniteSets, FiniteSetsExt

CONSTANTS
    Threads,     \* conversations
    Workers,     \* server processes
    Keep,        \* days_to_keep
    MaxDay,      \* bound: the last day
    MaxTurns,    \* bound: the turns of each thread
    MaxCleanups  \* bound: the cleanups of all workers together

ASSUME CleanupConstants ==
    /\ Keep \in Nat \ {0}
    /\ MaxDay \in Nat
    /\ MaxTurns \in [Threads -> Nat]
    /\ MaxCleanups \in Nat

VARIABLES
    hasCreatedAt,     \* checkpoints has the column created_at
    hasConversations, \* the table conversations exists
    listed,     \* the threads it lists
    day,        \* today
    rows,       \* checkpoints: [thread, id, day], day being created_at
    blobs,      \* checkpoint_blobs: <<thread, id of the checkpoint>>
    writes,     \* checkpoint_writes: <<thread, id of the checkpoint>>
    stage,      \* where a worker's life stands
    saver,      \* the checkpointer a worker got
    memory,     \* the last turn of each thread in a worker's InMemorySaver
    turn,       \* the turn a thread is in
    pc,         \* the next statement of a worker's cleanup
    cutoff,     \* cutoff_date
    doomed,     \* orphaned_threads yet to be deleted
    begun,      \* the cleanups begun so far
    saved,      \* history: every row the saver has put
    last,       \* history: the turns a thread has had
    orphaned,   \* history: threads taken for orphans, and deleted
    stripped,   \* history: threads whose blobs went with those of an old
                \*   checkpoint, and which have saved no turn since
    disturbed,  \* history: threads whose turn fell into a deletion
    divided,    \* history: a turn was taken by a worker without the tables
    cleaned     \* history: the latest cutoff of a cleanup that succeeded

tables == <<rows, blobs, writes>>
schema == <<hasCreatedAt, hasConversations, listed>>
process == <<stage, saver, memory>>
cleanup == <<pc, cutoff, doomed, begun>>
history == <<saved, last, orphaned, stripped, disturbed, divided, cleaned>>
vars == <<schema, day, tables, process, turn, cleanup, history>>

Idle == [worker |-> "none", base |-> 0, messages |-> 0, at |-> "idle"]

TypeOK ==
    /\ hasCreatedAt \in BOOLEAN
    /\ hasConversations \in BOOLEAN
    /\ listed \subseteq Threads
    /\ day \in Nat
    /\ rows \subseteq [thread : Threads, id : Nat \ {0}, day : Nat]
    /\ blobs \subseteq Threads \X (Nat \ {0})
    /\ writes \subseteq Threads \X (Nat \ {0})
    /\ stage \in [Workers -> {"down", "clean", "serving"}]
    /\ saver \in [Workers -> {"none", "tables", "memory"}]
    /\ memory \in [Workers -> [Threads -> Nat]]
    /\ turn \in [Threads -> [worker : Workers \cup {"none"}, base : Nat,
                             messages : Nat, at : {"idle", "loaded", "ran"}]]
    /\ pc \in [Workers -> {"idle", "count", "writes", "blobs", "rows",
                           "exists", "find", "threadWrites", "threadBlobs",
                           "threadRows"}]
    /\ cutoff \in [Workers -> Int]
    /\ doomed \in [Workers -> SUBSET Threads]
    /\ begun \in Nat
    /\ saved \subseteq [thread : Threads, id : Nat \ {0}, day : Nat]
    /\ last \in [Threads -> Nat]
    /\ orphaned \subseteq Threads
    /\ stripped \subseteq Threads
    /\ disturbed \subseteq Threads
    /\ divided \in BOOLEAN
    /\ cleaned \in Int

Init ==
    /\ hasCreatedAt \in BOOLEAN
    /\ hasConversations \in BOOLEAN
    /\ listed \in IF hasConversations THEN SUBSET Threads ELSE {{}}
    /\ day = 0
    /\ rows = {} /\ blobs = {} /\ writes = {}
    /\ stage = [w \in Workers |-> "down"]
    /\ saver = [w \in Workers |-> "none"]
    /\ memory = [w \in Workers |-> [t \in Threads |-> 0]]
    /\ turn = [t \in Threads |-> Idle]
    /\ pc = [w \in Workers |-> "idle"]
    /\ cutoff = [w \in Workers |-> 0]
    /\ doomed = [w \in Workers |-> {}]
    /\ begun = 0
    /\ saved = {}
    /\ last = [t \in Threads |-> 0]
    /\ orphaned = {}
    /\ stripped = {}
    /\ disturbed = {}
    /\ divided = FALSE
    /\ cleaned = -1

Tick ==
    /\ day < MaxDay
    /\ day' = day + 1
    /\ UNCHANGED <<schema, tables, process, turn, cleanup, history>>

-----------------------------------------------------------------------------
(* A worker: lifespan, up to its yield, and its end *)

Goto(w, place) == pc' = [pc EXCEPT ![w] = place]
Enter(w, place) == stage' = [stage EXCEPT ![w] = place]

\* cutoff_date is computed once, when the cleanup begins.
BeginCleanup(w) ==
    /\ begun < MaxCleanups /\ begun' = begun + 1
    /\ Goto(w, "count")
    /\ cutoff' = [cutoff EXCEPT ![w] = day - Keep]
    /\ UNCHANGED doomed

\* The locals of a cleanup go when it ends.
EndCleanup(w) ==
    /\ Goto(w, "idle")
    /\ cutoff' = [cutoff EXCEPT ![w] = 0]
    /\ doomed' = [doomed EXCEPT ![w] = {}]
    /\ UNCHANGED begun

\* setup_checkpointer: a database that fails leaves an InMemorySaver.
Checkpointers == {"tables", "memory"}

\* initialize, setup_checkpointer and setup_store touch nothing that other
\* processes see, and the store is optional, so they are one step, up to the
\* cleanup of the start.  A process whose pool fails does not start.
Start(w) ==
    /\ stage[w] = "down"
    /\ Enter(w, "clean")
    /\ \E s \in Checkpointers : saver' = [saver EXCEPT ![w] = s]
    /\ BeginCleanup(w)
    /\ UNCHANGED <<schema, day, tables, memory, turn, history>>

\* The process stops or is killed: its memory, its turns and its cleanup go.
Stop(w) ==
    /\ stage[w] # "down"
    /\ Enter(w, "down")
    /\ saver' = [saver EXCEPT ![w] = "none"]
    /\ memory' = [memory EXCEPT ![w] = [t \in Threads |-> 0]]
    /\ turn' = [t \in Threads |->
                    IF turn[t].worker = w THEN Idle ELSE turn[t]]
    /\ EndCleanup(w)
    /\ UNCHANGED <<schema, day, tables, history>>

-----------------------------------------------------------------------------
(* A turn of a thread, in the worker that got the request *)

RowsOf(t) == {r \in rows : r.thread = t}
Newest(t) == IF RowsOf(t) = {} THEN 0 ELSE Max({r.id : r \in RowsOf(t)})

\* The turn whose messages are loaded: those of the newest checkpoint, which
\* are among its blobs; a checkpoint without them is a conversation without.
Messages(t) == IF <<t, Newest(t)>> \in blobs THEN Newest(t) ELSE 0

Load(t, w) ==
    /\ stage[w] = "serving"
    /\ turn[t].at = "idle"
    /\ last[t] < MaxTurns[t]
    /\ turn' = [turn EXCEPT ![t] =
                   IF saver[w] = "tables"
                     THEN [worker |-> w, at |-> "loaded",
                           base |-> Newest(t), messages |-> Messages(t)]
                     ELSE [worker |-> w, at |-> "loaded",
                           base |-> memory[w][t], messages |-> memory[w][t]]]
    /\ divided' = (divided \/ saver[w] = "memory")
    /\ UNCHANGED <<schema, day, tables, process, cleanup, saved, last,
                   orphaned, stripped, disturbed, cleaned>>

\* A worker is between the first and the last statement of a deletion that
\* may reach the thread.
Target(w) == CHOOSE t \in doomed[w] : TRUE
Deleting(t) ==
    \E w \in Workers :
        \/ pc[w] \in {"blobs", "rows"}
        \/ pc[w] \in {"threadBlobs", "threadRows"} /\ t = Target(w)

\* The results of the tools are attached to the checkpoint the turn began at.
PutWrites(t) ==
    LET base == turn[t].base IN
    /\ turn[t].at = "loaded"
    /\ turn' = [turn EXCEPT ![t].at = "ran"]
    /\ IF saver[turn[t].worker] = "tables" /\ base > 0
         THEN /\ writes' = writes \cup {<<t, base>>}
              /\ disturbed' = IF Deleting(t) \/ \A r \in RowsOf(t) : r.id # base
                                THEN disturbed \cup {t} ELSE disturbed
         ELSE UNCHANGED <<writes, disturbed>>
    /\ UNCHANGED <<schema, day, rows, blobs, process, cleanup, saved, last,
                   orphaned, stripped, divided, cleaned>>

PutCheckpoint(t) ==
    LET w == turn[t].worker
        next == last[t] + 1
        row == [thread |-> t, id |-> next, day |-> day]
    IN
    /\ turn[t].at = "ran"
    /\ turn' = [turn EXCEPT ![t] = Idle]
    /\ last' = [last EXCEPT ![t] = next]
    /\ IF saver[w] = "tables"
         THEN /\ rows' = rows \cup {row}
              /\ blobs' = blobs \cup {<<t, next>>}
              /\ saved' = saved \cup {row}
              /\ disturbed' = IF Deleting(t) THEN disturbed \cup {t}
                                             ELSE disturbed
              /\ stripped' = stripped \ {t}
              /\ UNCHANGED memory
         ELSE /\ memory' = [memory EXCEPT ![w][t] = next]
              /\ UNCHANGED <<rows, blobs, saved, stripped, disturbed>>
    /\ UNCHANGED <<schema, day, writes, stage, saver, cleanup, orphaned,
                   divided, cleaned>>

\* The run raises: what it attached stays, the next checkpoint is not saved.
FailTurn(t) ==
    /\ turn[t].at # "idle"
    /\ turn' = [turn EXCEPT ![t] = Idle]
    /\ UNCHANGED <<schema, day, tables, process, cleanup, history>>

-----------------------------------------------------------------------------
(* cleanup_old_checkpoints *)

\* POST /checkpoints/cleanup; one cleanup at a time in a worker is modelled.
\* A dry run, here and below, only counts: it is no step of the model.
RequestCleanup(w) ==
    /\ stage[w] = "serving" /\ pc[w] = "idle"
    /\ BeginCleanup(w)
    /\ UNCHANGED <<schema, day, tables, process, turn, history>>

\* The cleanup returns its statistics, of a success or of an exception.
Return(w) ==
    /\ EndCleanup(w)
    /\ stage' = [stage EXCEPT ![w] = IF @ = "clean" THEN "serving" ELSE @]
    /\ UNCHANGED <<saver, memory>>

Continue(w, place) ==
    /\ Goto(w, place)
    /\ UNCHANGED <<process, cutoff, doomed, begun>>

\* Any statement may raise, by a lost connection or the pool's time limit.
FailStatement(w) ==
    /\ pc[w] # "idle"
    /\ Return(w)
    /\ UNCHANGED <<schema, day, tables, turn, history>>

\* The day of the cutoff itself is taken for old.
OldInclusive(w) == {r \in rows : r.day <= cutoff[w]}

Old(w) == {r \in rows : r.day < cutoff[w]}

Succeed(w) ==
    /\ Return(w)
    /\ cleaned' = IF cutoff[w] > cleaned THEN cutoff[w] ELSE cleaned

\* A single old checkpoint is not worth a deletion.
CountMoreThanOne(w) ==
    /\ pc[w] = "count"
    /\ hasCreatedAt
    /\ IF Cardinality(Old(w)) <= 1
         THEN Succeed(w)
         ELSE Continue(w, "writes") /\ UNCHANGED cleaned
    /\ UNCHANGED <<schema, day, tables, turn, saved, last, orphaned,
                   stripped, disturbed, divided>>

\* The two counts; the first of them is the one that decides.
Count(w) ==
    /\ pc[w] = "count"
    /\ hasCreatedAt
    /\ IF Old(w) = {}
         THEN Succeed(w)
         ELSE Continue(w, "writes") /\ UNCHANGED cleaned
    /\ UNCHANGED <<schema, day, tables, turn, saved, last, orphaned,
                   stripped, disturbed, divided>>

\* Without the column the first statement is refused.
CountRefused(w) ==
    /\ pc[w] = "count"
    /\ ~hasCreatedAt
    /\ Return(w)
    /\ UNCHANGED <<schema, day, tables, turn, history>>

DeleteWrites(w) ==
    /\ pc[w] = "writes"
    /\ writes' = writes \ {<<r.thread, r.id>> : r \in Old(w)}
    /\ Continue(w, "blobs")
    /\ UNCHANGED <<schema, day, rows, blobs, turn, history>>

\* Blobs go by thread: those of the thread's recent checkpoints with them.
DeleteBlobs(w) ==
    /\ pc[w] = "blobs"
    /\ blobs' = {b \in blobs : \A r \in Old(w) : r.thread # b[1]}
    /\ stripped' = stripped \cup {r.thread : r \in Old(w)}
    /\ Continue(w, "rows")
    /\ UNCHANGED <<schema, day, rows, writes, turn, saved, last, orphaned,
                   disturbed, divided, cleaned>>

DeleteCheckpoints(w) ==
    /\ pc[w] = "rows"
    /\ rows' = rows \ Old(w)
    /\ Succeed(w)
    /\ UNCHANGED <<schema, day, blobs, writes, turn, saved, last, orphaned,
                   stripped, disturbed, divided>>

-----------------------------------------------------------------------------
(* cleanup_orphaned_checkpoints, by POST /checkpoints/cleanup-orphaned *)

RequestOrphanCleanup(w) ==
    /\ stage[w] = "serving" /\ pc[w] = "idle"
    /\ begun < MaxCleanups /\ begun' = begun + 1
    /\ Goto(w, "exists")
    /\ UNCHANGED <<schema, day, tables, process, turn, cutoff, doomed, history>>

\* Nothing is done where there is no table to tell an orphan by.
LookForConversations(w) ==
    /\ pc[w] = "exists"
    /\ IF hasConversations THEN Continue(w, "find") ELSE Return(w)
    /\ UNCHANGED <<schema, day, tables, turn, history>>

FindOrphans(w) ==
    LET found == {r.thread : r \in rows} \ listed IN
    /\ pc[w] = "find"
    /\ IF found = {}
         THEN Return(w) /\ UNCHANGED orphaned
         ELSE /\ Goto(w, "threadWrites")
              /\ doomed' = [doomed EXCEPT ![w] = found]
              /\ orphaned' = orphaned \cup found
              /\ UNCHANGED <<process, cutoff, begun>>
    /\ UNCHANGED <<schema, day, tables, turn, saved, last, stripped, disturbed,
                   divided, cleaned>>

\* The writes of an orphan are forgotten.
DeleteThreadWritesNot(w) ==
    /\ pc[w] = "threadWrites"
    /\ Continue(w, "threadBlobs")
    /\ UNCHANGED <<schema, day, tables, turn, history>>

DeleteThreadWrites(w) ==
    /\ pc[w] = "threadWrites"
    /\ writes' = {x \in writes : x[1] # Target(w)}
    /\ Continue(w, "threadBlobs")
    /\ UNCHANGED <<schema, day, rows, blobs, turn, history>>

DeleteThreadBlobs(w) ==
    /\ pc[w] = "threadBlobs"
    /\ blobs' = {b \in blobs : b[1] # Target(w)}
    /\ Continue(w, "threadRows")
    /\ UNCHANGED <<schema, day, rows, writes, turn, history>>

DeleteThreadCheckpoints(w) ==
    /\ pc[w] = "threadRows"
    /\ rows' = {r \in rows : r.thread # Target(w)}
    /\ IF doomed[w] = {Target(w)}
         THEN Return(w)
         ELSE /\ Goto(w, "threadWrites")
              /\ doomed' = [doomed EXCEPT ![w] = @ \ {Target(w)}]
              /\ UNCHANGED <<process, cutoff, begun>>
    /\ UNCHANGED <<schema, day, blobs, writes, turn, history>>

-----------------------------------------------------------------------------
Next ==
    \/ Tick
    \/ \E w \in Workers :
        \/ Start(w) \/ Stop(w)
        \/ RequestCleanup(w) \/ FailStatement(w)
        \/ Count(w) \/ CountRefused(w)
        \/ DeleteWrites(w) \/ DeleteBlobs(w) \/ DeleteCheckpoints(w)
        \/ RequestOrphanCleanup(w) \/ LookForConversations(w)
        \/ FindOrphans(w) \/ DeleteThreadWrites(w) \/ DeleteThreadBlobs(w)
        \/ DeleteThreadCheckpoints(w)
    \/ \E t \in Threads :
        \/ \E w \in Workers : Load(t, w)
        \/ PutWrites(t) \/ PutCheckpoint(t) \/ FailTurn(t)

Spec == Init /\ [][Next]_vars

-----------------------------------------------------------------------------
(* Properties *)

SavedOf(t) == {r \in saved : r.thread = t}

(* A thread that began within the days to keep loses nothing, whatever     *)
(* cleanups run beside its turns and wherever they fail: every checkpoint  *)
(* it saved is there, with its blobs.  Neither does any thread where the   *)
(* column is missing.  Threads taken for orphans are left out.             *)
YoungThreadIsWhole ==
    \A r \in saved :
        \/ r.thread \in orphaned
        \/ hasCreatedAt /\ \E s \in SavedOf(r.thread) : s.day < day - Keep
        \/ r \in rows /\ <<r.thread, r.id>> \in blobs

(* A turn goes on from the thread's last turn and has its messages, unless *)
(* that turn is older than the days to keep, the thread was taken for an   *)
(* orphan, or a worker without the tables took a turn (main.py:74,         *)
(* "fallback mode").  It lacks the messages of a turn within the days to   *)
(* keep only where, since that turn, a cleanup has found an older          *)
(* checkpoint of the thread; one such turn, as the next has its own.       *)
TurnsFollow ==
    \A t \in Threads : turn[t].at # "idle" =>
        \/ /\ turn[t].base = last[t]
           /\ turn[t].messages = last[t] \/ t \in stripped
        \/ divided
        \/ t \in orphaned
        \/ hasCreatedAt /\ \A r \in SavedOf(t) :
                               r.id = last[t] => r.day < day - Keep

(* No write or blob outlives its checkpoint, also when the cleanup stops   *)
(* between two statements, unless a turn saved into the deletion.          *)
LeftoverNeedsTurn ==
    \A x \in writes \cup blobs :
        x[1] \in disturbed \/ \E r \in RowsOf(x[1]) : r.id = x[2]

(* After a cleanup that reported no error, by any worker, no checkpoint    *)
(* older than its cutoff is left or comes back.                            *)
NoneOldLeft == \A r \in rows : r.day >= cleaned
=============================================================================
