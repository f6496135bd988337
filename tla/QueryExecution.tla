--------------------------- MODULE QueryExecution ---------------------------
(***************************************************************************)
(* query_database of tools/sql_tools.py on its way to the database: the    *)
(* guard, a connection of the pool for every table that the guard looks up *)
(* and for the statement, the back-off of run_effect and round both of     *)
(* them the attempts of ToolRetryMiddleware, which runs the whole tool     *)
(* again.  A call is one tool call after its approval.  The code between   *)
(* two awaits is split into steps only where it touches nothing shared.    *)
(*                                                                         *)
(* A query fails before or after the database applied it.  Whether the     *)
(* exception is transient depends on its text, which the driver chooses:   *)
(* both are possible.  command_timeout ends every query.                   *)
(***************************************************************************)
EXTENDS SqlGuard, Integers

CONSTANTS
    Calls,         \* the tool calls
    Statements,    \* what they may ask for
    PoolSize,      \* settings.db_pool_size
    QueueRetries,  \* settings.effect_queue_max_retries, 0 turns the layer off
    ToolRetries    \* settings.max_retry_attempts, 0 stands for no middleware

ASSUME ExecutionConstants ==
    /\ PoolSize \in Nat \ {0}
    /\ QueueRetries \in Nat
    /\ ToolRetries \in Nat
    /\ \A s \in Statements : s.dml \in s.words \/ s.dml = "UNKNOWN"

VARIABLES
    stmt,     \* the statement of each call
    pc,       \* where each call is; one of Ended is its reply
    left,     \* the tables the guard has still to look up
    tries,    \* attempts of run_effect: retries of the statement in this round
    rounds,   \* retries of the tool by the middleware
    applied,  \* history: how often the database applied the statement
    lost,     \* history: how many of those answers did not arrive
    stale     \* history: calls whose write was applied after the schema cache
              \*   was cleared last

vars == <<stmt, pc, left, tries, rounds, applied, lost, stale>>

\* refused by the guard, denied by the risk assessment, a failure in the reply,
\* the message of the middleware that gave up
Ended == {"ok", "refused", "denied", "error", "gaveup"}
Waits == {"backoff", "again"}

TypeOK ==
    /\ stmt \in [Calls -> Statements]
    /\ pc \in [Calls -> {"idle", "validate", "tables", "waiting", "busy", "applied"}
                        \cup Waits \cup Ended]
    /\ left \in [Calls -> SUBSET UNION {s.tables : s \in Statements}]
    /\ tries \in [Calls -> 0..QueueRetries]
    /\ rounds \in [Calls -> 0..ToolRetries]
    /\ applied \in [Calls -> Nat]
    /\ lost \in [Calls -> Nat]
    /\ stale \subseteq Calls

Init ==
    /\ stmt \in [Calls -> Statements]
    /\ pc = [c \in Calls |-> "idle"]
    /\ left = [c \in Calls |-> {}]
    /\ tries = [c \in Calls |-> 0]
    /\ rounds = [c \in Calls |-> 0]
    /\ applied = [c \in Calls |-> 0]
    /\ lost = [c \in Calls |-> 0]
    /\ stale = {}

Goes(c, from, to) ==
    /\ pc[c] = from
    /\ pc' = [pc EXCEPT ![c] = to]

counts == <<tries, rounds>>
effects == <<applied, lost, stale>>

-----------------------------------------------------------------------------
(* guard_query_sql *)

Begin(c) ==
    /\ Goes(c, "idle", "validate")
    /\ UNCHANGED <<stmt, left, counts, effects>>

Validate(c) ==
    /\ Goes(c, "validate", IF Valid(stmt[c]) THEN "tables" ELSE "refused")
    /\ left' = [left EXCEPT ![c] = stmt[c].tables]
    /\ UNCHANGED <<stmt, counts, effects>>

\* is_allowed_table raises for a system table before it asks the database.
SystemTable(c) ==
    /\ left[c] \cap SystemTables # {}
    /\ Goes(c, "tables", "refused")
    /\ UNCHANGED <<stmt, left, counts, effects>>

\* list_tables is not cached: every table costs a query of its own.
LookUp(c) ==
    /\ left[c] \ SystemTables # {}
    /\ Goes(c, "tables", "waiting")
    /\ UNCHANGED <<stmt, left, counts, effects>>

\* The guard that is done after its first table.
TabledOnce(c, t) ==
    /\ t \in left[c] \ SystemTables
    /\ Goes(c, "busy", IF t \in KnownTables THEN "tables" ELSE "refused")
    /\ left' = [left EXCEPT ![c] = {}]
    /\ UNCHANGED <<stmt, counts, effects>>

Tabled(c, t) ==
    /\ t \in left[c] \ SystemTables
    /\ Goes(c, "busy", IF t \in KnownTables THEN "tables" ELSE "refused")
    /\ left' = [left EXCEPT ![c] = @ \ {t}]
    /\ UNCHANGED <<stmt, counts, effects>>

\* All tables are allowed: the risk decides, then the statement needs a
\* connection and run_effect counts from 0.
Assess(c) ==
    /\ left[c] = {}
    /\ Goes(c, "tables", IF Denied(stmt[c]) THEN "denied" ELSE "waiting")
    /\ tries' = [tries EXCEPT ![c] = 0]
    /\ UNCHANGED <<stmt, left, rounds, effects>>

-----------------------------------------------------------------------------
(* The pool and the database *)

\* A call holds a connection from acquire until its query has ended, however.
Querying(c) == pc[c] \in {"busy", "applied"}

\* A query that fails without giving its connection back.
InUseLeaking == {c \in Calls : Querying(c) \/ pc[c] = "error"}

InUse == {c \in Calls : Querying(c)}

\* acquire has no timeout of its own; any waiter may be the next.
Acquire(c) ==
    /\ Cardinality(InUse) < PoolSize
    /\ Goes(c, "waiting", "busy")
    /\ UNCHANGED <<stmt, left, counts, effects>>

\* The database applies the statement; its answer is under way.
Apply(c) ==
    /\ left[c] = {}
    /\ Goes(c, "busy", "applied")
    /\ applied' = [applied EXCEPT ![c] = @ + 1]
    /\ stale' = IF stmt[c].dml \in Writes THEN stale \cup {c} ELSE stale
    /\ UNCHANGED <<stmt, left, counts, lost>>

ClearCache == stale' = {}

\* A failure after the answer that has the tool run again.
AnswerOrAgain(c) ==
    /\ Goes(c, "applied", "ok") \/ Goes(c, "applied", "again")
    /\ IF IsWriteDml(stmt[c]) THEN ClearCache ELSE UNCHANGED stale
    /\ UNCHANGED <<stmt, left, counts, applied, lost>>

\* The answer arrives: the connection is released, a write clears the schema
\* cache, and the result is the reply.
Answer(c) ==
    /\ Goes(c, "applied", "ok")
    /\ IF IsWriteDml(stmt[c]) THEN ClearCache ELSE UNCHANGED stale
    /\ UNCHANGED <<stmt, left, counts, applied, lost>>

-----------------------------------------------------------------------------
(* Failures and retries *)

CountLost(c) ==
    /\ lost' = IF pc[c] = "applied" THEN [lost EXCEPT ![c] = @ + 1] ELSE lost
    /\ UNCHANGED <<applied, stale>>

\* One retry too many, in either layer.
MayRetryOnceMore(c) == left[c] = {} /\ tries[c] <= QueueRetries
MayRunOnceMore(c) == rounds[c] <= ToolRetries

MayRetry(c) == left[c] = {} /\ tries[c] < QueueRetries
MayRunAgain(c) == rounds[c] < ToolRetries

\* run_effect: a transient failure of the statement is retried after a sleep.
Retry(c) ==
    /\ Querying(c)
    /\ MayRetry(c)
    /\ tries' = [tries EXCEPT ![c] = @ + 1]
    /\ Goes(c, pc[c], "backoff")
    /\ CountLost(c)
    /\ UNCHANGED <<stmt, left, rounds>>

\* query_database raises a transient failure and the middleware runs it again.
RunAgain(c) ==
    /\ Querying(c)
    /\ ~MayRetry(c)
    /\ MayRunAgain(c)
    /\ rounds' = [rounds EXCEPT ![c] = @ + 1]
    /\ Goes(c, pc[c], "again")
    /\ CountLost(c)
    /\ UNCHANGED <<stmt, left, tries>>

\* No retry is left: the middleware answers with an error message.
GiveUp(c) ==
    /\ Querying(c)
    /\ ~MayRetry(c) /\ ~MayRunAgain(c)
    /\ Goes(c, pc[c], "gaveup")
    /\ CountLost(c)
    /\ UNCHANGED <<stmt, left, counts>>

\* Any other failure is a reply that asks the model to correct the statement.
Fail(c) ==
    /\ Querying(c)
    /\ Goes(c, pc[c], "error")
    /\ CountLost(c)
    /\ UNCHANGED <<stmt, left, counts>>

\* The sleep ends: fn, or the whole tool, is called again.
Wake(c) ==
    /\ Goes(c, "backoff", "waiting") \/ Goes(c, "again", "validate")
    /\ UNCHANGED <<stmt, left, counts, effects>>

-----------------------------------------------------------------------------

Step(c) ==
    \/ Validate(c) \/ SystemTable(c) \/ LookUp(c) \/ Assess(c)
    \/ \E t \in left[c] : Tabled(c, t)
    \/ Acquire(c) \/ Apply(c) \/ Answer(c)
    \/ Retry(c) \/ RunAgain(c) \/ GiveUp(c) \/ Fail(c) \/ Wake(c)

Next == \E c \in Calls : Begin(c) \/ Step(c)

Spec == Init /\ [][Next]_vars

\* The event loop schedules what can go on, connections are released when a
\* query ends, and command_timeout and the sleeps end.  Nobody has to call.
FairSpec == Spec /\ \A c \in Calls : WF_vars(Step(c))

-----------------------------------------------------------------------------
(* Properties *)

\* What a caller has been told.
Outcome ==
    [c \in Calls |-> IF pc[c] = "ok" THEN "ok"
                     ELSE IF pc[c] \in Ended THEN "failed" ELSE "open"]

Service == INSTANCE StatementService WITH outcome <- Outcome

\* The two layers of retries keep the promise of StatementService: a statement
\* is sent again only when no earlier answer arrived, and success is the answer
\* to the last application.
KeepsPromise == Service!Spec

\* The layers multiply: the database applies one approved statement at most
\* once for every attempt of run_effect in every attempt of the middleware.
ExecutionsBounded ==
    \A c \in Calls : applied[c] <= (ToolRetries + 1) * (QueueRetries + 1)

\* What the database applies has passed every layer of the guard, in the round
\* that sent it: an allowed kind of statement, known tables only, and an UPDATE
\* or DELETE only with a WHERE, for statements whose identifiers spell neither.
AppliedIsGuarded ==
    \A c \in Calls : applied[c] > 0 =>
        /\ stmt[c].dml \in AllowedDml
        /\ stmt[c].tables \subseteq KnownTables
        /\ stmt[c].dml \in {"UPDATE", "DELETE"}
             /\ stmt[c].inside \cap {"INSERT", "WHERE"} = {}
             /\ "INSERT" \notin stmt[c].words
           => "WHERE" \in stmt[c].words

\* Every call ends with a reply although the pool makes callers wait without a
\* timeout: a call holds one connection at a time and its retries run out.
CallsEnd == \A c \in Calls : pc[c] = "validate" ~> pc[c] \in Ended

=============================================================================
