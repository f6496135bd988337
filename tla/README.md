# Verification of DataAnalystAgent

TLA+ models of the parts of DataAnalystAgent whose correctness depends on order:
what coroutines, threads, retries, crashes and the clock do to shared state. The
modules are translated from the source; where docs and source disagree, the
model follows the source and a run shows the difference.

## 1. The system

A FastAPI process (`api/`) hands a user's question to one LangGraph agent that
all requests share (`agent/`). The agent calls an LLM and tools (`tools/`);
`query_database` interrupts for a human decision before it runs. Tools reach
PostgreSQL through a connection pool, a schema manager and a SQL guard (`core/`).
A checkpointer keeps each conversation's position (`middleware/`), caches and
an effect queue live in `utils/`.

| component | state | operations | hard because of | what makes it correct |
|---|---|---|---|---|
| effect queue, `utils/effect_queue.py` | effects by key, attempts, counters, JSONL file | enqueue, run_pending, run_effect, recover | several runners, merges during an await, crash at any step | pending is on disk, done is not for longer than a save takes, retries bounded, what leaves is counted |
| schema manager, `core/database/schema.py` | schemas with time stamps, search index, recent tables | get_table_schema, get_relevant_schemas, _get_index, clear_cache | fetches and clears overlap; the index is built over many awaits | after a write no old schema is served; the index knows the tables |
| agent factory, `agent/analyst_agent.py` | two agent caches, pending tasks, a lock | get_cached_agent, get_cached_async_agent, clear_cache | cold start by many callers, failed builds, cancellation | one build is shared, no dead entry stays, every call ends |
| approval session, `api/routes.py`, `agent/`, `middleware/config.py` | the thread's checkpoint, audit log | /query, /stream, /approve | no lock per thread, repeats after errors, restarts | nothing runs unapproved, nor twice unless its results were lost, decisions are logged |
| bounded TTL cache, `utils/bounded_cache.py` with `utils/result_store.py`, `tools/chart_tools.py` | two dictionaries | set, get, peek, pop, clear | equal times, expired entries that occupy places, the wall clock | bounded, dictionaries agree, recent entries stay |
| tool query_database, `tools/sql_tools.py` | none of its own | guard, run, cache result, clear schema cache | two layers of retries round a write whose answer may be lost | a write is sent again only if no answer came; retries are bounded; a write clears the schema cache |
| SQL guard, `tools/boundaries.py`, `core/security/sql_*.py`, `risk_assessor.py` | none | validate, extract tables, sanitize, assess | order of the decisions | nothing that is denied reaches the database |
| admission and intent, `core/security/` | none | classify, gate | overlapping patterns in a fixed order | the order of the tests; the gate answers |
| schema linking, `core/database/schema_linking.py` | index entries | score, rank | fallbacks | a bounded list of distinct tables |
| connection pool, `core/database/pool.py` | pool, flag | initialize, acquire, close | check before await, no timeout on acquire | one pool, no deadlock at the limit |
| checkpointer and store, `middleware/config.py` | module globals | setup, get, close | fallback to memory, use after close | one checkpointer per process |
| checkpoint cleanup, `utils/checkpoint_cleanup.py`, `api/main.py` | rows of three tables | two cleanups of three deletes each, at every start and on request | no transaction, failures between deletes, turns beside them | recent threads stay whole, turns go on from the last one, nothing is left behind |
| truncation and model view, `middleware/`, `core/recon.py` | messages, log rows | condense, log, reconstruct | applied again before every model call; parallel calls | tables and texts that the model sees are bounded and tell what was cut; what is shown is logged |
| local logger, `middleware/logging_middleware.py` | log files, recent list | log_tool_call, log_approval | rotation | decisions are kept |
| chart sandbox, `utils/chart_sandbox.py`, `create_custom_chart` | pyplot's figures, two executors | execute_chart_code | abandoned threads, one set of figures per process | a chart is its own code's; every call ends |
| exports, memory tools, prompts, settings, schemas, evaluation, load test, front end | files, configuration | | I/O and data | |

Interactions: `query_database` calls the guard, the pool (through
`run_sql_durable` of the effect queue), the result store and, after a write, the
schema manager's `clear_cache`; the schema manager is also called by its tools
and by the admission gate; `/query`, `/stream` and `/approve` share the agent
factory's agent and the thread's checkpoint; the cleanup deletes rows of that
checkpoint's tables while other workers serve; every model call condenses the
thread's messages, from which `/query` and `/approve` take what they reply, and
every tool call is logged; `create_chart` reads the result store and fills the
chart store that `/chart/option` serves.

The hazards of the code, each at its line with the properties that cover it, are
in `PROJECT.json` under `hazards`; those without a property say why.

## 2. Modules

| module | models | state | actions |
|---|---|---|---|
| `EffectQueue` | `AsyncEffectQueue` without `run_effect` (which is in `QueryExecution`) | `queue`+`effect` are `_effects` and its `_Effect` objects, `pc/todo/arg` the stack of each `run_pending`, `counted` what an object added to the counters, `disk` the file, `rows` the result of `recover()`, `unsaved` the payloads whose save raised | `Submit`/`Requeue` = `enqueue`; `StartRun` … `Wake` = the pieces of `run_pending`, among them `HandlerReturns`, `Settle` and `SettleUnsaved` for the three ends of a run that succeeds; `Crash` |
| `SchemaCache` | `SchemaManager`, and writes of `query_database` | `cache/fresh` are `_cache/_cache_time`, `index/built` `_index`, `pc/op/want/got/acc` the stack of each coroutine, `version` the tables | `Hit`, `Miss`, `Answer`, `Store`, `FetchFails`, `ListTables`, `ListNames`, `InstallIndex`, `Execute`, `WriteReturns`, `WriteFails`, `Expire`, `Migrate` |
| `AgentCache` | `AnalystAgentFactory` | `cached/pending` the async caches, `task` the asyncio tasks, `lock/syncCached` the sync side | one per piece of the two getters, `BuildEnds`, `Cancel`, `Clear` |
| `ApprovalSession` | the handlers of one thread and the saved position of its graph | `saved` the checkpoint, `pc/request/turn/decided` the handlers, `audit` the log | `Query`, `Decide`, `GoOn`, `DecideNothing`, `ModelAnswers`, `ModelCalls`, `RunRaises`, `Execute`, `SaveResults`, `Restart` |
| `BoundedTTLCache` | the class of that name | `stored`, `timed`+`expiry`, `before` (the dict's order), `now` | `Set`, `GetExpired`, `Pop`, `Clear`, `Tick`, `SetBack` |
| `SqlGuard` | what `guard_query_sql` decides about one statement | none: operators over a record of what the patterns look at | `Valid`, `Denied`, `IsWriteDml` |
| `QueryExecution` (extends `SqlGuard`) | `query_database` from its approval to its reply, `run_effect`, `ToolRetryMiddleware`, the pool | `pc/left/tries/rounds` the stack of each call; who is `busy` or `applied` holds a connection | `Begin`, `Validate`, `SystemTable`, `LookUp`, `Tabled`, `Assess`, `Acquire`, `Apply`, `Answer`, `Retry`, `RunAgain`, `GiveUp`, `Fail`, `Wake` |
| `CheckpointCleanup` | `lifespan` of each worker, `setup_checkpointer`, both cleanups, and the turns they run beside | `rows/blobs/writes` the saver's tables, `stage/saver/memory` each worker, `pc/cutoff/doomed` its cleanup, `turn` the run of each thread: the checkpoint it goes on from and the messages it has loaded | `Start`, `Stop`, `RequestCleanup`, `Count` … `DeleteCheckpoints`, `RequestOrphanCleanup` … `DeleteThreadCheckpoints`, `FailStatement`; `Load`, `PutWrites`, `PutCheckpoint`, `FailTurn`; `Tick` |
| `RequestGate` | intent router and admission gate in front of `/query` | none: operators over the patterns a text matches and the tables it names | `Classify`, `ShortCircuit`, `Compute`, `MaybeGate`, `Gate` |
| `Conversation` (extends `RequestGate`) | one thread's messages: what requests and tools add, condensing before every model call, the log, the replies | `messages`, `phase` the node that comes next, `handler` the request in progress, `pending/results` the calls of the last AI message, `log` `tool_calls.jsonl` | `Stopped`, `Query`, `BeforeModel`, `Summarize`, `ModelAnswers`, `ModelAsks`, `Approve`, `Reject`, `DecisionsDiffer`, `GoOn`, `CallReturns`, `CallRaises`, `AddResults`, `BreaksOff` |
| `ChartSandbox` | `create_custom_chart` and `execute_chart_code` | `asked/submitted` the queues of both executors, `run` what their threads do, `figures` pyplot's, `image` the `result_box` of a run | `Call`, `Submit`, `StartRun`, `Draw`, `Save`, `Raise`, `Close`, `Return`, `Timeout` |
| `StatementService` | the abstract promise about one approved statement | `outcome`, `applied`, `lost` | `Apply`, `Lose`, `Succeed`, `Fail` |

`QueryExecution` implements `StatementService`: its `outcome` is "open" while a
call runs, "ok" after a result and "failed" after any other reply.

`Conversation` and `ApprovalSession` are two views of a thread: the first has one
request at a time and keeps the messages, the second has requests that overlap
and keeps only what was executed and logged.

`MCx` modules give `x` finite sets for TLC. `xProofs` modules hold the theorems
about `x`; `CacheAndSandboxProofs` holds those about the two parts the chart tools
stand on, `BoundedTTLCache` and `ChartSandbox`, which share no state (so that one
module can extend both, `ChartSandbox` has `SandboxInit`, `SandboxNext`,
`SandboxSpec` and `SandboxTypeOK`). Variables marked "history" are not in the program: properties use
them to speak of the past. In each module small operators come in pairs (for
instance `Persist` and `PersistNothing`): the first is the code, the second a
plausible mistake in its place that a property must notice.

### Abstractions and what they rest on

- A step is the code between two awaits, or finer. `_persist` has no await, so a
  save belongs to the step that calls it (`Save`), or raises there and leaves the
  file as it is (`SaveRaises`); the replacement of the file is atomic. That a
  handler has succeeded and that the queue settles the effect are two steps, so
  that a crash may fall between; that other coroutines may run between them, too,
  and that the iterations of `run_pending`'s loop are steps of their own, is more
  than the event loop does.
- Lengths of time are left out: a back-off ends some time, an entry of the
  schema cache expires some time, the clock of the TTL cache ticks in units.
- A schema is a version number, a payload a number. An SQL statement is nothing,
  but in `SqlGuard`, where it is what the guard's patterns look at: its first DML
  keyword, the word it starts with, the keywords in it as words and inside
  identifiers, its tables, and whether another pattern flags it.
- LangGraph, asyncio and asyncpg are external. Assumed of LangGraph, from how
  `api/routes.py` and `agent/analyst_agent.py` use it: a run starts from the saved
  position of its thread and saves its position after every node; the last run
  to save wins; no lock is held per thread; a number of decisions other than the
  number of waiting calls raises and changes nothing; `ainvoke` on a finished
  thread with nothing pending returns. Assumed of asyncio: cancelling a coroutine
  that awaits a task cancels the task.
- Assumed of asyncpg and PostgreSQL, in `QueryExecution`: a statement is applied as
  a whole or not at all, an exception may come before or after that, and its text
  may or may not contain a marker of `is_transient_error`, so both ways are open
  to every failure. The pool serves any waiter (no order is assumed). Assumed of
  `ToolRetryMiddleware`: it calls the tool `max_retries` times again, and then
  answers with an error message. `list_tables` is not cached, so every table that
  the guard looks up takes a connection, although its docstring
  (`boundaries.py:69`) says that it does not touch the database.
- `QueryExecution` splits the code between two awaits where it touches nothing
  shared; what it shares is the connections and the schema cache.
- In `CheckpointCleanup` a turn saves one checkpoint with one blob, and a day is the
  unit of `created_at`. The code deletes by `created_at`, a column that the saver's
  own tables do not have; whether a database has it, and whether it has a table
  `conversations`, is chosen at the start. A statement is committed when it
  returns, since the code opens no transaction. The saver loads the newest
  checkpoint; one whose blobs are gone is a conversation without messages.
- In `Conversation` a table is its number of rows and its longest cell, a text its
  length (below 10^10, which bounds the digits in a mark). What `query_database`
  cuts itself before it returns is not counted as lacking: `total` is the rows
  that it returned. Which keys survive condensing is what `RESULT_KEEP_FIELDS`
  says: `note` does, `truncated_rows` does not. A note is its number and its
  length, which is that of its text. What is condensed is the field `result` of a
  message; `raw` keeps what the tool returned. `GoOn` may or may not find the
  results of calls that had returned before a run broke off. The streamed form of
  a request is left to `ApprovalSession`.
- In `RequestGate` a text is the set of patterns it matches and of tables it has a
  score with; the four malicious patterns count as one.
- In `ChartSandbox` a figure is the set of calls that have drawn on it. Code may
  draw as often as it likes or not at all, raise, or never end; what is saved is
  whatever figure is current.
- In `ApprovalSession`, calls of a turn are executed together. A run may raise in
  any node; that it raises after having executed a turn (`lost`) is bounded for
  each turn, and with it how often a turn is executed again by a single client.

## 3. What TLC checks

| run | instance | question | result |
|---|---|---|---|
| `effect_queue` | 2 keys (one without handler), 2 runners, 1 retry, 3 payloads, 1 crash, 1 save that raises | pending is saved; what succeeded is in the file only for its save; runs per object bounded; what leaves was counted; every effect leaves | holds |
| `effect_queue_merge` | 1 key, 1 runner, 2 payloads, no crash | is an accepted payload pending until it is finished? | no: merged during the await, popped by key |
| `schema_cache` | 2 tables (one created later), 2 coroutines, up to 2 versions | old entries only from a fetch that overlapped a clear; the same for the index; the TTL heals | holds |
| `agent_cache` | 2 coroutines, 2 threads, 3 builds, 1 cancellation, 1 clear | pending entries have a creator; builders bounded; one agent; sync builds bounded; KeyError needs a clear; calls end | holds |
| `approval_session` | 2 handlers, 2 turns of up to 2 calls, 2 restarts, 2 lost results for each turn, durable checkpoints | executions need approval; once, and once more for each lost result; rejections set nothing going; logged approvals ran | holds |
| `bounded_cache` | 5 keys, 3 places, 5 clock readings, clock set back once | within the limit; dictionaries agree; latest entries kept | holds |
| `query_execution` | 2 calls, 7 statements, writes enabled, 1 connection, 1 retry of `run_effect`, 2 of the middleware | `StatementService` is implemented; executions bounded by the product of the layers; nothing unguarded is applied; calls end | holds |
| `checkpoint_cleanup` | 2 workers, 2 threads (2 turns and 1), 3 days, 1 day kept, 3 cleanups | recent threads are whole; turns follow each other, with their messages; leftovers need a turn in the deletion; nothing old is left | holds |
| `conversation` | 3 requests, 2 rounds of up to 2 calls, 1 broken run, results of 0 and 1000 rows and of 100000 characters, cells cut at 30 characters and texts at 967, router on | what is cut is told; rewriting settles; tables and texts are bounded; charts of an earlier turn only without a new one; calls are answered; shown results are logged | holds |
| `admission_gate` | the same with 2 requests and the limits of the settings, gate on | does `/query` answer with the gate switched on? | no: it raises before the gate is asked |
| `conversation_data` | as `admission_gate`, router on | are the data of a reply the original ones? | no: condensed rows of an earlier turn |
| `chart_sandbox` | 3 charts, 2 threads in each pool, code that never ends | a chart drawn alone shows its own code's figure; every call ends | holds |

### Bounds

Payloads, crashes, versions, builds, cancellations, clears, turns, calls,
restarts, cleanups, days, broken runs and clock readings are bounded by constants
named `Max...`, in guards of the actions they count. They are large enough for
the interesting cases: three payloads on two keys let a key be merged, popped and
inserted again while another runner holds its old object; one crash separates two
lives of the queue, and one save that raises leaves a row for the second; two versions let a fetch be older than a clear; three builds
let a second creator start between the clear and the return of the first, and
fail with a retry after it; two handlers let a decision, a repeat or a new query
overlap another request, and with two restarts and two lost results a turn is
executed again more than once; five keys overfill a cache of three twice. One connection for two
calls makes every wait happen; one and two retries differ, so that a layer that
took the other's limit would show, and their product is six. The statements are
one for each way through the guard. Three days with one kept let a thread have an
old and a recent checkpoint; two cleanups may run into each other while a third
follows a failure. Two rounds of calls with a review in one of them, and two
requests, let a result be condensed several times, calls be abandoned, and a
chart be of this turn or the one before; the requests are one for each outcome of
`classify_intent` and for each pair of tests whose order matters; the limits are
those of the settings, but for two: 967 is a length at which a mark tips the
length over a power of ten, so that a text of 100000 characters is cut to 1000,
then to 998, then to 997, where it stays; and 30 is less than the 36 characters
of the note, so that the note is cut as well. It takes three requests to go through all four
rewritings that `RewritingSettles` allows. Three charts on two threads let two runs share the
figures while a third waits, and let code that never ends take all threads.

Deadlock is not checked where the modelled system may rest: in `effect_queue` and
`effect_queue_merge` when all payloads are settled, in `query_execution`,
`chart_sandbox` and the three runs of `Conversation` when all calls or requests
have ended, and in `checkpoint_cleanup` on the last day.

The type invariants `TypeOK` are not in the runs: they are proved for all values
of the constants (`Typing`, `Typed` in `SchemaCacheProofs`, `CacheTyping` and
`SandboxTyping`).

### Fairness

Liveness is checked under weak fairness of what the program does by itself: the
consumer keeps calling `run_pending`, handlers return or raise, timers fire, a
recovering consumer enqueues what it read (`EffectQueue`); the database answers
or fails, coroutines resume, time passes (`SchemaCache`); builds return or raise
and the event loop resumes whoever awaits a finished task (`AgentCache`); every
call goes on where it can, since `command_timeout` ends queries and sleeps end
(`QueryExecution`; weak fairness is enough because retries run out, so a waiting
call is passed over finitely often); threads of the first pool start waiting for
theirs, and their timeouts expire (`ChartSandbox`; nothing is assumed of the code
that is drawn with). Nobody is obliged to call, to write, to cancel, to clear or
to crash.

## 4. Where code and documents disagree

With a run that shows it:

1. `effect_queue.py:111` (`effect_queue_merge`): a payload merged while the handler
   runs is dropped, although the module says that it is replaced and becomes due
   at once (`:6`).
2. `routes.py:358` (`admission_gate`): with the admission gate on, every `/query`
   raises, because a `QueryRequest` has no `headers`; `README.md:246` describes the
   gate's decisions for that case.
3. `routes.py:414` (`conversation_data`): the data of a reply are those the thread
   has kept, condensed, of an earlier turn, since `query_database` always
   interrupts its own; the comment at `:412` calls them the original data.

Stated in the modules, without a run of their own:

4. `effect_queue.py:93`: recovery is not safe against a second crash, although
   effects are said to be recoverable after a restart (`:9`): the first
   effect enqueued again rewrites the file (`UnfinishedSurvivesRestart`).
5. `schema.py:183`: `clear_cache` after a write does not invalidate what is being
   fetched, although `sql_tools.py:71` wants stale rows gone
   (`ServedIsNotOlderThanWrite`).
6. `schema.py:227`: the index is not rebuilt for a new table, as the docstring at
   `:226` says (`SearchSeesListedTables`).
7. `routes.py:449`: an executed approval is not in the audit log if the run
   raises afterwards, although decisions are to be logged
   (`openspec/proposal.md:105`); in `ApprovalSession`, `RunRaises` after `Execute`.
8. `sql_tools.py:33`: a write that starts with a comment or with `WITH` is not taken
   for a write: it is reported like a query, and the schema cache is not cleared,
   although CAP-SEC-008 (`openspec/specs/spec.md:41`) has the number of rows
   returned and the cache cleared after a write (`IsWriteDml` looks at `head`).
9. `checkpoint_cleanup.py:68-75`: a thread that has one old checkpoint loses the
   blobs of all, also of recent ones, and its next turn goes on without the
   messages of days that are to be kept (`main.py:66`, `checkpoint_cleanup.py:20`);
   the exception that `TurnsFollow` names (`stripped`).
10. `effect_queue.py:108-112`: a crash between the handler's return and the
   replacement of the file leaves the row of an effect that succeeded, and so does
   a save that raises: its `OSError` falls into the `except` of the handler (`:113`),
   which backs off from, or counts as failed, an effect that was settled. A
   restart runs it again (`SettledIsNotRecovered` names these windows).
11. `effect_queue.py:110-111`, `:154-155`: where two runners hold the same object, the
   second to finish it pops whatever is stored under its key by then, a fresh
   effect among others, which leaves without a run and without a count of its own;
   and a runner whose list was made before (`:98`) runs an object again that another
   has settled (`LeavesCounted`, `RunsBounded`).
12. `routes.py:438`: a decision after a run that raised goes on from the saved node,
   whatever was decided. A rejection then executes what was approved before, although
   `openspec/api-spec.yaml:108` has `/approve` go on or reject by the decision; and a
   repeated approval executes again what was executed and not saved (the exceptions
   that `RejectRunsNothing` and `RunOnce` name).
13. `routes.py:463`: when the resumed run is interrupted again, the reply says that the
   review is done (`InterruptReply`); a client that repeats `/approve` approves a
   statement that no reply has shown.
14. `intent_guard.py:146`: a greeting that names a table is turned away, although the
   module lets through all that maps to a table (`intent_guard.py:15-16`); `Classify`
   has the tests in the code's order.
15. `truncation.py:71-77`: an object without a list of rows under `data` is never cut,
   so that what `list_tables`, `data_profile` and `get_sample_data` return reaches the
   model whole, rows up to `sql_max_rows` included; `TablesAndTextsAreBounded` does not
   speak of them.

Visible in the models or met while writing them:

- With the default settings one approved write may be applied up to
  (3 + 1) * (2 + 1) = 12 times when answers are lost, because
  `MAX_RETRY_ATTEMPTS` and `EFFECT_QUEUE_MAX_RETRIES` multiply.
- The substring test of `risk_assessor.py:121` denies `SELECT updated_at FROM sales`.
- The logged `model_view` is the condensed `str()` of a whole `ToolMessage`
  (`logging_wrapper.py:95`), a text, never what the model sees; the tool's name and
  arguments are read from attributes the request does not have
  (`logging_wrapper.py:30-31`). `core/recon.py:5-6` says that the model's messages
  can be rebuilt from the log; what remains of that is that every result in the
  thread is logged, and the last record of its call is its own (`ShownIsLogged`).
  The rebuilt messages carry identities of their own (`recon.py:130`), so a reader
  cannot tell the earlier records of a call from the last.
- `truncation.py:9-10` says that results of the current turn are not condensed; the
  hook runs before every model call, so they are.
- `_last_query_sql` reads attributes of tool calls that are dictionaries
  (`routes.py:201`), so the audited SQL is empty.
- `cleanup_old_checkpoints` deletes by `created_at`; in a database set up by the
  saver alone there is no such column, and every cleanup ends with an error
  (`CountRefused`).

## 5. What is proved

TLAPS proves the following for every value of the constants that satisfies the
named assumptions of the modules (`AgentConstants`, `SessionConstants`, `CacheConstants`, `GuardConstants`,
`ExecutionConstants`, `QueueConstants`, `SchemaConstants`, `CleanupConstants`,
`GateConstants`, `ConversationConstants`: bounds are natural numbers, sets of
callers, of runners and of keys of the TTL cache are finite, the thread standing for "nobody" is no thread, a system table is no
known table, a statement holds its own DML keyword).

`AgentCacheProofs`. The async and the sync half share only `clear_cache`; two
lemmas say that a step of one leaves the other alone, so each part of the
invariant is proved on its half. The inductive invariant adds to the types:
- `Awaits`: creators await tasks that were created, each one its own. Without it
  two creators might share a task and one remove the other's entry unnoticed.
- `CreatorsCounted`: creators, not counting the one of the pending entry, are at
  most `clears`. The bound `BuildersBounded` alone is not inductive, because it
  does not say that a creator's leaving takes the pending entry along.
- `OneBuild`: as long as nothing was cleared or cancelled, one agent at most is
  cached or handed out, and no build is pending beside it.
- `BuildsUnderLock`, `SyncCounted`, `KeyErrorsCounted`: who builds holds the lock,
  found no agent, and builds are counted by clears.

`ApprovalSessionProofs`. `RunsNeedApproval` is strengthened by `Approvals` (a run
in the tools node, and a checkpoint there, has an approved turn), `Pending` and
`Fresh` (only turns that were opened are pending, and new ones have no past),
`Records` (a handler that will log an approval has been through the tools node)
and `Alone`: without overlaps and restarts, the one active run is where the
checkpoint says, and a checkpoint before the tools without a run there is that of
a turn whose run raised, executed no more often than its results were lost. That
gives `RunOnce` and `RejectRunsNothing`.

`CacheAndSandboxProofs`, the cache. `SameKeys` is what makes `Bounded` inductive: the
key that `_evict_oldest` takes from `_expiry` is one of `_store`, so one eviction
removes one entry. `RecentIsKept` speaks of the last entries only; `Kept`
strengthens it to an order of all (`Ranked`): while the clock is not set back and no
key is set again, what would be evicted first was set first, and older entries
come before all that the history still names. The order is that of `min` over the
dictionary, by expiry and then by position, so equal times are the case that the
proof turns on; and no entry expires later than one that is set now.

`CacheAndSandboxProofs`, the sandbox. While calls come one after the other and none
times out, `Solo` says that at most one call is in progress, that it is alone in the
queue it stands in, and, stage by stage, which figures the process has: none while
its run is queued, an empty one at the start, one with its own drawing afterwards.
`SoloImageIsOwn` alone is not inductive, as it says nothing of the figures that are
open while a run goes on. `SandboxTyping` counts the runs against the threads of
the second pool, runs of calls that were given up included.

`QueryExecutionProofs`. Every part of the invariant speaks of one call, and two
lemmas (`OthersStay`, `StaysTrue`) carry it over for the calls that do not step.
- `GuardedCall`: tables that were looked up are known, and whoever sends was
  assessed in the same round. `AppliedIsGuarded` speaks of past applications and
  is not inductive without it.
- `SettledCall`: applications are one ahead of lost answers exactly while an answer
  is under way or was the result. This is what makes every step a step of
  `StatementService` or none (`Refinement`).
- `CountedCall`: a round adds at most `QueueRetries + 1` applications, so the bound
  of `ExecutionsBounded` follows from the count of rounds and tries.

`EffectQueueProofs`. The lists that runners hold are the difficulty: an object may
be in several of them, popped, and replaced under its key.
- `Shape`: no list holds an object twice, and what is stored is stored under its key.
- `RunsCounted`: runs of an object exceed its counted attempts by the runners that
  are running it or can never meet it again (`Spent`). `RunsBounded` follows, as
  these are at most all runners; it is not inductive without the account.
- `OneHome`, `PendingNotDone`: a payload belongs to one key, in the queue, in the file
  and in the hands of handlers, so that the row that a pop removes is the only one,
  and what is stored is done only while a runner is about to settle it; this carries
  `SettledIsNotRecovered`.
- `YoungestStored`: what is stored under a key is the youngest object of that key, so
  that a pop that takes away an object other than the runner's own takes a younger
  one, and the runner's own had been counted before; `LeavesCounted` follows.

`SchemaCacheProofs`. `Fetched` says that who is about to store a schema that is older
than a cleared write is known to have overlapped the clear, `Building` the same of
the indexes under construction. The two properties alone say nothing of what is
still in the hands of a coroutine.

`CheckpointCleanupProofs`. `Cleanups` bounds each cutoff by the day; `Turns` numbers
the checkpoints of a thread, so that the newest row is the last turn unless it was
deleted; `RowsKept` says which rows a deletion may have taken, and `BlobsKept` the
same of the blobs of the last checkpoint; `Swept` says what a
deletion has already taken of the rows that it is about to delete, which is what
`LeftoverNeedsTurn` needs across its three statements.

`ConversationProofs`. `Told` says of every result, in a message or still with the
tools' node, that its note counts what it lacks, that a cut one is short enough
not to be cut again, and that its note is whole unless it is longer than a cell
may be: with that, a further condensing keeps the note, whatever the limits. `Seen`
says that after the hook tables and texts are bounded. On these more rests:
- `RewritingEnds`: `Passed` keeps with each message how often it was condensed, and
  the lengths of a text over four cuts are followed for every limit. A cut text ends
  with a mark whose own length depends on the number of digits it tells, so that it
  may take three rewritings until the length stays, as at a limit of 967; the note
  is a cell of at most 57 characters, whose mark tells a number of two digits.
- `AllAreAnswered`: `Places` ties the calls under way to the phase, and `Owed` says
  that a call of a message that was not abandoned has its answer behind it, or is
  under way for the last message that asks.
- `ChartIsOfThisTurn`: `FreshIsLast`, that behind every chart in the thread there is
  one of this turn once this turn has made one. It needs that a result of
  `create_chart` is an object with `success` (`result_schemas.py:66`), which
  `ConversationConstants` assumes.
- `LogTells`: `Logged`, that the last record of each call is that of its result, in
  the thread or still with the tools' node, and that a call whose result is in the
  thread is not made again.

## 6. What is only model-checked

- Liveness (`EveryEffectLeaves`, `CacheHeals`, both `CallsEnd`, `ChartCallsEnd`) is out
  of reach of the proof system's backends.
- Nothing else: every invariant of a passing run, and the refinement of
  `StatementService`, is proved.
- The disagreements of section 4 are counterexamples, found on the instances.

## 7. What is not modelled, and the plan

What could be added, in this order:

1. `ResultFlow`: `query_database` → result id → `create_chart` → chart id →
   `/chart/option`, over two instances of `BoundedTTLCache`, with the results that
   `run_effect` keeps per statement without a limit (`effect_queue.py:139`).
2. `Pool`: `acquire` at the limit, where `get_table_schema` takes four connections
   at once, and `close` beside requests.
3. `QueryExecution` composed with `ApprovalSession`: what a repeat of `/approve` and
   the retries of one call do together.
4. Ranking of tables with its scores, and risk levels below the denial, as operators
   over bounded inputs.
5. Proofs about single steps, beside the invariants: which counters and records only
   grow, and what one action may change of them.

Left out for good: what the LLM says, the content of charts, reports, exports
and prompts, the patterns by which SQL and questions are classified, log
rotation and redaction, the front end, the load test and the evaluation scripts.
They are data, wording or I/O, or tools beside the program.
