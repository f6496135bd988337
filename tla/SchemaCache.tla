---------------------------- MODULE SchemaCache ----------------------------
(***************************************************************************)
(* SchemaManager of core/database/schema.py: the cache of table schemas,   *)
(* and the search index built from them, shared by the coroutines of all   *)
(* sessions; and the writes of query_database (tools/sql_tools.py), which  *)
(* clear the cache.                                                        *)
(*                                                                         *)
(* A table is abstracted to a version, raised by everything that changes   *)
(* what a fetch returns (its columns, its row count); version 0 is a table *)
(* that does not exist, whose schema the code fetches as an empty one.     *)
(* The four queries of a fetch read one version.  A coroutine suspends     *)
(* while it waits for the database, so a fetch is two steps: the database  *)
(* answers, and later the coroutine resumes and stores.                    *)
(***************************************************************************)
EXTENDS Integers, Sequences, FiniteSets, SequencesExt

CONSTANTS
    Names,       \* the table names, in the order list_tables sorts them
    Existing,    \* the tables there at the start
    Sessions,    \* coroutines that use the schema manager
    Priority,    \* _priority_tables(): names, existing or not
    Limit,       \* max_tables of a search
    FetchMayFail, \* whether a fetch of a schema may raise
    MaxVersion   \* bound: the last version of each table

Tables == ToSet(Names)

ASSUME SchemaConstants ==
    /\ IsInjective(Names)
    /\ Existing \subseteq Tables
    /\ Priority \subseteq Tables
    /\ Limit \in Nat \ {0}
    /\ FetchMayFail \in BOOLEAN
    /\ MaxVersion \in [Tables -> Nat]

VARIABLES
    version,   \* the database: the version of each table
    cache,     \* _cache: the version of the schema held, NoEntry if none
    fresh,     \* the entries whose _cache_time is within the TTL
    index,     \* _index: the version each table was indexed with
    built,     \* _index is not None
    pc,        \* where a coroutine stands
    op,        \* what it is doing
    want,      \* the tables it has yet to get, the one at hand first
    got,       \* the version the database answered
    acc,       \* the index it is building
    written,   \* history: a table's version at the last clear that followed
               \*   a write to it
    overlap,   \* history: a clear fell into the coroutine's fetch
    mixed,     \* history: ... or its index took something older than a clear
    tainted,   \* history: the entries stored by a fetch that a clear fell into
    oldIndex   \* history: the index was built across a clear

shared == <<cache, fresh, index, built>>
local == <<pc, op, want, got, acc>>
history == <<written, overlap, mixed, tainted, oldIndex>>
vars == <<version, shared, local, history>>

NoEntry == -1
Versions == Nat
NoIndex == [t \in Tables |-> NoEntry]
Exists(t) == version[t] > 0

TypeOK ==
    /\ version \in [Tables -> Versions]
    /\ cache \in [Tables -> {NoEntry} \cup Versions]
    /\ fresh \subseteq {t \in Tables : cache[t] # NoEntry}
    /\ index \in [Tables -> {NoEntry} \cup Versions]
    /\ built \in BOOLEAN
    /\ pc \in [Sessions -> {"idle", "list", "names", "loop", "fetch", "store",
                            "write", "clear"}]
    /\ op \in [Sessions -> {"none", "read", "index", "search", "write"}]
    /\ want \in [Sessions -> Seq(Tables)]
    /\ got \in [Sessions -> {NoEntry} \cup Versions]
    /\ acc \in [Sessions -> [Tables -> {NoEntry} \cup Versions]]
    /\ written \in [Tables -> Versions]
    /\ overlap \subseteq Sessions
    /\ mixed \subseteq Sessions
    /\ tainted \subseteq Tables
    /\ oldIndex \in BOOLEAN

Init ==
    /\ version = [t \in Tables |-> IF t \in Existing THEN 1 ELSE 0]
    /\ cache = [t \in Tables |-> NoEntry]
    /\ fresh = {}
    /\ index = NoIndex
    /\ built = FALSE
    /\ pc = [c \in Sessions |-> "idle"]
    /\ op = [c \in Sessions |-> "none"]
    /\ want = [c \in Sessions |-> <<>>]
    /\ got = [c \in Sessions |-> NoEntry]
    /\ acc = [c \in Sessions |-> NoIndex]
    /\ written = [t \in Tables |-> 0]
    /\ overlap = {}
    /\ mixed = {}
    /\ tainted = {}
    /\ oldIndex = FALSE

-----------------------------------------------------------------------------
(* Control of a coroutine *)

Table(c) == Head(want[c])

Goto(c, place) == pc' = [pc EXCEPT ![c] = place]

\* The call ends, by a return or an exception.
Leave(c) ==
    /\ Goto(c, "idle")
    /\ op' = [op EXCEPT ![c] = "none"]
    /\ want' = [want EXCEPT ![c] = <<>>]
    /\ got' = [got EXCEPT ![c] = NoEntry]
    /\ acc' = [acc EXCEPT ![c] = NoIndex]
    /\ overlap' = overlap \ {c}
    /\ mixed' = mixed \ {c}

Begin(c, operation, place, tables) ==
    /\ pc[c] = "idle"
    /\ Goto(c, place)
    /\ op' = [op EXCEPT ![c] = operation]
    /\ want' = [want EXCEPT ![c] = tables]
    /\ UNCHANGED <<version, shared, got, acc, history>>

\* get_table_schema called by its tool.
AskSchema(c, t) == Begin(c, "read", "loop", <<t>>)
\* _get_index called by the intent router or the admission gate.
AskIndex(c) == ~built /\ Begin(c, "index", "names", <<>>)
\* get_relevant_schemas: it gets the index and then reads the schemas of the
\* tables it ranks first.
Search(c) == Begin(c, "search", "list", <<>>)
\* query_database with a write that the guard let through.
Write(c, t) == Exists(t) /\ Begin(c, "write", "write", <<t>>)

-----------------------------------------------------------------------------
(* get_table_schema *)

\* The lookup without the TTL.
AnyAge(t) == cache[t] # NoEntry
\* An entry counts as long as it is younger than the TTL.
Cached(t) == cache[t] # NoEntry /\ t \in fresh

\* What the caller does with the schema of the table at hand: _get_index adds
\* it to its index.
Use(c, v) ==
    /\ want' = [want EXCEPT ![c] = Tail(@)]
    /\ acc' = IF op[c] \in {"index", "search"}
              THEN [acc EXCEPT ![c][Table(c)] = v] ELSE acc

Hit(c) ==
    /\ pc[c] = "loop" /\ want[c] # <<>>
    /\ Cached(Table(c))
    /\ Use(c, cache[Table(c)])
    /\ mixed' = IF Table(c) \in tainted THEN mixed \cup {c} ELSE mixed
    /\ UNCHANGED <<version, cache, fresh, index, built, pc, op, got,
                   written, overlap, tainted, oldIndex>>

Miss(c) ==
    /\ pc[c] = "loop" /\ want[c] # <<>>
    /\ ~Cached(Table(c))
    /\ Goto(c, "fetch")
    /\ overlap' = overlap \ {c}
    /\ UNCHANGED <<version, shared, op, want, got, acc,
                   written, mixed, tainted, oldIndex>>

\* The database answers.
Answer(c) ==
    /\ pc[c] = "fetch"
    /\ got' = [got EXCEPT ![c] = version[Table(c)]]
    /\ Goto(c, "store")
    /\ UNCHANGED <<version, shared, op, want, acc, history>>

\* The coroutine resumes and puts the schema in the cache.
Store(c) ==
    LET t == Table(c) IN
    /\ pc[c] = "store"
    /\ cache' = [cache EXCEPT ![t] = got[c]]
    /\ fresh' = fresh \cup {t}
    /\ Use(c, got[c])
    /\ got' = [got EXCEPT ![c] = NoEntry]
    /\ Goto(c, "loop")
    /\ tainted' = IF c \in overlap THEN tainted \cup {t} ELSE tainted \ {t}
    /\ mixed' = IF c \in overlap THEN mixed \cup {c} ELSE mixed
    /\ overlap' = overlap \ {c}
    /\ UNCHANGED <<version, index, built, op, written, oldIndex>>

\* The fetch raises: an index build goes on with the next table, every other
\* caller passes the exception on.
FetchFails(c) ==
    /\ FetchMayFail
    /\ pc[c] = "fetch"
    /\ \/ /\ op[c] \in {"index", "search"}
          /\ want' = [want EXCEPT ![c] = Tail(@)]
          /\ got' = [got EXCEPT ![c] = NoEntry]
          /\ Goto(c, "loop")
          /\ overlap' = overlap \ {c}
          /\ UNCHANGED <<op, acc, mixed>>
       \/ /\ op[c] = "read"
          /\ Leave(c)
    /\ UNCHANGED <<version, shared, written, tainted, oldIndex>>

\* get_table_schema returns to its tool, get_relevant_schemas to its caller.
Answered(c) ==
    /\ pc[c] = "loop" /\ want[c] = <<>> /\ op[c] = "read"
    /\ Leave(c)
    /\ UNCHANGED <<version, shared, written, tainted, oldIndex>>

-----------------------------------------------------------------------------
(* _get_index and get_relevant_schemas *)

Entries(ix) == {t \in Tables : ix[t] # NoEntry}

\* rank_relevant_tables, without its scores: up to Limit tables, which are
\* tables of the index, or priority tables whether they exist or not, or, with
\* an empty index, any table used before.
Candidates(ix) ==
    LET names == IF Entries(ix) = {} THEN Tables ELSE Entries(ix) \cup Priority
    IN  UNION {SetToSeqs(S) : S \in {T \in SUBSET names :
                                        Cardinality(T) <= Limit}}

\* The search ranks the tables of an index and goes on to read the schemas of
\* the best.
Rank(c, ix) ==
    /\ \E s \in Candidates(ix) : want' = [want EXCEPT ![c] = s]
    /\ op' = [op EXCEPT ![c] = "read"]
    /\ Goto(c, "loop")

\* list_tables answers get_relevant_schemas, which then calls _get_index.
ListTables(c) ==
    /\ pc[c] = "list"
    /\ \/ built /\ Rank(c, index)
       \/ ~built /\ Goto(c, "names") /\ UNCHANGED <<op, want>>
    /\ UNCHANGED <<version, shared, got, acc, history>>

\* list_tables answers _get_index, in the order of the names.
ListNames(c) ==
    /\ pc[c] = "names"
    /\ want' = [want EXCEPT ![c] = SelectSeq(Names, Exists)]
    /\ Goto(c, "loop")
    /\ mixed' = mixed \ {c}
    /\ UNCHANGED <<version, shared, op, got, acc,
                   written, overlap, tainted, oldIndex>>

\* The index is complete and replaces whatever _index holds.
InstallIndex(c) ==
    /\ pc[c] = "loop" /\ want[c] = <<>> /\ op[c] \in {"index", "search"}
    /\ index' = acc[c]
    /\ built' = TRUE
    /\ oldIndex' = (c \in mixed)
    /\ \/ /\ op[c] = "search"
          /\ Rank(c, acc[c])
          /\ acc' = [acc EXCEPT ![c] = NoIndex]
          /\ mixed' = mixed \ {c}
          /\ UNCHANGED <<got, overlap>>
       \/ /\ op[c] = "index"
          /\ Leave(c)
    /\ UNCHANGED <<version, cache, fresh, written, tainted>>

-----------------------------------------------------------------------------
(* Writes, the passing of time and changes made by others *)

\* A clear_cache that forgets the index, the schemas, the times.
ClearSchemas ==
    /\ cache' = [t \in Tables |-> NoEntry]
    /\ fresh' = {}
    /\ UNCHANGED <<index, built>>

ClearIndex ==
    /\ index' = NoIndex
    /\ built' = FALSE
    /\ UNCHANGED <<cache, fresh>>

ClearButTimes ==
    /\ cache' = [t \in Tables |-> NoEntry]
    /\ index' = NoIndex
    /\ built' = FALSE
    /\ UNCHANGED fresh

\* clear_cache() without a table.
ClearCache ==
    /\ cache' = [t \in Tables |-> NoEntry]
    /\ fresh' = {}
    /\ index' = NoIndex
    /\ built' = FALSE

\* The database executes the write.
Execute(c) ==
    /\ pc[c] = "write"
    /\ version[Table(c)] < MaxVersion[Table(c)]
    /\ version' = [version EXCEPT ![Table(c)] = @ + 1]
    /\ Goto(c, "clear")
    /\ UNCHANGED <<shared, op, want, got, acc, history>>

\* query_database resumes after the write and clears the cache.
WriteReturns(c) ==
    /\ pc[c] = "clear"
    /\ ClearCache
    /\ written' = [written EXCEPT ![Table(c)] = version[Table(c)]]
    /\ Goto(c, "idle")
    /\ op' = [op EXCEPT ![c] = "none"]
    /\ want' = [want EXCEPT ![c] = <<>>]
    /\ overlap' = {d \in Sessions : pc[d] \in {"fetch", "store"}}
    /\ mixed' = {d \in Sessions : pc[d] \in {"loop", "fetch", "store"}
                                  /\ op[d] \in {"index", "search"}}
    /\ tainted' = {}
    /\ oldIndex' = FALSE
    /\ UNCHANGED <<version, got, acc>>

\* The write raises, before the database executed it or after.
WriteFails(c) ==
    /\ pc[c] \in {"write", "clear"}
    /\ Leave(c)
    /\ UNCHANGED <<version, shared, written, tainted, oldIndex>>

\* The TTL of an entry passes.
Expire(t) ==
    /\ t \in fresh
    /\ fresh' = fresh \ {t}
    /\ UNCHANGED <<version, cache, index, built, local, history>>

\* A table is created or altered outside the program.
Migrate(t) ==
    /\ version[t] < MaxVersion[t]
    /\ version' = [version EXCEPT ![t] = @ + 1]
    /\ UNCHANGED <<shared, local, history>>

-----------------------------------------------------------------------------

Step(c) ==
    \/ Hit(c) \/ Miss(c) \/ Answer(c) \/ Store(c) \/ FetchFails(c)
    \/ Answered(c) \/ ListTables(c) \/ ListNames(c) \/ InstallIndex(c)
    \/ Execute(c) \/ WriteReturns(c) \/ WriteFails(c)

Next ==
    \/ \E c \in Sessions :
          \/ \E t \in Tables : AskSchema(c, t) \/ Write(c, t)
          \/ AskIndex(c) \/ Search(c)
          \/ Step(c)
    \/ \E t \in Tables : Expire(t) \/ Migrate(t)

Spec == Init /\ [][Next]_vars

\* The database answers or fails, coroutines resume, time passes.  No one has
\* to call anything or to change a table.
FairSpec ==
    /\ Spec
    /\ \A c \in Sessions : WF_vars(Step(c))
    /\ \A t \in Tables : WF_vars(Expire(t))

-----------------------------------------------------------------------------
(* Properties *)

\* A schema is served that is older than a write whose clear has been made,
\* although no fetch that stored it was under way when the cache was cleared:
\* this never happens.  clear_cache at sql_tools.py:78 covers every order of
\* a write, a clear and a fetch but that one (schema.py:145-183).
StaleOnlyIfOverlapped ==
    \A t \in Tables :
        cache[t] # NoEntry /\ t \notin tainted => cache[t] >= written[t]

\* The same of the index: each of its entries is as new as the last write that
\* was cleared, unless the index was built across a clear or from an entry
\* that was stored across one (schema.py:229-246, :288).
IndexStaleOnlyIfOverlapped ==
    built /\ ~oldIndex =>
        \A t \in Entries(index) : index[t] >= written[t]

\* When the tables no longer change, the cache stops serving old schemas, also
\* of tables changed outside the program: the TTL heals whatever the clears
\* have missed (schema.py:112-115).
CacheHeals ==
    <>[](\A t \in Tables : Cached(t) => cache[t] = version[t])

\* After a write has returned and the cache was cleared, what the cache serves
\* is not older than the write (sql_tools.py:71: the schema cache is
\* invalidated after a write, to refresh stale row counts).
ServedIsNotOlderThanWrite ==
    \A t \in Tables : Cached(t) => cache[t] >= written[t]

\* When a search has listed the tables and goes on to rank them at once, the
\* index it uses holds every table it has listed (schema.py:226: the index is
\* built again automatically after a table was added).
SearchSeesListedTables ==
    [][\A c \in Sessions : pc[c] = "list" /\ pc'[c] = "loop" =>
            {t \in Tables : Exists(t)} \subseteq Entries(index)]_vars
=============================================================================
