------------------------- MODULE SchemaCacheProofs -------------------------
(***************************************************************************)
(* Proofs that SchemaCache serves, from its cache and from its index,      *)
(* nothing older than a write that was cleared, unless a clear fell into   *)
(* the fetch or the build that stored it: for any tables and sessions.     *)
(* Inv is inductive.  Fetched is about the answers that coroutines have    *)
(* yet to store, Building about the indexes they have not yet installed.   *)
(***************************************************************************)
EXTENDS SchemaCache, TLAPS

Entry == {NoEntry} \cup Nat

Typed ==
    /\ version \in [Tables -> Nat]
    /\ cache \in [Tables -> Entry]
    /\ index \in [Tables -> Entry]
    /\ DOMAIN pc = Sessions
    /\ DOMAIN op = Sessions
    /\ DOMAIN want = Sessions
    /\ DOMAIN got = Sessions
    /\ acc \in [Sessions -> [Tables -> Entry]]
    /\ written \in [Tables -> Nat]
    /\ \A t \in Tables : written[t] <= version[t]

FetchedBy(c) ==
    pc[c] = "store" =>
        \A t \in Tables : t = Table(c) =>
            /\ got[c] \in Nat
            /\ c \notin overlap => got[c] >= written[t]

Fetched == \A c \in Sessions : FetchedBy(c)

IsNew(ix) == \A t \in Tables : ix[t] # NoEntry => ix[t] >= written[t]

BuildingBy(c) ==
    /\ acc[c] # NoIndex => pc[c] \in {"loop", "fetch", "store"} /\ op[c] \in {"index", "search"}
    /\ c \notin mixed => IsNew(acc[c])

Building == \A c \in Sessions : BuildingBy(c)

Inv ==
    /\ Typed
    /\ Fetched
    /\ Building
    /\ StaleOnlyIfOverlapped
    /\ IndexStaleOnlyIfOverlapped

-----------------------------------------------------------------------------

LEMMA InitInv ==
    ASSUME Init
    PROVE  Inv
<1>1. Typed
    BY DEF Init, Typed, Entry, NoIndex
<1>2. Fetched /\ Building
    BY DEF Init, Fetched, FetchedBy, Building, BuildingBy, IsNew, NoIndex
<1>3. StaleOnlyIfOverlapped /\ IndexStaleOnlyIfOverlapped
    BY DEF Init, StaleOnlyIfOverlapped, IndexStaleOnlyIfOverlapped
<1> QED BY <1>1, <1>2, <1>3 DEF Inv

\* What the caller does with a schema changes its own index only, and only at the
\* table at hand.
LEMMA UseOf ==
    ASSUME Typed, NEW c \in Sessions, NEW v, Use(c, v)
    PROVE  /\ DOMAIN want' = Sessions
           /\ \A d \in Sessions : d # c => want'[d] = want[d] /\ acc'[d] = acc[d]
           /\ DOMAIN acc' = Sessions
           /\ DOMAIN acc'[c] = Tables
           /\ \A t \in Tables : acc'[c][t] = acc[c][t] \/ (t = Table(c) /\ acc'[c][t] = v)
           /\ op[c] \notin {"index", "search"} => acc' = acc
<1> DEFINE mine == [acc[c] EXCEPT ![Table(c)] = v]
<1>1. DOMAIN want' = Sessions /\ \A d \in Sessions : d # c => want'[d] = want[d]
    BY DEF Use, Typed
<1>2. \/ acc' = acc
      \/ op[c] \in {"index", "search"} /\ acc' = [acc EXCEPT ![c] = mine]
    BY DEF Use
<1>3. op[c] \notin {"index", "search"} => acc' = acc
    BY DEF Use
<1>4. DOMAIN mine = Tables /\ \A t \in Tables : mine[t] = acc[c][t] \/ (t = Table(c) /\ mine[t] = v)
    BY DEF Typed
<1>5. DOMAIN acc = Sessions /\ DOMAIN acc[c] = Tables
    BY DEF Typed
<1> HIDE DEF mine
<1> QED BY <1>1, <1>2, <1>3, <1>4, <1>5

\* A step of a coroutine that ends its call, or begins or goes on without using a
\* schema, keeps what is said of that coroutine and of the others.
LEMMA LeaveOf ==
    ASSUME Inv, NEW c \in Sessions, Leave(c), UNCHANGED <<version, written>>
    PROVE  /\ DOMAIN pc' = Sessions /\ DOMAIN op' = Sessions /\ DOMAIN want' = Sessions
           /\ DOMAIN got' = Sessions /\ acc' \in [Sessions -> [Tables -> Entry]]
           /\ Fetched'
           /\ Building'
<1>0. NoIndex \in [Tables -> Entry]
    BY DEF NoIndex, Entry
<1>1. /\ DOMAIN pc' = Sessions /\ DOMAIN op' = Sessions /\ DOMAIN want' = Sessions
      /\ DOMAIN got' = Sessions /\ acc' \in [Sessions -> [Tables -> Entry]]
    BY <1>0 DEF Leave, Goto, Inv, Typed
<1>2. ASSUME NEW d \in Sessions, d # c PROVE FetchedBy(d)' /\ BuildingBy(d)'
  <2>1. /\ pc'[d] = pc[d] /\ op'[d] = op[d] /\ want'[d] = want[d] /\ got'[d] = got[d]
        /\ acc'[d] = acc[d] /\ (d \in overlap' <=> d \in overlap) /\ (d \in mixed' <=> d \in mixed)
      BY <1>2 DEF Leave, Goto, Inv, Typed
  <2>2. FetchedBy(d) /\ BuildingBy(d)
      BY DEF Inv, Fetched, Building
  <2>3. FetchedBy(d)'
      BY <2>1, <2>2 DEF FetchedBy, Table
  <2>4. BuildingBy(d)'
      BY <2>1, <2>2 DEF BuildingBy, IsNew, NoIndex
  <2> QED BY <2>3, <2>4
<1>3. FetchedBy(c)' /\ BuildingBy(c)'
  <2>1. pc'[c] = "idle" /\ acc'[c] = NoIndex
      BY DEF Leave, Goto, Inv, Typed
  <2> QED BY <2>1 DEF FetchedBy, BuildingBy, IsNew, NoIndex
<1> QED BY <1>1, <1>2, <1>3 DEF Fetched, Building

\* A step that changes one coroutine only, and no history, schema or index.
Alone(c) ==
    /\ UNCHANGED <<version, cache, index, built, written, tainted, oldIndex>>
    /\ DOMAIN pc' = Sessions /\ DOMAIN op' = Sessions /\ DOMAIN want' = Sessions
    /\ DOMAIN got' = Sessions
    /\ \A d \in Sessions : d # c =>
          /\ pc'[d] = pc[d] /\ op'[d] = op[d] /\ want'[d] = want[d] /\ got'[d] = got[d]
          /\ acc'[d] = acc[d]
          /\ d \in overlap' <=> d \in overlap
          /\ d \in mixed' <=> d \in mixed

LEMMA AloneKeeps ==
    ASSUME Inv, NEW c \in Sessions, Alone(c), acc' \in [Sessions -> [Tables -> Entry]],
           FetchedBy(c)', BuildingBy(c)'
    PROVE  Inv'
<1>1. Typed'
    BY DEF Inv, Typed, Alone
<1>2. ASSUME NEW d \in Sessions, d # c PROVE FetchedBy(d)' /\ BuildingBy(d)'
  <2>1. /\ pc'[d] = pc[d] /\ op'[d] = op[d] /\ want'[d] = want[d] /\ got'[d] = got[d]
        /\ acc'[d] = acc[d] /\ (d \in overlap' <=> d \in overlap) /\ (d \in mixed' <=> d \in mixed)
        /\ written' = written
      BY <1>2 DEF Alone
  <2>2. FetchedBy(d) /\ BuildingBy(d)
      BY DEF Inv, Fetched, Building
  <2>3. FetchedBy(d)'
      BY <2>1, <2>2 DEF FetchedBy, Table
  <2>4. BuildingBy(d)'
      BY <2>1, <2>2 DEF BuildingBy, IsNew, NoIndex
  <2> QED BY <2>3, <2>4
<1>3. Fetched' /\ Building'
    BY <1>2 DEF Fetched, Building
<1>4. StaleOnlyIfOverlapped' /\ IndexStaleOnlyIfOverlapped'
    BY DEF Inv, Alone, StaleOnlyIfOverlapped, IndexStaleOnlyIfOverlapped, Entries
<1> QED BY <1>1, <1>3, <1>4 DEF Inv

-----------------------------------------------------------------------------

\* Steps that change the place of one coroutine.
LEMMA AloneSteps ==
    ASSUME Inv, NEW c \in Sessions,
           \/ \E t \in Tables : AskSchema(c, t) \/ Write(c, t)
           \/ AskIndex(c) \/ Search(c)
           \/ Miss(c) \/ Answer(c) \/ FetchFails(c) \/ Answered(c) \/ ListTables(c)
           \/ ListNames(c) \/ WriteFails(c)
    PROVE  Inv'
<1> DEFINE t == Table(c)
<1>0. BuildingBy(c) /\ FetchedBy(c)
    BY DEF Inv, Building, Fetched
<1>1. ASSUME NEW operation, NEW place \in {"loop", "names", "list", "write"}, NEW tables,
             Begin(c, operation, place, tables)
      PROVE  Inv'
  <2>1. Alone(c) /\ acc' = acc /\ pc'[c] = place /\ pc[c] = "idle" /\ mixed' = mixed
        /\ written' = written
      BY <1>1 DEF Begin, Goto, Alone, Inv, Typed, shared, history
  <2>2. FetchedBy(c)' /\ BuildingBy(c)'
      BY <1>0, <2>1 DEF FetchedBy, BuildingBy, IsNew, NoIndex
  <2> QED BY <2>1, <2>2, AloneKeeps DEF Inv, Typed
<1>2. CASE (\E u \in Tables : AskSchema(c, u) \/ Write(c, u)) \/ AskIndex(c) \/ Search(c)
    BY <1>1, <1>2 DEF AskSchema, Write, AskIndex, Search
<1>3. CASE Miss(c)
  <2>1. Alone(c) /\ acc' = acc /\ pc'[c] = "fetch" /\ pc[c] = "loop" /\ mixed' = mixed
        /\ op' = op /\ written' = written
      BY <1>3 DEF Miss, Goto, Alone, Inv, Typed, shared
  <2>2. FetchedBy(c)' /\ BuildingBy(c)'
      BY <1>0, <2>1 DEF FetchedBy, BuildingBy, IsNew, NoIndex
  <2> QED BY <2>1, <2>2, AloneKeeps DEF Inv, Typed
<1>4. CASE Answer(c)
  <2>1. Alone(c) /\ acc' = acc /\ pc'[c] = "store" /\ pc[c] = "fetch" /\ mixed' = mixed
        /\ op' = op /\ written' = written /\ want' = want /\ got'[c] = version[t]
      BY <1>4 DEF Answer, Goto, Alone, Inv, Typed, shared, history
  <2>2. \A u \in Tables : version[u] \in Nat /\ version[u] >= written[u]
      BY DEF Inv, Typed
  <2>3. FetchedBy(c)'
      BY <2>1, <2>2 DEF FetchedBy, Table
  <2>4. BuildingBy(c)'
      BY <1>0, <2>1 DEF BuildingBy, IsNew, NoIndex
  <2> QED BY <2>1, <2>3, <2>4, AloneKeeps DEF Inv, Typed
<1>5. ASSUME Leave(c), UNCHANGED <<version, shared, written, tainted, oldIndex>> PROVE Inv'
  <2>1. /\ DOMAIN pc' = Sessions /\ DOMAIN op' = Sessions /\ DOMAIN want' = Sessions
        /\ DOMAIN got' = Sessions /\ acc' \in [Sessions -> [Tables -> Entry]]
        /\ Fetched' /\ Building'
      BY <1>5, LeaveOf
  <2>2. UNCHANGED <<version, cache, index, built, written, tainted, oldIndex>>
      BY <1>5 DEF shared
  <2>3. Typed'
      BY <2>1, <2>2 DEF Inv, Typed
  <2>4. StaleOnlyIfOverlapped' /\ IndexStaleOnlyIfOverlapped'
      BY <2>2 DEF Inv, StaleOnlyIfOverlapped, IndexStaleOnlyIfOverlapped, Entries
  <2> QED BY <2>1, <2>3, <2>4 DEF Inv
<1>6. CASE FetchFails(c)
  <2>1. CASE Leave(c)
      BY <1>5, <1>6, <2>1 DEF FetchFails
  <2>2. CASE ~Leave(c)
    <3>1. Alone(c) /\ acc' = acc /\ pc'[c] = "loop" /\ pc[c] = "fetch" /\ mixed' = mixed
          /\ op' = op /\ written' = written
        BY <1>6, <2>2 DEF FetchFails, Goto, Alone, Inv, Typed, shared
    <3>2. FetchedBy(c)' /\ BuildingBy(c)'
        BY <1>0, <3>1 DEF FetchedBy, BuildingBy, IsNew, NoIndex
    <3> QED BY <3>1, <3>2, AloneKeeps DEF Inv, Typed
  <2> QED BY <2>1, <2>2
<1>7. CASE Answered(c) \/ WriteFails(c)
    BY <1>5, <1>7 DEF Answered, WriteFails
<1>8. CASE ListTables(c)
  <2>1. Alone(c) /\ acc' = acc /\ pc'[c] \in {"loop", "names"} /\ pc[c] = "list"
        /\ mixed' = mixed /\ written' = written
      BY <1>8 DEF ListTables, Rank, Goto, Alone, Inv, Typed, shared, history
  <2>2. FetchedBy(c)' /\ BuildingBy(c)'
      BY <1>0, <2>1 DEF FetchedBy, BuildingBy, IsNew, NoIndex
  <2> QED BY <2>1, <2>2, AloneKeeps DEF Inv, Typed
<1>9. CASE ListNames(c)
  <2>1. Alone(c) /\ acc' = acc /\ pc'[c] = "loop" /\ pc[c] = "names" /\ written' = written
      BY <1>9 DEF ListNames, Goto, Alone, Inv, Typed, shared
  <2>2. FetchedBy(c)' /\ BuildingBy(c)'
      BY <1>0, <2>1 DEF FetchedBy, BuildingBy, IsNew, NoIndex
  <2> QED BY <2>1, <2>2, AloneKeeps DEF Inv, Typed
<1> QED BY <1>2, <1>3, <1>4, <1>6, <1>7, <1>8, <1>9

\* A schema is taken from the cache.
LEMMA HitStep ==
    ASSUME Inv, NEW c \in Sessions, Hit(c)
    PROVE  Inv'
<1> DEFINE t == Table(c)
<1>0. BuildingBy(c)
    BY DEF Inv, Building
<1>1. /\ UNCHANGED <<version, cache, index, built, pc, op, got, written, overlap, tainted,
                     oldIndex>>
      /\ pc[c] = "loop" /\ cache[t] # NoEntry
      /\ mixed' = IF t \in tainted THEN mixed \cup {c} ELSE mixed
    BY DEF Hit, Cached
<1>2. /\ DOMAIN want' = Sessions
      /\ \A d \in Sessions : d # c => want'[d] = want[d] /\ acc'[d] = acc[d]
      /\ DOMAIN acc' = Sessions /\ DOMAIN acc'[c] = Tables
      /\ \A u \in Tables : acc'[c][u] = acc[c][u] \/ (u = t /\ acc'[c][u] = cache[t])
      /\ op[c] \notin {"index", "search"} => acc' = acc
    BY UseOf DEF Hit, Inv
<1>3. Alone(c)
    BY <1>1, <1>2 DEF Alone, Inv, Typed
<1>4. acc' \in [Sessions -> [Tables -> Entry]]
  <2>1. acc \in [Sessions -> [Tables -> Entry]] /\ cache \in [Tables -> Entry]
      BY DEF Inv, Typed
  <2>2. \A u \in Tables : acc'[c][u] \in Entry
      BY <1>2, <2>1
  <2>3. acc'[c] = [u \in Tables |-> acc'[c][u]]
    <3>1. op[c] \notin {"index", "search"} => acc'[c] = acc[c]
        BY <1>2
    <3>2. op[c] \in {"index", "search"} => acc'[c] = [acc[c] EXCEPT ![t] = cache[t]]
        BY <2>1 DEF Hit, Use
    <3> HIDE DEF t
    <3> QED BY <2>1, <3>1, <3>2
  <2>4. acc'[c] \in [Tables -> Entry]
      BY <2>2, <2>3
  <2>5. acc' = [d \in Sessions |-> acc'[d]]
      BY <2>1 DEF Hit, Use
  <2> QED BY <1>2, <2>1, <2>4, <2>5
<1>5. FetchedBy(c)'
    BY <1>1 DEF FetchedBy
<1>6. BuildingBy(c)'
  <2>1. acc'[c] # NoIndex => op'[c] \in {"index", "search"}
      BY <1>0, <1>1, <1>2 DEF BuildingBy
  <2>2. ASSUME c \notin mixed', NEW u \in Tables, acc'[c][u] # NoEntry
        PROVE  acc'[c][u] >= written[u]
    <3>1. c \notin mixed /\ t \notin tainted
        BY <1>1, <2>2
    <3>2. CASE acc'[c][u] = acc[c][u]
        BY <1>0, <2>2, <3>1, <3>2 DEF BuildingBy, IsNew
    <3>3. CASE u = t /\ acc'[c][u] = cache[t]
        BY <1>1, <3>1, <3>3 DEF Inv, StaleOnlyIfOverlapped
    <3> QED BY <1>2, <3>2, <3>3
  <2> QED BY <1>1, <2>1, <2>2 DEF BuildingBy, IsNew
<1> QED BY <1>3, <1>4, <1>5, <1>6, AloneKeeps

\* A schema that was fetched is stored.
LEMMA StoreStep ==
    ASSUME Inv, NEW c \in Sessions, Store(c)
    PROVE  Inv'
<1> DEFINE t == Table(c)
<1>0. BuildingBy(c) /\ FetchedBy(c)
    BY DEF Inv, Building, Fetched
<1>1. /\ UNCHANGED <<version, index, built, op, written, oldIndex>>
      /\ pc[c] = "store" /\ pc' = [pc EXCEPT ![c] = "loop"]
      /\ cache' = [cache EXCEPT ![t] = got[c]]
      /\ got' = [got EXCEPT ![c] = NoEntry]
      /\ tainted' = IF c \in overlap THEN tainted \cup {t} ELSE tainted \ {t}
      /\ mixed' = IF c \in overlap THEN mixed \cup {c} ELSE mixed
      /\ overlap' = overlap \ {c}
    BY DEF Store, Goto
<1>2. /\ DOMAIN want' = Sessions
      /\ \A d \in Sessions : d # c => want'[d] = want[d] /\ acc'[d] = acc[d]
      /\ DOMAIN acc' = Sessions /\ DOMAIN acc'[c] = Tables
      /\ \A u \in Tables : acc'[c][u] = acc[c][u] \/ (u = t /\ acc'[c][u] = got[c])
      /\ op[c] \notin {"index", "search"} => acc' = acc
    BY UseOf DEF Store, Inv
<1>3. t \in Tables => got[c] \in Nat /\ (c \notin overlap => got[c] >= written[t])
    BY <1>0, <1>1 DEF FetchedBy
<1>4. acc' \in [Sessions -> [Tables -> Entry]] /\ cache' \in [Tables -> Entry]
  <2>1. acc \in [Sessions -> [Tables -> Entry]] /\ cache \in [Tables -> Entry]
      BY DEF Inv, Typed
  <2>2. \A u \in Tables : acc'[c][u] \in Entry
      BY <1>2, <1>3, <2>1 DEF Entry
  <2>3. acc'[c] = [u \in Tables |-> acc'[c][u]]
    <3>1. op[c] \notin {"index", "search"} => acc'[c] = acc[c]
        BY <1>2
    <3>2. op[c] \in {"index", "search"} => acc'[c] = [acc[c] EXCEPT ![t] = got[c]]
        BY <2>1 DEF Store, Use
    <3> HIDE DEF t
    <3> QED BY <2>1, <3>1, <3>2
  <2>4. acc'[c] \in [Tables -> Entry]
      BY <2>2, <2>3
  <2>5. acc' = [d \in Sessions |-> acc'[d]]
      BY <2>1 DEF Store, Use
  <2>6. cache' \in [Tables -> Entry]
    <3> HIDE DEF t
    <3> QED BY <1>1, <1>3, <2>1 DEF Entry
  <2> QED BY <1>2, <2>1, <2>4, <2>5, <2>6
<1>5. Typed'
    BY <1>1, <1>2, <1>4 DEF Inv, Typed
<1>6. FetchedBy(c)'
  <2>1. pc'[c] = "loop"
      BY <1>1 DEF Inv, Typed
  <2> QED BY <2>1 DEF FetchedBy
<1>7. BuildingBy(c)'
  <2>1. acc'[c] # NoIndex => op'[c] \in {"index", "search"}
      BY <1>0, <1>1, <1>2 DEF BuildingBy
  <2>2. ASSUME c \notin mixed', NEW u \in Tables, acc'[c][u] # NoEntry
        PROVE  acc'[c][u] >= written[u]
    <3>1. c \notin mixed /\ c \notin overlap
        BY <1>1, <2>2
    <3>2. CASE acc'[c][u] = acc[c][u]
        BY <1>0, <2>2, <3>1, <3>2 DEF BuildingBy, IsNew
    <3>3. CASE u = t /\ acc'[c][u] = got[c]
        BY <1>3, <3>1, <3>3
    <3> QED BY <1>2, <3>2, <3>3
  <2>3. pc'[c] = "loop" /\ written' = written
      BY <1>1 DEF Inv, Typed
  <2> QED BY <2>1, <2>2, <2>3 DEF BuildingBy, IsNew
<1>8. ASSUME NEW d \in Sessions, d # c PROVE FetchedBy(d)' /\ BuildingBy(d)'
  <2>1. /\ pc'[d] = pc[d] /\ op'[d] = op[d] /\ want'[d] = want[d] /\ got'[d] = got[d]
        /\ acc'[d] = acc[d] /\ (d \in overlap' <=> d \in overlap) /\ (d \in mixed' <=> d \in mixed)
        /\ written' = written
      BY <1>1, <1>2, <1>8 DEF Inv, Typed
  <2>2. FetchedBy(d) /\ BuildingBy(d)
      BY DEF Inv, Fetched, Building
  <2>3. FetchedBy(d)'
      BY <2>1, <2>2 DEF FetchedBy, Table
  <2>4. BuildingBy(d)'
      BY <2>1, <2>2 DEF BuildingBy, IsNew, NoIndex
  <2> QED BY <2>3, <2>4
<1>9. StaleOnlyIfOverlapped'
  <2>1. ASSUME NEW u \in Tables, cache'[u] # NoEntry, u \notin tainted' PROVE cache'[u] >= written[u]
    <3> HIDE DEF t
    <3>1. CASE u = t
        BY <1>1, <1>3, <2>1, <3>1 DEF Inv, Typed
    <3>2. CASE u # t
        BY <1>1, <2>1, <3>2 DEF Inv, Typed, StaleOnlyIfOverlapped
    <3> QED BY <3>1, <3>2
  <2> QED BY <1>1, <2>1 DEF StaleOnlyIfOverlapped
<1>10. IndexStaleOnlyIfOverlapped'
    BY <1>1 DEF Inv, IndexStaleOnlyIfOverlapped, Entries
<1> QED BY <1>5, <1>6, <1>7, <1>8, <1>9, <1>10 DEF Inv, Fetched, Building

\* An index is installed: it is what its coroutine has built.
LEMMA InstallStep ==
    ASSUME Inv, NEW c \in Sessions, InstallIndex(c)
    PROVE  Inv'
<1>0. BuildingBy(c)
    BY DEF Inv, Building
<1>1. /\ UNCHANGED <<version, cache, written, tainted>>
      /\ index' = acc[c] /\ oldIndex' = (c \in mixed)
    BY DEF InstallIndex
<1>2. NoIndex \in [Tables -> Entry]
    BY DEF NoIndex, Entry
<1>3. /\ DOMAIN pc' = Sessions /\ DOMAIN op' = Sessions /\ DOMAIN want' = Sessions
      /\ DOMAIN got' = Sessions /\ acc' \in [Sessions -> [Tables -> Entry]]
      /\ Fetched' /\ Building'
  <2>1. CASE Leave(c)
      BY <1>1, <2>1, LeaveOf
  <2>2. CASE ~Leave(c)
    <3>1. /\ DOMAIN pc' = Sessions /\ DOMAIN op' = Sessions /\ DOMAIN want' = Sessions
          /\ got' = got /\ overlap' = overlap /\ mixed' = mixed \ {c}
          /\ acc' = [acc EXCEPT ![c] = NoIndex]
          /\ pc'[c] = "loop"
          /\ \A d \in Sessions : d # c =>
                pc'[d] = pc[d] /\ op'[d] = op[d] /\ want'[d] = want[d] /\ acc'[d] = acc[d]
        BY <2>2 DEF InstallIndex, Rank, Goto, Inv, Typed
    <3>2. acc' \in [Sessions -> [Tables -> Entry]]
        BY <1>2, <3>1 DEF Inv, Typed
    <3>3. ASSUME NEW d \in Sessions PROVE FetchedBy(d)' /\ BuildingBy(d)'
      <4>1. CASE d = c
        <5>1. acc'[c] = NoIndex
            BY <3>1 DEF Inv, Typed
        <5> QED BY <3>1, <4>1, <5>1 DEF FetchedBy, BuildingBy, IsNew, NoIndex
      <4>2. CASE d # c
        <5>1. FetchedBy(d) /\ BuildingBy(d)
            BY DEF Inv, Fetched, Building
        <5>2. FetchedBy(d)'
            BY <1>1, <3>1, <4>2, <5>1 DEF FetchedBy, Table
        <5>3. BuildingBy(d)'
            BY <1>1, <3>1, <4>2, <5>1 DEF BuildingBy, IsNew, NoIndex
        <5> QED BY <5>2, <5>3
      <4> QED BY <4>1, <4>2
    <3> QED BY <3>1, <3>2, <3>3 DEF Inv, Typed, Fetched, Building
  <2> QED BY <2>1, <2>2
<1>4. Typed'
    BY <1>1, <1>3 DEF Inv, Typed
<1>5. StaleOnlyIfOverlapped'
    BY <1>1 DEF Inv, StaleOnlyIfOverlapped
<1>6. IndexStaleOnlyIfOverlapped'
    BY <1>0, <1>1 DEF IndexStaleOnlyIfOverlapped, Entries, BuildingBy, IsNew
<1> QED BY <1>3, <1>4, <1>5, <1>6 DEF Inv

\* A write returns: all that is kept goes, and what is on its way is marked.
LEMMA WriteReturnsStep ==
    ASSUME Inv, NEW c \in Sessions, WriteReturns(c)
    PROVE  Inv'
<1>1. /\ cache' = NoIndex /\ index' = NoIndex /\ built' = FALSE
      /\ UNCHANGED <<version, got, acc>>
      /\ written' = [written EXCEPT ![Table(c)] = version[Table(c)]]
      /\ pc[c] = "clear"
      /\ pc' = [pc EXCEPT ![c] = "idle"] /\ DOMAIN op' = Sessions /\ DOMAIN want' = Sessions
      /\ \A d \in Sessions : d # c => op'[d] = op[d] /\ want'[d] = want[d]
      /\ overlap' = {d \in Sessions : pc[d] \in {"fetch", "store"}}
      /\ mixed' = {d \in Sessions : /\ pc[d] \in {"loop", "fetch", "store"}
                                    /\ op[d] \in {"index", "search"}}
    BY DEF WriteReturns, ClearCache, Goto, NoIndex, Inv, Typed
<1>2. Typed'
  <2>1. NoIndex \in [Tables -> Entry]
      BY DEF NoIndex, Entry
  <2>2. /\ version \in [Tables -> Nat] /\ written \in [Tables -> Nat]
        /\ \A t \in Tables : version[t] \in Nat /\ written[t] <= version[t]
      BY DEF Inv, Typed
  <2>3. PICK u : u = Table(c)
      OBVIOUS
  <2>4. written' = [written EXCEPT ![u] = version[u]]
      BY <1>1, <2>3
  <2>5. written' \in [Tables -> Nat] /\ \A t \in Tables : written'[t] <= version[t]
    <3>1. CASE u \in Tables
        BY <2>2, <2>4, <3>1
    <3>2. CASE u \notin Tables
      <4>1. written' = written
          BY <2>2, <2>4, <3>2
      <4> QED BY <2>2, <4>1
    <3> QED BY <3>1, <3>2
  <2> QED BY <1>1, <2>1, <2>5 DEF Inv, Typed
<1>3. ASSUME NEW d \in Sessions PROVE FetchedBy(d)' /\ BuildingBy(d)'
  <2>1. BuildingBy(d) /\ FetchedBy(d)
      BY DEF Inv, Building, Fetched
  <2>2. pc'[d] = IF d = c THEN "idle" ELSE pc[d]
      BY <1>1 DEF Inv, Typed
  <2>3. FetchedBy(d)'
      BY <1>1, <2>1, <2>2 DEF FetchedBy, Table
  <2>4. BuildingBy(d)'
    <3>1. CASE acc[d] = NoIndex
        BY <1>1, <3>1 DEF BuildingBy, IsNew, NoIndex
    <3>2. CASE acc[d] # NoIndex
        BY <1>1, <2>1, <2>2, <3>2 DEF BuildingBy, NoIndex
    <3> QED BY <3>1, <3>2
  <2> QED BY <2>3, <2>4
<1>4. StaleOnlyIfOverlapped' /\ IndexStaleOnlyIfOverlapped'
    BY <1>1 DEF StaleOnlyIfOverlapped, IndexStaleOnlyIfOverlapped, NoIndex
<1> QED BY <1>2, <1>3, <1>4 DEF Inv, Fetched, Building

\* A table changes, by a write that has yet to return or from outside.
LEMMA VersionStep ==
    ASSUME Inv, NEW t,
           version' = [version EXCEPT ![t] = @ + 1],
           UNCHANGED <<shared, op, want, got, acc, history>>,
           DOMAIN pc' = Sessions,
           \A d \in Sessions : pc'[d] = pc[d] \/ (pc[d] = "write" /\ pc'[d] = "clear")
    PROVE  Inv'
<1>1. UNCHANGED <<cache, index, built, written, overlap, mixed, tainted, oldIndex, op, want,
                  got, acc>>
    BY DEF shared, history
<1>2. Typed'
  <2>1. version \in [Tables -> Nat] /\ written \in [Tables -> Nat]
        /\ \A u \in Tables : written[u] <= version[u]
      BY DEF Inv, Typed
  <2>2. /\ DOMAIN version' = Tables
        /\ \A u \in Tables : version'[u] = version[u] \/ version'[u] = version[u] + 1
        /\ version' = [u \in Tables |-> version'[u]]
      BY <2>1
  <2>3. \A u \in Tables : version'[u] \in Nat /\ written[u] <= version'[u]
    <3> HIDE DEF Tables
    <3>1. \A u \in Tables : version[u] \in Nat /\ written[u] \in Nat
        BY <2>1
    <3> QED BY <2>1, <2>2, <3>1
  <2>4. version' \in [Tables -> Nat]
      BY <2>2, <2>3
  <2> QED BY <1>1, <2>3, <2>4 DEF Inv, Typed
<1>3. ASSUME NEW d \in Sessions PROVE FetchedBy(d)' /\ BuildingBy(d)'
  <2>1. FetchedBy(d) /\ BuildingBy(d)
      BY DEF Inv, Fetched, Building
  <2>2. FetchedBy(d)'
      BY <1>1, <2>1 DEF FetchedBy, Table
  <2>3. BuildingBy(d)'
      BY <1>1, <2>1 DEF BuildingBy, IsNew, NoIndex
  <2> QED BY <2>2, <2>3
<1>4. StaleOnlyIfOverlapped' /\ IndexStaleOnlyIfOverlapped'
    BY <1>1 DEF Inv, StaleOnlyIfOverlapped, IndexStaleOnlyIfOverlapped, Entries
<1> QED BY <1>2, <1>3, <1>4 DEF Inv, Fetched, Building

LEMMA StepInv ==
    ASSUME Inv, [Next]_vars
    PROVE  Inv'
<1>1. ASSUME NEW c \in Sessions, Execute(c) PROVE Inv'
  <2>1. /\ version' = [version EXCEPT ![Table(c)] = @ + 1]
        /\ UNCHANGED <<shared, op, want, got, acc, history>>
        /\ DOMAIN pc' = Sessions
        /\ \A d \in Sessions : pc'[d] = pc[d] \/ (pc[d] = "write" /\ pc'[d] = "clear")
      BY <1>1 DEF Execute, Goto, Inv, Typed
  <2> QED BY <2>1, VersionStep
<1>2. ASSUME NEW t \in Tables, Migrate(t) PROVE Inv'
  <2>1. /\ version' = [version EXCEPT ![t] = @ + 1]
        /\ UNCHANGED <<shared, op, want, got, acc, history>>
        /\ DOMAIN pc' = Sessions
        /\ \A d \in Sessions : pc'[d] = pc[d] \/ (pc[d] = "write" /\ pc'[d] = "clear")
      BY <1>2 DEF Migrate, local, Inv, Typed
  <2> QED BY <2>1, VersionStep
<1>3. ASSUME UNCHANGED <<version, cache, index, built, local, history>> PROVE Inv'
  <2>1. UNCHANGED <<version, cache, index, built, pc, op, want, got, acc, written, overlap,
                    mixed, tainted, oldIndex>>
      BY <1>3 DEF local, history
  <2>2. Typed' /\ StaleOnlyIfOverlapped' /\ IndexStaleOnlyIfOverlapped'
      BY <2>1 DEF Inv, Typed, StaleOnlyIfOverlapped, IndexStaleOnlyIfOverlapped, Entries
  <2>3. Fetched' /\ Building'
      BY <2>1 DEF Inv, Fetched, FetchedBy, Table, Building, BuildingBy, IsNew
  <2> QED BY <2>2, <2>3 DEF Inv
<1>4. ASSUME NEW t \in Tables, Expire(t) PROVE Inv'
    BY <1>3, <1>4 DEF Expire
<1>5. CASE UNCHANGED vars
    BY <1>3, <1>5 DEF vars, shared
<1>6. ASSUME NEW c \in Sessions,
             \/ \E t \in Tables : AskSchema(c, t) \/ Write(c, t)
             \/ AskIndex(c) \/ Search(c) \/ Step(c)
      PROVE  Inv'
    BY <1>1, <1>6, AloneSteps, HitStep, StoreStep, InstallStep, WriteReturnsStep DEF Step
<1> QED BY <1>2, <1>4, <1>5, <1>6 DEF Next

LEMMA Invariance == Spec => []Inv
<1>1. Init => Inv
    BY InitInv
<1>2. Inv /\ [Next]_vars => Inv'
    BY StepInv
<1> QED BY <1>1, <1>2, PTL DEF Spec

-----------------------------------------------------------------------------

(* The cache holds no schema older than a write whose clear has been made, *)
(* unless the clear fell into the fetch that stored it: the only order of  *)
(* a write, its clear and a fetch that clear_cache (schema.py:280,         *)
(* sql_tools.py:78) leaves open.                                           *)
THEOREM CacheStaleness == Spec => []StaleOnlyIfOverlapped
<1>1. Inv => StaleOnlyIfOverlapped
    BY DEF Inv
<1> QED BY <1>1, Invariance, PTL

(* Neither does the index (schema.py:229-246), unless it was built across  *)
(* a clear or from an entry that was stored across one.                    *)
THEOREM IndexStaleness == Spec => []IndexStaleOnlyIfOverlapped
<1>1. Inv => IndexStaleOnlyIfOverlapped
    BY DEF Inv
<1> QED BY <1>1, Invariance, PTL
=============================================================================
