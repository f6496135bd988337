---------------------- MODULE CheckpointCleanupProofs ----------------------
(***************************************************************************)
(* Proofs of the properties of CheckpointCleanup for any workers, threads  *)
(* and bounds.  Inv is inductive.  Cleanups says what a cleanup knows at   *)
(* each of its statements, Turns how the turns of a thread are numbered,   *)
(* RowsKept which rows may be gone, BlobsKept when the blobs of a last     *)
(* checkpoint may be, and Swept what a deletion has already taken away     *)
(* before it takes the checkpoints themselves.                             *)
(***************************************************************************)
EXTENDS CheckpointCleanup, WellFoundedInduction, TLAPS

ByDay == {"count", "writes", "blobs", "rows"}
ByThread == {"threadWrites", "threadBlobs", "threadRows"}

Cleanups ==
    /\ cleaned <= day
    /\ \A w \in Workers :
          /\ doomed[w] \subseteq orphaned
          /\ pc[w] \in ByDay => cutoff[w] <= day - Keep
          /\ pc[w] \in ByDay \ {"count"} => hasCreatedAt
          /\ pc[w] \in ByThread => doomed[w] # {}

Turns ==
    /\ rows \subseteq saved
    /\ \A r \in saved : r.id <= last[r.thread] /\ r.day <= day
    /\ \A r, s \in saved : r.thread = s.thread /\ r.id = s.id => r = s
    /\ ~divided => \A t \in Threads : last[t] > 0 =>
                      \E r \in saved : r.thread = t /\ r.id = last[t]
    /\ \A w \in Workers : stage[w] # "down" => saver[w] # "none"
    /\ \A t \in Threads : turn[t].at # "idle" =>
          /\ turn[t].worker \in Workers
          /\ stage[turn[t].worker] = "serving"
          /\ ~divided => saver[turn[t].worker] = "tables"

RowsKept ==
    \A r \in saved :
        \/ r \in rows
        \/ r.thread \in orphaned
        \/ hasCreatedAt /\ r.day < day - Keep

\* The last checkpoint of a thread has its blobs.
BlobsKept ==
    \A r \in saved : r.id = last[r.thread] =>
        \/ <<r.thread, r.id>> \in blobs
        \/ r.thread \in orphaned \cup stripped

HasWrites(t) == \E x \in writes : x[1] = t
HasBlobs(t) == \E x \in blobs : x[1] = t

SweptAt(w) ==
    /\ pc[w] \in {"blobs", "rows"} =>
          \A r \in Old(w) : r.thread \in disturbed \/ <<r.thread, r.id>> \notin writes
    /\ pc[w] = "rows" =>
          \A r \in Old(w) : r.thread \in disturbed \/ ~HasBlobs(r.thread)
    /\ pc[w] \in {"threadBlobs", "threadRows"} =>
          Target(w) \in disturbed \/ ~HasWrites(Target(w))
    /\ pc[w] = "threadRows" => Target(w) \in disturbed \/ ~HasBlobs(Target(w))

Swept == \A w \in Workers : SweptAt(w)

Inv ==
    /\ TypeOK
    /\ Cleanups
    /\ Turns
    /\ RowsKept
    /\ BlobsKept
    /\ YoungThreadIsWhole
    /\ TurnsFollow
    /\ Swept
    /\ LeftoverNeedsTurn
    /\ NoneOldLeft

-----------------------------------------------------------------------------

\* A set of numbers with a bound has a maximum.
LEMMA MaxOf ==
    ASSUME NEW n \in Nat, NEW S, S \subseteq 0..n, S # {}
    PROVE  Max(S) \in S /\ \A i \in S : i <= Max(S)
<1> DEFINE T == {n - i : i \in S}
           R == OpToRel(<, Nat)
<1>1. T \subseteq Nat
    OBVIOUS
<1>2. T # {}
    OBVIOUS
<1>3. IsWellFoundedOn(R, Nat)
    BY NatLessThanWellFounded
<1>4. \A k, j \in Nat : k < j => <<k, j>> \in R
    BY DEF OpToRel
<1>5. PICK m \in T : \A k \in T : <<k, m>> \notin R
  <2> HIDE DEF T, R
  <2> QED BY <1>1, <1>2, <1>3, WFMin
<1>6. \A k \in T : ~(k < m)
  <2> HIDE DEF T, R
  <2> QED BY <1>1, <1>4, <1>5
<1>7. PICK x \in S : m = n - x
    BY <1>5
<1>8. ASSUME NEW i \in S PROVE x >= i
  <2>1. ~(n - i < n - x)
      BY <1>6, <1>7
  <2> QED BY <2>1
<1> QED BY <1>8 DEF Max

\* The newest checkpoint of a thread is one of its checkpoints.
LEMMA NewestOf ==
    ASSUME TypeOK, Turns, NEW t \in Threads
    PROVE  /\ Newest(t) \in Nat
           /\ RowsOf(t) # {} => \E r \in RowsOf(t) : r.id = Newest(t)
           /\ \A r \in RowsOf(t) : r.id <= Newest(t)
<1> DEFINE S == {r.id : r \in RowsOf(t)}
<1>1. last[t] \in Nat /\ S \subseteq 0..last[t]
    BY DEF TypeOK, Turns, RowsOf
<1>2. CASE RowsOf(t) = {}
    BY <1>2 DEF Newest
<1>3. CASE RowsOf(t) # {}
  <2>1. S # {}
      BY <1>3
  <2>2. Newest(t) \in S /\ \A i \in S : i <= Newest(t)
    <3> HIDE DEF S
    <3>1. Max(S) \in S /\ \A i \in S : i <= Max(S)
        BY <1>1, <2>1, MaxOf
    <3>2. Newest(t) = Max(S)
        BY <1>3 DEF Newest, S
    <3> QED BY <3>1, <3>2
  <2> QED BY <1>1, <2>2
<1> QED BY <1>2, <1>3

\* The thread that is deleted next is one of those to be deleted.
LEMMA TargetIsDoomed ==
    ASSUME NEW w, doomed[w] # {}
    PROVE  Target(w) \in doomed[w]
BY DEF Target

-----------------------------------------------------------------------------

LEMMA InitInv ==
    ASSUME Init
    PROVE  Inv
<1>1. TypeOK
  <2>1. listed \subseteq Threads
      BY DEF Init
  <2>2. turn \in [Threads -> [worker : Workers \cup {"none"}, base : Nat, messages : Nat,
                            at : {"idle", "loaded", "ran"}]]
      BY DEF Init, Idle
  <2>3. hasCreatedAt \in BOOLEAN /\ hasConversations \in BOOLEAN /\ divided \in BOOLEAN
      BY DEF Init
  <2>4. cleaned \in Int /\ day \in Nat /\ begun \in Nat /\ cutoff \in [Workers -> Int]
        /\ last \in [Threads -> Nat] /\ memory \in [Workers -> [Threads -> Nat]]
      BY DEF Init
  <2>5. rows = {} /\ blobs = {} /\ writes = {} /\ saved = {} /\ orphaned = {} /\ disturbed = {}
        /\ stripped = {}
      BY DEF Init
  <2>6. /\ stage \in [Workers -> {"down", "clean", "serving"}]
        /\ saver \in [Workers -> {"none", "tables", "memory"}]
        /\ doomed \in [Workers -> SUBSET Threads]
        /\ pc \in [Workers -> {"idle"} \cup ByDay \cup {"exists", "find"} \cup ByThread]
      BY DEF Init
  <2> QED BY <2>1, <2>2, <2>3, <2>4, <2>5, <2>6 DEF TypeOK, ByDay, ByThread
<1>2. Cleanups /\ Turns /\ RowsKept /\ BlobsKept /\ YoungThreadIsWhole /\ TurnsFollow
    BY CleanupConstants DEF Init, Cleanups, ByDay, ByThread, Turns, RowsKept,
       BlobsKept, YoungThreadIsWhole, TurnsFollow, Idle
<1>3. Swept /\ LeftoverNeedsTurn /\ NoneOldLeft
    BY DEF Init, Swept, SweptAt, LeftoverNeedsTurn, NoneOldLeft
<1> QED BY <1>1, <1>2, <1>3 DEF Inv

\* A step of a worker, and one of a turn.
CleanupStep(w) ==
    \/ RequestCleanup(w) \/ FailStatement(w) \/ Count(w) \/ CountRefused(w)
    \/ DeleteWrites(w) \/ DeleteBlobs(w) \/ DeleteCheckpoints(w)
    \/ RequestOrphanCleanup(w) \/ LookForConversations(w) \/ FindOrphans(w)
    \/ DeleteThreadWrites(w) \/ DeleteThreadBlobs(w) \/ DeleteThreadCheckpoints(w)

\* A cleanup that returns, and one that goes on, leave typed what belongs to it.
LocalsTyped ==
    /\ stage \in [Workers -> {"down", "clean", "serving"}]
    /\ saver \in [Workers -> {"none", "tables", "memory"}]
    /\ memory \in [Workers -> [Threads -> Nat]]
    /\ pc \in [Workers -> {"idle"} \cup ByDay \cup {"exists", "find"} \cup ByThread]
    /\ cutoff \in [Workers -> Int]
    /\ doomed \in [Workers -> SUBSET Threads]
    /\ begun \in Nat

LEMMA ReturnTyping ==
    ASSUME TypeOK, NEW w \in Workers,
           \/ Return(w)
           \/ \E place \in ByDay \cup {"exists", "find"} \cup ByThread : Continue(w, place)
    PROVE  LocalsTyped'
<1>1. CASE Return(w)
    BY <1>1 DEF Return, EndCleanup, Goto, TypeOK, LocalsTyped, ByDay, ByThread
<1>2. CASE \E place \in ByDay \cup {"exists", "find"} \cup ByThread : Continue(w, place)
    BY <1>2 DEF Continue, Goto, process, TypeOK, LocalsTyped, ByDay, ByThread
<1> QED BY <1>1, <1>2

LEMMA StepTyping ==
    ASSUME TypeOK, Turns, Next
    PROVE  TypeOK'
<1> USE DEF TypeOK
<1>1. CASE Tick
    BY <1>1 DEF Tick, schema, tables, process, cleanup, history
<1>2. ASSUME NEW w \in Workers, Start(w) PROVE TypeOK'
    BY <1>2, CleanupConstants DEF Start, Enter, Checkpointers, BeginCleanup, Goto, schema, tables,
       history
<1>3. ASSUME NEW w \in Workers, Stop(w) PROVE TypeOK'
    BY <1>3 DEF Stop, Enter, EndCleanup, Goto, Idle, schema, tables, history
<1>4. ASSUME NEW w \in Workers, CleanupStep(w) PROVE TypeOK'
  <2>1. CASE RequestCleanup(w)
      BY <2>1, CleanupConstants DEF RequestCleanup, BeginCleanup, Goto, schema, tables, process,
         history
  <2>2. CASE FailStatement(w) \/ CountRefused(w)
    <3>1. LocalsTyped'
        BY <2>2, ReturnTyping DEF FailStatement, CountRefused
    <3> QED BY <2>2, <3>1 DEF FailStatement, CountRefused, LocalsTyped, ByDay, ByThread, schema,
               tables, history
  <2>3. CASE Count(w)
    <3>1. LocalsTyped'
        BY <2>3, ReturnTyping DEF Count, Succeed, ByDay
    <3>2. cleaned' \in Int
        BY <2>3 DEF Count, Succeed
    <3> QED BY <2>3, <3>1, <3>2 DEF Count, LocalsTyped, ByDay, ByThread, schema, tables
  <2>4. CASE DeleteWrites(w) \/ DeleteBlobs(w)
    <3>1. CASE DeleteWrites(w)
        BY <3>1 DEF DeleteWrites, Continue, Goto, schema, process, history
    <3>2. CASE DeleteBlobs(w)
      <4>1. \A r \in Old(w) : r.thread \in Threads
          BY DEF Old
      <4>2. stripped' \subseteq Threads /\ blobs' \subseteq blobs
          BY <3>2, <4>1 DEF DeleteBlobs
      <4> QED BY <3>2, <4>2 DEF DeleteBlobs, Continue, Goto, schema, process
    <3> QED BY <2>4, <3>1, <3>2
  <2>5. CASE DeleteCheckpoints(w)
    <3>1. LocalsTyped' /\ cleaned' \in Int
        BY <2>5, ReturnTyping DEF DeleteCheckpoints, Succeed
    <3> QED BY <2>5, <3>1 DEF DeleteCheckpoints, LocalsTyped, ByDay, ByThread, schema
  <2>6. CASE RequestOrphanCleanup(w)
      BY <2>6 DEF RequestOrphanCleanup, Goto, schema, tables, process, history
  <2>7. CASE LookForConversations(w)
    <3>1. LocalsTyped'
        BY <2>7, ReturnTyping DEF LookForConversations
    <3> QED BY <2>7, <3>1 DEF LookForConversations, LocalsTyped, ByDay, ByThread, schema, tables,
               history
  <2>8. CASE FindOrphans(w)
    <3>1. {r.thread : r \in rows} \ listed \subseteq Threads
        OBVIOUS
    <3>2. LocalsTyped' /\ orphaned' \subseteq Threads
      <4>1. CASE {r.thread : r \in rows} \ listed = {}
          BY <2>8, <4>1, ReturnTyping DEF FindOrphans
      <4>2. CASE {r.thread : r \in rows} \ listed # {}
        <5>1. PICK found \in SUBSET Threads : found = {r.thread : r \in rows} \ listed
            BY <3>1
        <5>2. /\ pc' = [pc EXCEPT ![w] = "threadWrites"] /\ doomed' = [doomed EXCEPT ![w] = found]
              /\ orphaned' = orphaned \cup found
              /\ UNCHANGED <<stage, saver, memory, cutoff, begun>>
            BY <2>8, <4>2, <5>1 DEF FindOrphans, Goto, process
        <5> QED BY <5>2 DEF LocalsTyped, ByDay, ByThread
      <4> QED BY <4>1, <4>2
    <3> QED BY <2>8, <3>2 DEF FindOrphans, LocalsTyped, ByDay, ByThread, schema, tables
  <2>9. CASE DeleteThreadWrites(w) \/ DeleteThreadBlobs(w)
      BY <2>9 DEF DeleteThreadWrites, DeleteThreadBlobs, Continue, Goto, schema, process, history
  <2>10. CASE DeleteThreadCheckpoints(w)
    <3>1. LocalsTyped'
      <4>1. CASE doomed[w] = {Target(w)}
          BY <2>10, <4>1, ReturnTyping DEF DeleteThreadCheckpoints
      <4>2. CASE doomed[w] # {Target(w)}
        <5>1. /\ pc' = [pc EXCEPT ![w] = "threadWrites"]
              /\ doomed' = [doomed EXCEPT ![w] = @ \ {Target(w)}]
              /\ UNCHANGED <<stage, saver, memory, cutoff, begun>>
            BY <2>10, <4>2 DEF DeleteThreadCheckpoints, Goto, process
        <5> QED BY <5>1 DEF LocalsTyped, ByDay, ByThread
      <4> QED BY <4>1, <4>2
    <3> QED BY <2>10, <3>1 DEF DeleteThreadCheckpoints, LocalsTyped, ByDay, ByThread, schema,
               history
  <2> QED BY <1>4, <2>1, <2>2, <2>3, <2>4, <2>5, <2>6, <2>7, <2>8, <2>9, <2>10 DEF CleanupStep
<1>5. ASSUME NEW t \in Threads, NEW w \in Workers, Load(t, w) PROVE TypeOK'
  <2>1. Newest(t) \in Nat /\ Messages(t) \in Nat /\ memory[w][t] \in Nat
      BY NewestOf DEF Messages
  <2>2. turn' \in [Threads -> [worker : Workers \cup {"none"}, base : Nat, messages : Nat,
                              at : {"idle", "loaded", "ran"}]]
    <3>1. CASE saver[w] = "tables"
        BY <1>5, <2>1, <3>1 DEF Load
    <3>2. CASE saver[w] # "tables"
        BY <1>5, <2>1, <3>2 DEF Load
    <3> QED BY <3>1, <3>2
  <2>3. divided' \in BOOLEAN
      BY <1>5 DEF Load
  <2> QED BY <1>5, <2>2, <2>3 DEF Load, schema, tables, process, cleanup
<1>6. ASSUME NEW t \in Threads, PutWrites(t) PROVE TypeOK'
  <2>1. turn' = [turn EXCEPT ![t].at = "ran"]
      BY <1>6 DEF PutWrites
  <2>2. turn' \in [Threads -> [worker : Workers \cup {"none"}, base : Nat, messages : Nat,
                              at : {"idle", "loaded", "ran"}]]
      BY <2>1
  <2>3. writes' \subseteq Threads \X (Nat \ {0}) /\ disturbed' \subseteq Threads
      BY <1>6 DEF PutWrites
  <2> QED BY <1>6, <2>2, <2>3 DEF PutWrites, schema, process, cleanup
<1>7. ASSUME NEW t \in Threads, PutCheckpoint(t) PROVE TypeOK'
  <2> DEFINE next == last[t] + 1
             row == [thread |-> t, id |-> next, day |-> day]
             w == turn[t].worker
  <2>1. next \in Nat \ {0} /\ row \in [thread : Threads, id : Nat \ {0}, day : Nat]
      OBVIOUS
  <2>2. turn' \in [Threads -> [worker : Workers \cup {"none"}, base : Nat, messages : Nat,
                             at : {"idle", "loaded", "ran"}]]
      BY <1>7 DEF PutCheckpoint, Idle
  <2>3. last' \in [Threads -> Nat]
      BY <1>7, <2>1 DEF PutCheckpoint
  <2>4. rows' \subseteq rows \cup {row} /\ saved' \subseteq saved \cup {row}
        /\ blobs' \subseteq blobs \cup {<<t, next>>} /\ disturbed' \subseteq disturbed \cup {t}
      BY <1>7 DEF PutCheckpoint
  <2>5. memory' \in [Workers -> [Threads -> Nat]]
    <3>1. w \in Workers
        BY <1>7 DEF PutCheckpoint, Turns
    <3>2. memory' = memory \/ memory' = [memory EXCEPT ![w] = [@ EXCEPT ![t] = next]]
        BY <1>7 DEF PutCheckpoint
    <3>3. memory \in [Workers -> [Threads -> Nat]]
        OBVIOUS
    <3>4. memory[w] \in [Threads -> Nat]
        BY <3>1, <3>3
    <3>5. [memory[w] EXCEPT ![t] = next] \in [Threads -> Nat]
        BY <2>1, <3>4
    <3> HIDE DEF w, next, TypeOK
    <3> QED BY <3>1, <3>2, <3>3, <3>5
  <2> QED BY <1>7, <2>1, <2>2, <2>3, <2>4, <2>5 DEF PutCheckpoint, schema, cleanup
<1>8. ASSUME NEW t \in Threads, FailTurn(t) PROVE TypeOK'
    BY <1>8 DEF FailTurn, Idle, schema, tables, process, cleanup, history
<1> QED BY <1>1, <1>2, <1>3, <1>4, <1>5, <1>6, <1>7, <1>8 DEF Next, CleanupStep

-----------------------------------------------------------------------------
(* What a cleanup knows, and how turns are numbered *)

\* A cleanup that ends, or goes on, changes nothing of the others.
LEMMA StepCleanups ==
    ASSUME TypeOK, Cleanups, Next, TypeOK'
    PROVE  Cleanups'
<1> USE DEF Cleanups, ByDay, ByThread
<1>0. day \in Int /\ cleaned \in Int /\ Keep \in Nat \ {0} /\ day' \in Int
      /\ \A w \in Workers : cutoff[w] \in Int
    BY CleanupConstants DEF TypeOK
<1>1. CASE Tick
    BY <1>0, <1>1 DEF Tick, schema, cleanup, history
<1>2. ASSUME NEW w \in Workers, Start(w) \/ RequestCleanup(w) PROVE Cleanups'
  <2>1. /\ pc' = [pc EXCEPT ![w] = "count"] /\ cutoff' = [cutoff EXCEPT ![w] = day - Keep]
        /\ UNCHANGED <<doomed, day, hasCreatedAt, orphaned, cleaned>>
      BY <1>2 DEF Start, RequestCleanup, BeginCleanup, Goto, schema, history
  <2> QED BY <1>0, <2>1 DEF TypeOK
<1>3. ASSUME NEW w \in Workers, EndCleanup(w), UNCHANGED <<hasCreatedAt, day, orphaned>>,
             cleaned' = cleaned \/ (pc[w] \in ByDay /\ cleaned' = cutoff[w])
      PROVE  Cleanups'
    BY <1>0, <1>3 DEF EndCleanup, Goto, TypeOK
<1>4. ASSUME NEW w \in Workers, NEW place, Continue(w, place),
             UNCHANGED <<hasCreatedAt, day, orphaned, cleaned>>,
             place \in ByDay => pc[w] \in ByDay /\ hasCreatedAt,
             place \in ByThread => pc[w] \in ByThread
      PROVE  Cleanups'
    BY <1>4 DEF Continue, Goto, TypeOK
<1>5. ASSUME NEW w \in Workers, CleanupStep(w) PROVE Cleanups'
  <2>1. CASE RequestCleanup(w)
      BY <1>2, <2>1
  <2>2. CASE FailStatement(w) \/ CountRefused(w)
      BY <1>3, <2>2 DEF FailStatement, CountRefused, Return, schema, history
  <2>3. CASE Count(w)
    <3>1. CASE Old(w) = {}
        BY <1>3, <2>3, <3>1 DEF Count, Succeed, Return, schema
    <3>2. CASE Old(w) # {}
        BY <1>4, <2>3, <3>2 DEF Count, schema
    <3> QED BY <3>1, <3>2
  <2>4. CASE DeleteWrites(w) \/ DeleteBlobs(w)
      BY <1>4, <2>4 DEF DeleteWrites, DeleteBlobs, schema, history
  <2>5. CASE DeleteCheckpoints(w)
      BY <1>3, <2>5 DEF DeleteCheckpoints, Succeed, Return, schema
  <2>6. CASE RequestOrphanCleanup(w)
      BY <2>6 DEF RequestOrphanCleanup, Goto, schema, history, TypeOK
  <2>7. CASE LookForConversations(w)
      BY <1>3, <1>4, <2>7 DEF LookForConversations, Return, schema, history
  <2>8. CASE FindOrphans(w)
    <3>1. CASE {r.thread : r \in rows} \ listed = {}
        BY <1>3, <2>8, <3>1 DEF FindOrphans, Return, schema
    <3>2. CASE {r.thread : r \in rows} \ listed # {}
      <4>1. PICK found : found = {r.thread : r \in rows} \ listed /\ found # {}
          BY <3>2
      <4>2. /\ pc' = [pc EXCEPT ![w] = "threadWrites"] /\ doomed' = [doomed EXCEPT ![w] = found]
            /\ orphaned' = orphaned \cup found
            /\ UNCHANGED <<cutoff, day, hasCreatedAt, cleaned>>
          BY <2>8, <4>1 DEF FindOrphans, Goto, schema
      <4> QED BY <4>1, <4>2 DEF TypeOK
    <3> QED BY <3>1, <3>2
  <2>9. CASE DeleteThreadWrites(w) \/ DeleteThreadBlobs(w)
      BY <1>4, <2>9 DEF DeleteThreadWrites, DeleteThreadBlobs, schema, history
  <2>10. CASE DeleteThreadCheckpoints(w)
    <3>1. CASE doomed[w] = {Target(w)}
        BY <1>3, <2>10, <3>1 DEF DeleteThreadCheckpoints, Return, schema, history
    <3>2. CASE doomed[w] # {Target(w)}
      <4>1. Target(w) \in doomed[w]
          BY <2>10, TargetIsDoomed DEF DeleteThreadCheckpoints
      <4>2. doomed' = [doomed EXCEPT ![w] = @ \ {Target(w)}]
            /\ doomed[w] \ {Target(w)} # {}
          BY <2>10, <3>2, <4>1 DEF DeleteThreadCheckpoints
      <4>3. /\ pc' = [pc EXCEPT ![w] = "threadWrites"]
            /\ UNCHANGED <<cutoff, hasCreatedAt, day, orphaned, cleaned>>
          BY <2>10, <3>2 DEF DeleteThreadCheckpoints, Goto, schema, history
      <4> HIDE DEF Target
      <4> QED BY <4>2, <4>3 DEF TypeOK
    <3> QED BY <3>1, <3>2
  <2> QED BY <1>5, <2>1, <2>2, <2>3, <2>4, <2>5, <2>6, <2>7, <2>8, <2>9, <2>10 DEF CleanupStep
<1>6. ASSUME NEW w \in Workers, Stop(w) PROVE Cleanups'
    BY <1>3, <1>6 DEF Stop, schema, history
<1>7. ASSUME NEW t \in Threads, (\E w \in Workers : Load(t, w)) \/ PutWrites(t) \/ PutCheckpoint(t)
                                \/ FailTurn(t)
      PROVE  Cleanups'
    BY <1>7 DEF Load, PutWrites, PutCheckpoint, FailTurn, schema, cleanup, history
<1> QED BY <1>1, <1>2, <1>5, <1>6, <1>7 DEF Next, CleanupStep

\* The cleanups take rows, and leave the turns and what was saved alone.
LEMMA CleanupLeavesTurns ==
    ASSUME NEW w \in Workers, CleanupStep(w)
    PROVE  /\ rows' \subseteq rows /\ blobs' \subseteq blobs /\ writes' \subseteq writes
           /\ UNCHANGED <<day, hasCreatedAt, saver, turn, saved, last, divided, disturbed>>
           /\ orphaned \subseteq orphaned' /\ stripped \subseteq stripped'
<1>1. UNCHANGED <<day, hasCreatedAt, turn, saved, last, divided, disturbed>>
    BY DEF CleanupStep, RequestCleanup, FailStatement, Count, CountRefused, DeleteWrites,
       DeleteBlobs, DeleteCheckpoints, RequestOrphanCleanup, LookForConversations, FindOrphans,
       DeleteThreadWrites, DeleteThreadBlobs, DeleteThreadCheckpoints, schema, history
<1>2. rows' \subseteq rows /\ blobs' \subseteq blobs /\ writes' \subseteq writes
    BY DEF CleanupStep, RequestCleanup, FailStatement, Count, CountRefused, DeleteWrites,
       DeleteBlobs, DeleteCheckpoints, RequestOrphanCleanup, LookForConversations, FindOrphans,
       DeleteThreadWrites, DeleteThreadBlobs, DeleteThreadCheckpoints, tables
<1>3. saver' = saver
    BY DEF CleanupStep, RequestCleanup, FailStatement, Count, CountRefused, DeleteWrites,
       DeleteBlobs, DeleteCheckpoints, RequestOrphanCleanup, LookForConversations, FindOrphans,
       DeleteThreadWrites, DeleteThreadBlobs, DeleteThreadCheckpoints, Succeed, Return, Continue,
       process
<1>4. orphaned \subseteq orphaned' /\ stripped \subseteq stripped'
    BY DEF CleanupStep, RequestCleanup, FailStatement, Count, CountRefused, DeleteWrites,
       DeleteBlobs, DeleteCheckpoints, RequestOrphanCleanup, LookForConversations, FindOrphans,
       DeleteThreadWrites, DeleteThreadBlobs, DeleteThreadCheckpoints, history
<1> QED BY <1>1, <1>2, <1>3, <1>4

\* A worker that serves goes on serving, and one that is down stays down.
LEMMA CleanupKeepsServing ==
    ASSUME TypeOK, NEW w \in Workers, CleanupStep(w)
    PROVE  \A v \in Workers : /\ stage[v] = "serving" => stage'[v] = "serving"
                              /\ stage'[v] # "down" => stage[v] # "down"
BY DEF CleanupStep, RequestCleanup, FailStatement, Count, CountRefused, DeleteWrites,
   DeleteBlobs, DeleteCheckpoints, RequestOrphanCleanup, LookForConversations, FindOrphans,
   DeleteThreadWrites, DeleteThreadBlobs, DeleteThreadCheckpoints, Succeed, Return, Continue,
   process, TypeOK

LEMMA StepTurns ==
    ASSUME TypeOK, Turns, Next, TypeOK'
    PROVE  Turns'
<1> DEFINE Rows == /\ rows \subseteq saved
                   /\ \A r \in saved : r.id <= last[r.thread] /\ r.day <= day
                   /\ \A r, s \in saved : r.thread = s.thread /\ r.id = s.id => r = s
           LastSaved == ~divided => \A t \in Threads : last[t] > 0 =>
                            \E r \in saved : r.thread = t /\ r.id = last[t]
           HasSaver == \A w \in Workers : stage[w] # "down" => saver[w] # "none"
           InWorker(t) == turn[t].at # "idle" =>
                              /\ turn[t].worker \in Workers
                              /\ stage[turn[t].worker] = "serving"
                              /\ ~divided => saver[turn[t].worker] = "tables"
<1>1. CASE Tick
  <2>1. day' = day + 1 /\ UNCHANGED <<rows, saved, last, divided, turn, stage, saver>>
      BY <1>1 DEF Tick, tables, process, history
  <2>2. \A r \in saved : r.day <= day'
      BY <2>1 DEF Turns, TypeOK
  <2> QED BY <2>1, <2>2 DEF Turns
<1>2. ASSUME NEW w \in Workers, Start(w) \/ Stop(w) PROVE Turns'
  <2>1. UNCHANGED <<day, rows, saved, last, divided>>
      BY <1>2 DEF Start, Stop, tables, history
  <2>2. ASSUME NEW t \in Threads PROVE InWorker(t)'
    <3>1. CASE Start(w)
        BY <3>1 DEF Start, Enter, history, Turns, TypeOK
    <3>2. CASE Stop(w)
      <4>1. turn'[t] = IF turn[t].worker = w THEN Idle ELSE turn[t]
          BY <3>2 DEF Stop
      <4>2. /\ stage' = [stage EXCEPT ![w] = "down"] /\ saver' = [saver EXCEPT ![w] = "none"]
            /\ divided' = divided
          BY <3>2 DEF Stop, Enter, history
      <4> QED BY <4>1, <4>2 DEF Turns, TypeOK, Idle
    <3> QED BY <1>2, <3>1, <3>2
  <2>3. HasSaver'
    <3>0. /\ stage \in [Workers -> {"down", "clean", "serving"}]
          /\ saver \in [Workers -> {"none", "tables", "memory"}] /\ HasSaver
        BY DEF Turns, TypeOK
    <3>1. CASE Start(w)
      <4>1. PICK c \in Checkpointers : /\ saver' = [saver EXCEPT ![w] = c]
                                       /\ stage' = [stage EXCEPT ![w] = "clean"]
          BY <3>1 DEF Start, Enter
      <4>2. c # "none"
          BY <4>1 DEF Checkpointers
      <4> QED BY <3>0, <4>1, <4>2
    <3>2. CASE Stop(w)
      <4>1. stage' = [stage EXCEPT ![w] = "down"] /\ saver' = [saver EXCEPT ![w] = "none"]
          BY <3>2 DEF Stop, Enter
      <4> QED BY <3>0, <4>1
    <3> QED BY <1>2, <3>1, <3>2
  <2> QED BY <2>1, <2>2, <2>3 DEF Turns
<1>3. ASSUME NEW w \in Workers, CleanupStep(w) PROVE Turns'
  <2>1. /\ rows' \subseteq rows
        /\ UNCHANGED <<day, saver, turn, saved, last, divided>>
      BY <1>3, CleanupLeavesTurns
  <2>2. \A v \in Workers : /\ stage[v] = "serving" => stage'[v] = "serving"
                           /\ stage'[v] # "down" => stage[v] # "down"
      BY <1>3, CleanupKeepsServing
  <2>3. Rows' /\ LastSaved'
      BY <2>1 DEF Turns
  <2>4. HasSaver'
      BY <2>1, <2>2 DEF Turns
  <2>5. ASSUME NEW t \in Threads PROVE InWorker(t)'
    <3>1. InWorker(t)
        BY DEF Turns
    <3>2. turn' = turn /\ saver' = saver /\ divided' = divided
        BY <2>1
    <3> QED BY <2>2, <3>1, <3>2
  <2> QED BY <2>3, <2>4, <2>5 DEF Turns
<1>4. ASSUME NEW t \in Threads, NEW w \in Workers, Load(t, w) PROVE Turns'
  <2>1. UNCHANGED <<day, rows, saved, last, stage, saver>>
      BY <1>4 DEF Load, tables, process
  <2>2. divided' = (divided \/ saver[w] = "memory")
      BY <1>4 DEF Load
  <2>4. Rows'
      BY <2>1 DEF Turns
  <2>5. LastSaved'
      BY <2>1, <2>2 DEF Turns
  <2>3. ASSUME NEW u \in Threads PROVE InWorker(u)'
    <3>1. CASE u = t
      <4>1. turn'[t].worker = w /\ stage[w] = "serving"
          BY <1>4 DEF Load, TypeOK
      <4>2. ~divided' => saver[w] = "tables"
        <5>1. saver[w] \in {"none", "tables", "memory"}
            BY DEF TypeOK
        <5>2. saver[w] # "none"
            BY <1>4 DEF Load, Turns
        <5> QED BY <2>2, <5>1, <5>2
      <4> QED BY <2>1, <3>1, <4>1, <4>2
    <3>2. CASE u # t
      <4>1. turn'[u] = turn[u]
          BY <1>4, <3>2 DEF Load, TypeOK
      <4> QED BY <2>1, <2>2, <4>1 DEF Turns
    <3> QED BY <3>1, <3>2
  <2>6. HasSaver'
      BY <2>1 DEF Turns
  <2> QED BY <2>3, <2>4, <2>5, <2>6 DEF Turns
<1>5. ASSUME NEW t \in Threads, PutWrites(t) \/ FailTurn(t) PROVE Turns'
  <2>1. UNCHANGED <<day, rows, saved, last, divided, stage, saver>>
      BY <1>5 DEF PutWrites, FailTurn, tables, process, history
  <2>2. ASSUME NEW u \in Threads PROVE InWorker(u)'
    <3>1. turn'[u].at # "idle" => turn[u].at # "idle" /\ turn'[u].worker = turn[u].worker
      <4>1. CASE PutWrites(t)
          BY <4>1 DEF PutWrites, TypeOK
      <4>2. CASE FailTurn(t)
          BY <4>2 DEF FailTurn, Idle, TypeOK
      <4> QED BY <1>5, <4>1, <4>2
    <3> QED BY <2>1, <3>1 DEF Turns
  <2> QED BY <2>1, <2>2 DEF Turns
<1>6. ASSUME NEW t \in Threads, PutCheckpoint(t) PROVE Turns'
  <2> DEFINE next == last[t] + 1
             row == [thread |-> t, id |-> next, day |-> day]
             w == turn[t].worker
  <2>1. /\ last' = [last EXCEPT ![t] = next] /\ turn' = [turn EXCEPT ![t] = Idle]
        /\ UNCHANGED <<day, divided, stage, saver>>
      BY <1>6 DEF PutCheckpoint
  <2>2. last \in [Threads -> Nat] /\ next \in Nat /\ next > last[t] /\ day \in Nat
      BY DEF TypeOK
  <2>3. \/ rows' = rows \cup {row} /\ saved' = saved \cup {row}
        \/ rows' = rows /\ saved' = saved /\ saver[w] # "tables"
      BY <1>6 DEF PutCheckpoint
  <2>4. \A r \in saved : r.thread \in Threads /\ r.id \in Nat /\ r.day <= day
                        /\ r.id <= last[r.thread]
      BY DEF TypeOK, Turns
  <2>5. \A r \in saved : r.id <= last'[r.thread] /\ (r.thread = t => r.id < next)
      BY <2>1, <2>2, <2>4
  <2>6. row.thread = t /\ row.id = next /\ row.day = day /\ last'[t] = next
      BY <2>1, <2>2
  <2>7. Rows'
    <3> HIDE DEF row, next
    <3>1. rows' \subseteq saved'
        BY <2>3 DEF Turns
    <3>2. \A r \in saved' : r.id <= last'[r.thread] /\ r.day <= day
        BY <2>2, <2>3, <2>4, <2>5, <2>6
    <3>3. \A r, s \in saved' : r.thread = s.thread /\ r.id = s.id => r = s
      <4>1. \A r \in saved : ~(r.thread = row.thread /\ r.id = row.id)
          BY <2>2, <2>4, <2>5, <2>6
      <4> QED BY <2>3, <4>1 DEF Turns
    <3> QED BY <2>1, <3>1, <3>2, <3>3
  <2>8. LastSaved'
    <3> SUFFICES ASSUME ~divided, NEW u \in Threads, last'[u] > 0
                 PROVE  \E r \in saved' : r.thread = u /\ r.id = last'[u]
        BY <2>1
    <3>1. saver[w] = "tables"
        BY <1>6 DEF PutCheckpoint, Turns
    <3>2. saved' = saved \cup {row}
        BY <2>3, <3>1
    <3>3. CASE u = t
        BY <2>6, <3>2, <3>3
    <3>4. CASE u # t
        BY <2>1, <2>2, <3>2, <3>4 DEF Turns
    <3> QED BY <3>3, <3>4
  <2>9. ASSUME NEW u \in Threads PROVE InWorker(u)'
      BY <2>1 DEF Turns, Idle, TypeOK
  <2>10. HasSaver'
      BY <2>1 DEF Turns
  <2> QED BY <2>7, <2>8, <2>9, <2>10 DEF Turns
<1> QED BY <1>1, <1>2, <1>3, <1>4, <1>5, <1>6 DEF Next, CleanupStep

-----------------------------------------------------------------------------
(* What may be gone *)

\* A step after which only rows are gone that were old, or of an orphan, and only blobs
\* of threads with such rows.
TakesOldOnly ==
    /\ UNCHANGED <<hasCreatedAt, day, saved>>
    /\ orphaned \subseteq orphaned'
    /\ \A r \in rows :
          \/ r \in rows'
          \/ r.thread \in orphaned
          \/ hasCreatedAt /\ r.day < day - Keep
    /\ \A r \in saved :
          \/ r.thread \in orphaned
          \/ hasCreatedAt /\ \E s \in SavedOf(r.thread) : s.day < day - Keep
          \/ <<r.thread, r.id>> \in blobs => <<r.thread, r.id>> \in blobs'

LEMMA OldOnlyIsGone ==
    ASSUME RowsKept, YoungThreadIsWhole, TakesOldOnly
    PROVE  RowsKept' /\ YoungThreadIsWhole'
<1>1. RowsKept'
  <2>1. ASSUME NEW r \in saved
        PROVE  r \in rows' \/ r.thread \in orphaned' \/ (hasCreatedAt /\ r.day < day - Keep)
      BY DEF RowsKept, TakesOldOnly
  <2> QED BY <2>1 DEF RowsKept, TakesOldOnly
<1>2. ASSUME NEW r \in saved, r.thread \notin orphaned',
             ~(hasCreatedAt /\ \E s \in SavedOf(r.thread) : s.day < day - Keep)
      PROVE  r \in rows' /\ <<r.thread, r.id>> \in blobs'
  <2>1. r \in rows /\ <<r.thread, r.id>> \in blobs
      BY <1>2 DEF YoungThreadIsWhole, TakesOldOnly
  <2>2. ~(hasCreatedAt /\ r.day < day - Keep)
      BY <1>2 DEF SavedOf
  <2> QED BY <1>2, <2>1, <2>2 DEF TakesOldOnly
<1>3. YoungThreadIsWhole'
    BY <1>2 DEF YoungThreadIsWhole, SavedOf, TakesOldOnly
<1> QED BY <1>1, <1>3

LEMMA StepKept ==
    ASSUME TypeOK, Cleanups, Turns, RowsKept, YoungThreadIsWhole, Next
    PROVE  RowsKept' /\ YoungThreadIsWhole'
<1>0. /\ day \in Int /\ Keep \in Int
      /\ \A w \in Workers : cutoff[w] \in Int
      /\ \A r \in saved : r.day \in Int
    BY CleanupConstants DEF TypeOK
<1>1. CASE Tick
  <2>1. day' = day + 1
        /\ UNCHANGED <<hasCreatedAt, rows, blobs, saved, orphaned>>
      BY <1>1 DEF Tick, schema, tables, history
  <2>2. ASSUME NEW s \in saved, s.day < day - Keep PROVE s.day < day' - Keep
    <3>1. s.day \in Int
        BY <1>0
    <3>2. day' = day + 1
        BY <2>1
    <3> QED BY <1>0, <2>2, <3>1, <3>2
  <2> QED BY <2>1, <2>2 DEF RowsKept, YoungThreadIsWhole, SavedOf
<1>2. ASSUME UNCHANGED <<hasCreatedAt, day, saved, rows, blobs>>, orphaned \subseteq orphaned'
      PROVE  RowsKept' /\ YoungThreadIsWhole'
  <2>1. TakesOldOnly
      BY <1>2 DEF TakesOldOnly
  <2> QED BY <2>1, OldOnlyIsGone
<1>3. ASSUME NEW w \in Workers, Start(w) \/ Stop(w) PROVE RowsKept' /\ YoungThreadIsWhole'
  <2>1. UNCHANGED <<hasCreatedAt, day, saved, rows, blobs, orphaned>>
      BY <1>3 DEF Start, Stop, schema, tables, history
  <2> QED BY <1>2, <2>1
<1>4. ASSUME NEW w \in Workers, CleanupStep(w) PROVE RowsKept' /\ YoungThreadIsWhole'
  <2>0. UNCHANGED <<hasCreatedAt, day, saved>> /\ orphaned \subseteq orphaned'
      BY <1>4, CleanupLeavesTurns
  <2>1. ASSUME UNCHANGED <<rows, blobs>> PROVE RowsKept' /\ YoungThreadIsWhole'
      BY <1>2, <2>0, <2>1
  <2>2. ASSUME pc[w] \in {"blobs", "rows"}, NEW r \in Old(w)
        PROVE  r \in saved /\ hasCreatedAt /\ r.day < day - Keep
    <3>1. r \in rows /\ r.day < cutoff[w] /\ cutoff[w] <= day - Keep /\ hasCreatedAt
        BY <2>2 DEF Old, Cleanups, ByDay
    <3>2. r \in saved
        BY <3>1 DEF Turns
    <3> QED BY <1>0, <3>1, <3>2
  <2>3. CASE DeleteBlobs(w)
    <3>1. rows' = rows /\ blobs' = {b \in blobs : \A r \in Old(w) : r.thread # b[1]}
        BY <2>3 DEF DeleteBlobs
    <3>2. ASSUME NEW r \in saved, <<r.thread, r.id>> \in blobs, <<r.thread, r.id>> \notin blobs'
          PROVE  hasCreatedAt /\ \E s \in SavedOf(r.thread) : s.day < day - Keep
        BY <2>2, <2>3, <3>1, <3>2 DEF DeleteBlobs, SavedOf
    <3>3. \A r \in rows : r \in rows'
        BY <3>1
    <3>4. TakesOldOnly
      <4> HIDE DEF SavedOf
      <4> QED BY <2>0, <3>2, <3>3 DEF TakesOldOnly
    <3> QED BY <3>4, OldOnlyIsGone
  <2>4. CASE DeleteCheckpoints(w)
    <3>1. rows' = rows \ Old(w) /\ blobs' = blobs
        BY <2>4 DEF DeleteCheckpoints
    <3>2. \A r \in rows : r \in rows' \/ (hasCreatedAt /\ r.day < day - Keep)
        BY <2>2, <2>4, <3>1 DEF DeleteCheckpoints
    <3>3. \A r \in saved : <<r.thread, r.id>> \in blobs => <<r.thread, r.id>> \in blobs'
        BY <3>1
    <3>4. TakesOldOnly
        BY <2>0, <3>2, <3>3 DEF TakesOldOnly
    <3> QED BY <3>4, OldOnlyIsGone
  <2>5. CASE DeleteThreadBlobs(w) \/ DeleteThreadCheckpoints(w)
    <3>1. Target(w) \in orphaned
        BY <2>5, TargetIsDoomed DEF DeleteThreadBlobs, DeleteThreadCheckpoints, Cleanups, ByThread
    <3>2. /\ \A r \in rows : r \in rows' \/ r.thread = Target(w)
          /\ \A b \in blobs : b \in blobs' \/ b[1] = Target(w)
        BY <2>5 DEF DeleteThreadBlobs, DeleteThreadCheckpoints
    <3>3. \A r \in saved : r.thread \in orphaned \/ <<r.thread, r.id>> \notin blobs
                            \/ <<r.thread, r.id>> \in blobs'
        BY <3>1, <3>2
    <3>4. TakesOldOnly
        BY <2>0, <3>1, <3>2, <3>3 DEF TakesOldOnly
    <3> QED BY <3>4, OldOnlyIsGone
  <2>6. CASE RequestCleanup(w) \/ FailStatement(w) \/ Count(w) \/ CountRefused(w)
            \/ DeleteWrites(w) \/ RequestOrphanCleanup(w) \/ LookForConversations(w)
            \/ FindOrphans(w) \/ DeleteThreadWrites(w)
      BY <2>1, <2>6 DEF RequestCleanup, FailStatement, Count, CountRefused, DeleteWrites,
         RequestOrphanCleanup, LookForConversations, FindOrphans, DeleteThreadWrites, tables
  <2> QED BY <1>4, <2>3, <2>4, <2>5, <2>6 DEF CleanupStep
<1>5. ASSUME NEW t \in Threads, (\E w \in Workers : Load(t, w)) \/ PutWrites(t) \/ FailTurn(t)
      PROVE  RowsKept' /\ YoungThreadIsWhole'
  <2>1. UNCHANGED <<hasCreatedAt, day, saved, rows, blobs, orphaned>>
      BY <1>5 DEF Load, PutWrites, FailTurn, schema, tables, history
  <2> QED BY <1>2, <2>1
<1>6. ASSUME NEW t \in Threads, PutCheckpoint(t) PROVE RowsKept' /\ YoungThreadIsWhole'
  <2> DEFINE row == [thread |-> t, id |-> last[t] + 1, day |-> day]
  <2>1. UNCHANGED <<hasCreatedAt, day, orphaned>>
      BY <1>6 DEF PutCheckpoint, schema
  <2>2. \/ /\ rows' = rows \cup {row} /\ saved' = saved \cup {row}
           /\ blobs' = blobs \cup {<<t, last[t] + 1>>}
        \/ UNCHANGED <<rows, saved, blobs>>
      BY <1>6 DEF PutCheckpoint
  <2>3. RowsKept'
      BY <2>1, <2>2 DEF RowsKept
  <2>4. row.thread = t /\ row.id = last[t] + 1
      OBVIOUS
  <2>5. YoungThreadIsWhole'
    <3> HIDE DEF row
    <3> QED BY <2>1, <2>2, <2>4 DEF YoungThreadIsWhole, SavedOf
  <2> QED BY <2>3, <2>5
<1> QED BY <1>1, <1>3, <1>4, <1>5, <1>6 DEF Next, CleanupStep

-----------------------------------------------------------------------------
(* Where a turn begins *)

LEMMA StepBlobs ==
    ASSUME TypeOK, Cleanups, Turns, BlobsKept, Next
    PROVE  BlobsKept'
<1>1. ASSUME UNCHANGED <<saved, last>>, orphaned \subseteq orphaned',
             stripped \subseteq stripped',
             \A b \in blobs \ blobs' : b[1] \in orphaned' \cup stripped'
      PROVE  BlobsKept'
    BY <1>1 DEF BlobsKept
<1>2. CASE Tick
    BY <1>1, <1>2 DEF Tick, tables, history
<1>3. ASSUME NEW w \in Workers, Start(w) \/ Stop(w) PROVE BlobsKept'
    BY <1>1, <1>3 DEF Start, Stop, tables, history
<1>4. ASSUME NEW w \in Workers, CleanupStep(w) PROVE BlobsKept'
  <2>1. /\ UNCHANGED <<saved, last>>
        /\ orphaned \subseteq orphaned' /\ stripped \subseteq stripped'
      BY <1>4, CleanupLeavesTurns
  <2>2. CASE DeleteBlobs(w)
    <3>1. \A b \in blobs \ blobs' : \E r \in Old(w) : r.thread = b[1]
        BY <2>2 DEF DeleteBlobs
    <3>2. \A r \in Old(w) : r.thread \in stripped'
        BY <2>2 DEF DeleteBlobs
    <3> QED BY <1>1, <2>1, <3>1, <3>2
  <2>3. CASE DeleteThreadBlobs(w)
    <3>1. Target(w) \in orphaned
        BY <2>3, TargetIsDoomed DEF DeleteThreadBlobs, Cleanups, ByThread
    <3>2. \A b \in blobs \ blobs' : b[1] = Target(w)
        BY <2>3 DEF DeleteThreadBlobs
    <3> QED BY <1>1, <2>1, <3>1, <3>2
  <2>4. CASE RequestCleanup(w) \/ FailStatement(w) \/ Count(w) \/ CountRefused(w)
            \/ DeleteWrites(w) \/ DeleteCheckpoints(w) \/ RequestOrphanCleanup(w)
            \/ LookForConversations(w) \/ FindOrphans(w) \/ DeleteThreadWrites(w)
            \/ DeleteThreadCheckpoints(w)
    <3>1. blobs' = blobs
        BY <2>4 DEF RequestCleanup, FailStatement, Count, CountRefused, DeleteWrites,
           DeleteCheckpoints, RequestOrphanCleanup, LookForConversations, FindOrphans,
           DeleteThreadWrites, DeleteThreadCheckpoints, tables
    <3> QED BY <1>1, <2>1, <3>1
  <2> QED BY <1>4, <2>2, <2>3, <2>4 DEF CleanupStep
<1>5. ASSUME NEW t \in Threads, (\E w \in Workers : Load(t, w)) \/ PutWrites(t) \/ FailTurn(t)
      PROVE  BlobsKept'
    BY <1>1, <1>5 DEF Load, PutWrites, FailTurn, tables, history
<1>6. ASSUME NEW t \in Threads, PutCheckpoint(t) PROVE BlobsKept'
  <2> DEFINE next == last[t] + 1
  <2>1. /\ last'[t] = next /\ \A u \in Threads \ {t} : last'[u] = last[u]
        /\ orphaned' = orphaned /\ blobs \subseteq blobs'
        /\ stripped \subseteq stripped' \cup {t}
      BY <1>6 DEF PutCheckpoint, TypeOK
  <2>2. \A r \in saved' :
            \/ r \in saved
            \/ r.thread = t /\ r.id = next /\ <<t, next>> \in blobs'
      BY <1>6 DEF PutCheckpoint
  <2>3. \A r \in saved : r.thread = t => r.id # next
    <3>1. last[t] \in Nat /\ \A r \in saved : r.thread = t => r.id \in Nat /\ r.id <= last[t]
        BY DEF Turns, TypeOK
    <3> QED BY <3>1
  <2>4. \A r \in saved : r.thread \in Threads
      BY DEF TypeOK
  <2> HIDE DEF next
  <2> QED BY <2>1, <2>2, <2>3, <2>4 DEF BlobsKept
<1> QED BY <1>2, <1>3, <1>4, <1>5, <1>6 DEF Next, CleanupStep

LEMMA StepFollow ==
    ASSUME TypeOK, Turns, RowsKept, BlobsKept, TurnsFollow, Next
    PROVE  TurnsFollow'
<1> DEFINE Follows(t) ==
               \/ /\ turn[t].base = last[t]
                  /\ turn[t].messages = last[t] \/ t \in stripped
               \/ divided
               \/ t \in orphaned
               \/ hasCreatedAt /\ \A r \in SavedOf(t) : r.id = last[t] => r.day < day - Keep
<1>1. CASE Tick
  <2>1. /\ day' = day + 1
        /\ UNCHANGED <<hasCreatedAt, turn, saved, last, divided, orphaned, stripped>>
      BY <1>1 DEF Tick, schema, history
  <2>2. ASSUME NEW s \in saved, s.day < day - Keep PROVE s.day < day' - Keep
    <3>1. s.day \in Int /\ day \in Int /\ Keep \in Int
        BY CleanupConstants DEF TypeOK
    <3>2. day' = day + 1
        BY <2>1
    <3> QED BY <2>2, <3>1, <3>2
  <2>3. ASSUME NEW t \in Threads, turn[t].at # "idle" PROVE Follows(t)'
    <3>1. Follows(t)
        BY <2>3 DEF TurnsFollow
    <3> QED BY <2>1, <2>2, <3>1 DEF SavedOf
  <2> QED BY <2>1, <2>3 DEF TurnsFollow
<1>2. ASSUME UNCHANGED <<hasCreatedAt, day, saved, last>>, orphaned \subseteq orphaned',
             stripped \subseteq stripped', divided => divided',
             \A t \in Threads : turn'[t].at # "idle" =>
                 /\ turn[t].at # "idle" /\ turn'[t].base = turn[t].base
                 /\ turn'[t].messages = turn[t].messages
      PROVE  TurnsFollow'
  <2>1. ASSUME NEW t \in Threads, turn'[t].at # "idle" PROVE Follows(t)'
    <3>1. /\ Follows(t) /\ turn'[t].base = turn[t].base
          /\ turn'[t].messages = turn[t].messages
        BY <1>2, <2>1 DEF TurnsFollow
    <3> QED BY <1>2, <3>1 DEF SavedOf
  <2> QED BY <2>1 DEF TurnsFollow
<1>3. ASSUME NEW w \in Workers, Start(w) \/ Stop(w) PROVE TurnsFollow'
  <2>1. UNCHANGED <<hasCreatedAt, day, saved, last, orphaned, stripped, divided>>
      BY <1>3 DEF Start, Stop, schema, history
  <2>2. \A t \in Threads : turn'[t] = turn[t] \/ turn'[t] = Idle
      BY <1>3 DEF Start, Stop
  <2> QED BY <1>2, <2>1, <2>2 DEF Idle
<1>4. ASSUME NEW w \in Workers, CleanupStep(w) PROVE TurnsFollow'
  <2>1. /\ UNCHANGED <<day, hasCreatedAt, turn, saved, last, divided>>
        /\ orphaned \subseteq orphaned' /\ stripped \subseteq stripped'
      BY <1>4, CleanupLeavesTurns
  <2> QED BY <1>2, <2>1
<1>5. ASSUME NEW t \in Threads, NEW w \in Workers, Load(t, w) PROVE TurnsFollow'
  <2>1. /\ UNCHANGED <<hasCreatedAt, day, saved, last, orphaned, stripped>>
        /\ divided' = (divided \/ saver[w] = "memory")
        /\ saver[w] = "tables" =>
              turn' = [turn EXCEPT ![t] = [worker |-> w, at |-> "loaded",
                                           base |-> Newest(t), messages |-> Messages(t)]]
        /\ \A u \in Threads \ {t} : turn'[u] = turn[u]
      BY <1>5 DEF Load, schema, TypeOK
  <2>2. ASSUME ~divided' PROVE turn'[t].base = Newest(t) /\ turn'[t].messages = Messages(t)
    <3>1. saver[w] = "tables"
      <4>1. saver[w] \in {"none", "tables", "memory"}
          BY DEF TypeOK
      <4>2. saver[w] # "none"
          BY <1>5 DEF Load, Turns
      <4> QED BY <2>1, <2>2, <4>1, <4>2
    <3> QED BY <2>1, <3>1 DEF TypeOK
  <2>3. \/ Newest(t) = last[t] /\ (Messages(t) = last[t] \/ t \in stripped)
        \/ t \in orphaned
        \/ hasCreatedAt /\ \A r \in SavedOf(t) : r.id = last[t] => r.day < day - Keep
        \/ divided
    <3>0. /\ last[t] \in Nat /\ Newest(t) \in Nat
          /\ \A r \in RowsOf(t) : r.id \in Nat /\ r.id <= last[t]
        BY NewestOf DEF TypeOK, Turns, RowsOf
    <3>1. CASE \E r \in RowsOf(t) : r.id = last[t]
      <4>1. RowsOf(t) # {} /\ last[t] <= Newest(t)
          BY <3>1, NewestOf
      <4>2. Newest(t) <= last[t]
          BY <3>0, <4>1, NewestOf
      <4>3. Newest(t) = last[t]
          BY <3>0, <4>1, <4>2
      <4>4. PICK r \in saved : r.thread = t /\ r.id = last[t]
          BY <3>1 DEF RowsOf, Turns
      <4>5. <<t, last[t]>> \in blobs \/ t \in orphaned \cup stripped
          BY <4>4 DEF BlobsKept
      <4> QED BY <4>3, <4>5 DEF Messages
    <3>2. CASE last[t] = 0
      <4>1. RowsOf(t) = {}
          BY <3>0, <3>2 DEF TypeOK, RowsOf
      <4> QED BY <3>2, <4>1 DEF Newest, Messages
    <3>3. CASE last[t] > 0 /\ ~divided /\ \A r \in RowsOf(t) : r.id # last[t]
      <4>1. PICK s \in saved : s.thread = t /\ s.id = last[t]
          BY <3>3 DEF Turns
      <4>2. s \notin rows
          BY <3>3, <4>1 DEF RowsOf
      <4>3. t \in orphaned \/ (hasCreatedAt /\ s.day < day - Keep)
          BY <4>1, <4>2 DEF RowsKept
      <4>4. \A r \in SavedOf(t) : r.id = last[t] => r = s
          BY <4>1 DEF Turns, SavedOf
      <4> QED BY <4>3, <4>4
    <3> QED BY <3>0, <3>1, <3>2, <3>3
  <2>4. ASSUME NEW u \in Threads, turn'[u].at # "idle" PROVE Follows(u)'
    <3>1. CASE u = t
        BY <2>1, <2>2, <2>3, <3>1 DEF SavedOf
    <3>2. CASE u # t
      <4>1. turn'[u] = turn[u]
          BY <2>1, <3>2
      <4>2. Follows(u)
          BY <2>4, <4>1 DEF TurnsFollow
      <4> QED BY <2>1, <4>1, <4>2 DEF SavedOf
    <3> QED BY <3>1, <3>2
  <2> QED BY <2>4 DEF TurnsFollow
<1>6. ASSUME NEW t \in Threads, PutWrites(t) \/ FailTurn(t) PROVE TurnsFollow'
  <2>1. UNCHANGED <<hasCreatedAt, day, saved, last, orphaned, stripped, divided>>
      BY <1>6 DEF PutWrites, FailTurn, schema, history
  <2>2. ASSUME NEW u \in Threads, turn'[u].at # "idle"
        PROVE  /\ turn[u].at # "idle" /\ turn'[u].base = turn[u].base
               /\ turn'[u].messages = turn[u].messages
    <3>1. CASE PutWrites(t)
        BY <2>2, <3>1 DEF PutWrites, TypeOK
    <3>2. CASE FailTurn(t)
        BY <2>2, <3>2 DEF FailTurn, Idle, TypeOK
    <3> QED BY <1>6, <3>1, <3>2
  <2> QED BY <1>2, <2>1, <2>2
<1>7. ASSUME NEW t \in Threads, PutCheckpoint(t) PROVE TurnsFollow'
  <2>1. /\ UNCHANGED <<hasCreatedAt, day, orphaned, divided>>
        /\ turn' = [turn EXCEPT ![t] = Idle] /\ last' = [last EXCEPT ![t] = last[t] + 1]
        /\ stripped \subseteq stripped' \cup {t}
      BY <1>7 DEF PutCheckpoint, schema
  <2>2. \A r \in saved' : r \in saved \/ r.thread = t
      BY <1>7 DEF PutCheckpoint
  <2>3. ASSUME NEW u \in Threads, turn'[u].at # "idle" PROVE Follows(u)'
    <3>1. u # t /\ turn'[u] = turn[u] /\ last'[u] = last[u]
        BY <2>1, <2>3 DEF Idle, TypeOK
    <3>2. Follows(u)
        BY <2>3, <3>1 DEF TurnsFollow
    <3>3. \A r \in SavedOf(u)' : r \in SavedOf(u)
        BY <2>2, <3>1 DEF SavedOf
    <3> QED BY <2>1, <3>1, <3>2, <3>3
  <2> QED BY <2>3 DEF TurnsFollow
<1> QED BY <1>1, <1>3, <1>4, <1>5, <1>6, <1>7 DEF Next, CleanupStep

-----------------------------------------------------------------------------
(* What a deletion leaves *)

\* A step that adds no write, blob or checkpoint leaves what is swept for a worker as
\* it is, if the worker's cleanup stands where it stood or is at no deletion.
TakesOnly ==
    /\ rows' \subseteq rows /\ blobs' \subseteq blobs /\ writes' \subseteq writes
    /\ UNCHANGED disturbed

NotDeleting(w) == pc[w] \notin {"blobs", "rows", "threadBlobs", "threadRows"}
StandsStill(w) == pc'[w] = pc[w] /\ cutoff'[w] = cutoff[w] /\ doomed'[w] = doomed[w]

LEMMA SweptStays ==
    ASSUME NEW w \in Workers, SweptAt(w), TakesOnly, NotDeleting(w)' \/ StandsStill(w)
    PROVE  SweptAt(w)'
<1>1. CASE NotDeleting(w)'
    BY <1>1 DEF NotDeleting, SweptAt
<1>2. CASE StandsStill(w)
  <2>1. pc'[w] = pc[w] /\ Old(w)' \subseteq Old(w) /\ disturbed' = disturbed
      BY <1>2 DEF StandsStill, TakesOnly, Old
  <2>2. PICK u : u = Target(w)
      OBVIOUS
  <2>3. Target(w)' = u
      BY <1>2, <2>2 DEF StandsStill, Target
  <2>4. /\ \A t : HasWrites(t)' => HasWrites(t)
        /\ \A t : HasBlobs(t)' => HasBlobs(t)
        /\ writes' \subseteq writes
      BY DEF TakesOnly, HasWrites, HasBlobs
  <2>5. /\ pc[w] \in {"threadBlobs", "threadRows"} => u \in disturbed \/ ~HasWrites(u)
        /\ pc[w] = "threadRows" => u \in disturbed \/ ~HasBlobs(u)
      BY <2>2 DEF SweptAt
  <2>6. /\ pc'[w] \in {"threadBlobs", "threadRows"} => u \in disturbed' \/ ~HasWrites(u)'
        /\ pc'[w] = "threadRows" => u \in disturbed' \/ ~HasBlobs(u)'
      BY <2>1, <2>4, <2>5
  <2>7. /\ pc'[w] \in {"blobs", "rows"} =>
              \A r \in Old(w)' : r.thread \in disturbed' \/ <<r.thread, r.id>> \notin writes'
        /\ pc'[w] = "rows" =>
              \A r \in Old(w)' : r.thread \in disturbed' \/ ~HasBlobs(r.thread)'
      BY <2>1, <2>4 DEF SweptAt
  <2> QED BY <2>3, <2>6, <2>7 DEF SweptAt
<1> QED BY <1>1, <1>2

\* A write or blob of t appears during a deletion that may reach t only if t is
\* disturbed, and no checkpoint that appears is old.
LEMMA SweptByTurn ==
    ASSUME TypeOK, Cleanups, Swept, NEW t \in Threads, disturbed \subseteq disturbed',
           \/ t \in disturbed'
           \/ ~Deleting(t),
           UNCHANGED <<pc, cutoff, doomed>>,
           \A x \in writes' : x \in writes \/ x[1] = t,
           \A b \in blobs' : b \in blobs \/ b[1] = t,
           \A r \in rows' : r \in rows \/ r.day = day
    PROVE  Swept'
<1>1. ASSUME NEW w \in Workers, pc[w] \in {"blobs", "rows"}
      PROVE  Old(w)' \subseteq Old(w) /\ t \in disturbed'
  <2>1. cutoff[w] \in Int /\ cutoff[w] <= day - Keep /\ day \in Int /\ Keep \in Nat \ {0}
      BY <1>1, CleanupConstants DEF TypeOK, Cleanups, ByDay
  <2>2. ~(day < cutoff[w])
      BY <2>1
  <2>3. Old(w)' \subseteq Old(w)
      BY <2>2 DEF Old
  <2>4. t \in disturbed'
      BY <1>1 DEF Deleting
  <2> QED BY <2>3, <2>4
<1>2. ASSUME NEW w \in Workers, pc[w] \in {"threadBlobs", "threadRows"}, Target(w) = t
      PROVE  t \in disturbed'
    BY <1>2 DEF Deleting
<1>3. \A w \in Workers : Target(w)' = Target(w)
    BY DEF Target
<1>4. /\ \A u : HasWrites(u)' => HasWrites(u) \/ u = t
      /\ \A u : HasBlobs(u)' => HasBlobs(u) \/ u = t
    BY DEF HasWrites, HasBlobs
<1>5. ASSUME NEW w \in Workers, pc'[w] \in {"blobs", "rows"}, NEW r \in Old(w)'
      PROVE  /\ r.thread \in disturbed' \/ <<r.thread, r.id>> \notin writes'
             /\ pc'[w] = "rows" => r.thread \in disturbed' \/ ~HasBlobs(r.thread)'
  <2>1. pc[w] \in {"blobs", "rows"} /\ r \in Old(w) /\ t \in disturbed' /\ pc'[w] = pc[w]
      BY <1>1, <1>5
  <2>2. CASE r.thread = t
      BY <2>1, <2>2
  <2>3. CASE r.thread # t
    <3>1. <<r.thread, r.id>> \in writes' => <<r.thread, r.id>> \in writes
        BY <2>3
    <3> QED BY <1>4, <2>1, <2>3, <3>1 DEF Swept, SweptAt
  <2> QED BY <2>2, <2>3
<1>6. ASSUME NEW w \in Workers, pc'[w] \in {"threadBlobs", "threadRows"}
      PROVE  /\ Target(w)' \in disturbed' \/ ~HasWrites(Target(w))'
             /\ pc'[w] = "threadRows" => Target(w)' \in disturbed' \/ ~HasBlobs(Target(w))'
  <2>1. pc[w] \in {"threadBlobs", "threadRows"} /\ pc'[w] = pc[w]
      BY <1>6
  <2>2. PICK u : u = Target(w)
      OBVIOUS
  <2>3. /\ u \in disturbed \/ ~HasWrites(u)
        /\ pc[w] = "threadRows" => u \in disturbed \/ ~HasBlobs(u)
      BY <2>1, <2>2 DEF Swept, SweptAt
  <2>4. u = t => u \in disturbed'
      BY <1>2, <2>1, <2>2
  <2>5. /\ u \in disturbed' \/ ~HasWrites(u)'
        /\ pc'[w] = "threadRows" => u \in disturbed' \/ ~HasBlobs(u)'
      BY <1>4, <2>1, <2>3, <2>4
  <2>6. Target(w)' = u
      BY <1>3, <2>2
  <2> QED BY <2>5, <2>6
<1> QED BY <1>5, <1>6 DEF Swept, SweptAt

LEMMA StepSwept ==
    ASSUME TypeOK, Cleanups, Swept, Next
    PROVE  Swept'
<1>1. ASSUME NEW w \in Workers, TakesOnly, SweptAt(w)',
             \A v \in Workers : v # w => StandsStill(v)
      PROVE  Swept'
    BY <1>1, SweptStays DEF Swept
<1>2. ASSUME NEW w \in Workers, TakesOnly, NotDeleting(w)',
             \A v \in Workers : v # w => StandsStill(v)
      PROVE  Swept'
    BY <1>2, SweptStays DEF Swept
<1>3. CASE Tick
  <2>1. TakesOnly /\ \A v \in Workers : StandsStill(v)
      BY <1>3 DEF Tick, TakesOnly, StandsStill, tables, cleanup, history
  <2> QED BY <2>1, SweptStays DEF Swept
<1>4. ASSUME NEW w \in Workers, Start(w) \/ Stop(w) PROVE Swept'
  <2>1. /\ TakesOnly
        /\ NotDeleting(w)'
        /\ \A v \in Workers : v # w => StandsStill(v)
      BY <1>4 DEF Start, Stop, BeginCleanup, EndCleanup, Goto, TakesOnly, NotDeleting,
         StandsStill, tables, history, TypeOK
  <2> QED BY <1>2, <2>1
<1>5. ASSUME NEW w \in Workers, CleanupStep(w) PROVE Swept'
  <2>1. TakesOnly
      BY <1>5, CleanupLeavesTurns DEF TakesOnly
  <2>2. \A v \in Workers : v # w => StandsStill(v)
      BY <1>5 DEF CleanupStep, RequestCleanup, FailStatement, Count, CountRefused, DeleteWrites,
         DeleteBlobs, DeleteCheckpoints, RequestOrphanCleanup, LookForConversations, FindOrphans,
         DeleteThreadWrites, DeleteThreadBlobs, DeleteThreadCheckpoints, Succeed, Return,
         Continue, BeginCleanup, EndCleanup, Goto, StandsStill, TypeOK
  <2>3. CASE DeleteWrites(w)
    <3>1. /\ pc'[w] = "blobs" /\ Old(w)' = Old(w)
          /\ writes' = writes \ {<<r.thread, r.id>> : r \in Old(w)}
        BY <2>3 DEF DeleteWrites, Continue, Goto, Old, TypeOK
    <3>2. SweptAt(w)'
        BY <3>1 DEF SweptAt
    <3> QED BY <1>1, <2>1, <2>2, <3>2
  <2>4. CASE DeleteBlobs(w)
    <3>1. /\ pc[w] = "blobs" /\ pc'[w] = "rows" /\ Old(w)' = Old(w)
          /\ blobs' = {b \in blobs : \A r \in Old(w) : r.thread # b[1]}
          /\ UNCHANGED <<writes, disturbed>>
        BY <2>4 DEF DeleteBlobs, Continue, Goto, Old, TypeOK, history
    <3>2. \A r \in Old(w) : ~HasBlobs(r.thread)'
        BY <3>1 DEF HasBlobs
    <3>3. \A r \in Old(w) : r.thread \in disturbed \/ <<r.thread, r.id>> \notin writes
        BY <3>1 DEF Swept, SweptAt
    <3>4. SweptAt(w)'
        BY <3>1, <3>2, <3>3 DEF SweptAt
    <3> QED BY <1>1, <2>1, <2>2, <3>4
  <2>5. CASE DeleteThreadWrites(w) \/ DeleteThreadBlobs(w)
    <3>1. PICK u : u = Target(w)
        OBVIOUS
    <3>2. Target(w)' = u /\ disturbed' = disturbed
        BY <2>5, <3>1 DEF DeleteThreadWrites, DeleteThreadBlobs, Continue, Target, history
    <3>3. CASE DeleteThreadWrites(w)
      <4>1. pc'[w] = "threadBlobs" /\ writes' = {x \in writes : x[1] # u}
          BY <3>1, <3>3 DEF DeleteThreadWrites, Continue, Goto, TypeOK
      <4>2. ~HasWrites(u)'
          BY <4>1 DEF HasWrites
      <4>3. SweptAt(w)'
          BY <3>2, <4>1, <4>2 DEF SweptAt
      <4> QED BY <1>1, <2>1, <2>2, <4>3
    <3>4. CASE DeleteThreadBlobs(w)
      <4>1. /\ pc[w] = "threadBlobs" /\ pc'[w] = "threadRows"
            /\ blobs' = {x \in blobs : x[1] # u} /\ writes' = writes
          BY <3>1, <3>4 DEF DeleteThreadBlobs, Continue, Goto, TypeOK
      <4>2. ~HasBlobs(u)'
          BY <4>1 DEF HasBlobs
      <4>3. u \in disturbed \/ ~HasWrites(u)
          BY <3>1, <4>1 DEF Swept, SweptAt
      <4>4. HasWrites(u)' => HasWrites(u)
          BY <4>1 DEF HasWrites
      <4>5. SweptAt(w)'
          BY <3>2, <4>1, <4>2, <4>3, <4>4 DEF SweptAt
      <4> QED BY <1>1, <2>1, <2>2, <4>5
    <3> QED BY <2>5, <3>3, <3>4
  <2>6. CASE RequestCleanup(w) \/ FailStatement(w) \/ Count(w) \/ CountRefused(w)
            \/ DeleteCheckpoints(w) \/ RequestOrphanCleanup(w) \/ LookForConversations(w)
            \/ FindOrphans(w) \/ DeleteThreadCheckpoints(w)
    <3>1. NotDeleting(w)'
        BY <2>6 DEF RequestCleanup, FailStatement, Count, CountRefused, DeleteCheckpoints,
           RequestOrphanCleanup, LookForConversations, FindOrphans, DeleteThreadCheckpoints,
           Succeed, Return, Continue, BeginCleanup, EndCleanup, Goto, NotDeleting, TypeOK
    <3> QED BY <1>2, <2>1, <2>2, <3>1
  <2> QED BY <1>5, <2>3, <2>4, <2>5, <2>6 DEF CleanupStep
<1>6. ASSUME NEW t \in Threads, (\E w \in Workers : Load(t, w)) \/ FailTurn(t) PROVE Swept'
  <2>1. TakesOnly /\ \A v \in Workers : StandsStill(v)
      BY <1>6 DEF Load, FailTurn, TakesOnly, StandsStill, tables, cleanup, history
  <2> QED BY <2>1, SweptStays DEF Swept
<1>7. ASSUME NEW t \in Threads, PutWrites(t) PROVE Swept'
  <2>1. /\ UNCHANGED <<rows, blobs, pc, cutoff, doomed>>
        /\ \/ writes' = writes /\ disturbed' = disturbed
           \/ /\ writes' = writes \cup {<<t, turn[t].base>>}
              /\ disturbed \subseteq disturbed'
              /\ Deleting(t) => t \in disturbed'
      BY <1>7 DEF PutWrites, cleanup
  <2>2. CASE writes' = writes /\ disturbed' = disturbed
    <3>1. TakesOnly /\ \A v \in Workers : StandsStill(v)
        BY <2>1, <2>2 DEF TakesOnly, StandsStill
    <3> QED BY <3>1, SweptStays DEF Swept
  <2>3. CASE /\ writes' = writes \cup {<<t, turn[t].base>>}
             /\ disturbed \subseteq disturbed'
             /\ Deleting(t) => t \in disturbed'
    <3>1. /\ \A x \in writes' : x \in writes \/ x[1] = t
          /\ t \in disturbed' \/ ~Deleting(t)
        BY <2>3
    <3> QED BY <2>1, <2>3, <3>1, SweptByTurn
  <2> QED BY <2>1, <2>2, <2>3
<1>8. ASSUME NEW t \in Threads, PutCheckpoint(t) PROVE Swept'
  <2>1. /\ UNCHANGED <<writes, pc, cutoff, doomed>>
        /\ \/ UNCHANGED <<rows, blobs, disturbed>>
           \/ /\ rows' = rows \cup {[thread |-> t, id |-> last[t] + 1, day |-> day]}
              /\ blobs' = blobs \cup {<<t, last[t] + 1>>}
              /\ disturbed \subseteq disturbed'
              /\ Deleting(t) => t \in disturbed'
      BY <1>8 DEF PutCheckpoint, cleanup
  <2>2. CASE UNCHANGED <<rows, blobs, disturbed>>
    <3>1. TakesOnly /\ \A v \in Workers : StandsStill(v)
        BY <2>1, <2>2 DEF TakesOnly, StandsStill
    <3> QED BY <3>1, SweptStays DEF Swept
  <2>3. CASE /\ rows' = rows \cup {[thread |-> t, id |-> last[t] + 1, day |-> day]}
             /\ blobs' = blobs \cup {<<t, last[t] + 1>>}
             /\ disturbed \subseteq disturbed'
             /\ Deleting(t) => t \in disturbed'
    <3>1. /\ \A b \in blobs' : b \in blobs \/ b[1] = t
          /\ \A r \in rows' : r \in rows \/ r.day = day
          /\ t \in disturbed' \/ ~Deleting(t)
        BY <2>3
    <3> QED BY <2>1, <2>3, <3>1, SweptByTurn
  <2> QED BY <2>1, <2>2, <2>3
<1> QED BY <1>3, <1>4, <1>5, <1>6, <1>7, <1>8 DEF Next, CleanupStep

-----------------------------------------------------------------------------
(* What outlives its checkpoint, and what is older than a cleanup *)

LEMMA StepLeftover ==
    ASSUME TypeOK, Swept, LeftoverNeedsTurn, Next
    PROVE  LeftoverNeedsTurn'
<1> DEFINE HasRow(x) == \E r \in rows : r.thread = x[1] /\ r.id = x[2]
<1>0. \A x \in writes \cup blobs : x[1] \in disturbed \/ HasRow(x)
    BY DEF LeftoverNeedsTurn, RowsOf
<1>1. ASSUME \A x \in writes' \cup blobs' : x[1] \in disturbed' \/ HasRow(x)'
      PROVE  LeftoverNeedsTurn'
    BY <1>1 DEF LeftoverNeedsTurn, RowsOf
<1>2. ASSUME writes' \subseteq writes, blobs' \subseteq blobs, rows' = rows,
             disturbed' = disturbed
      PROVE  LeftoverNeedsTurn'
    BY <1>0, <1>1, <1>2
<1>3. CASE Tick
    BY <1>2, <1>3 DEF Tick, tables, history
<1>4. ASSUME NEW w \in Workers, Start(w) \/ Stop(w) PROVE LeftoverNeedsTurn'
    BY <1>2, <1>4 DEF Start, Stop, tables, history
<1>5. ASSUME NEW w \in Workers, CleanupStep(w) PROVE LeftoverNeedsTurn'
  <2>1. writes' \subseteq writes /\ blobs' \subseteq blobs /\ disturbed' = disturbed
      BY <1>5, CleanupLeavesTurns
  <2>2. CASE DeleteCheckpoints(w)
    <3>1. pc[w] = "rows" /\ rows' = rows \ Old(w) /\ writes' = writes /\ blobs' = blobs
        BY <2>2 DEF DeleteCheckpoints
    <3>2. \A r \in Old(w) : r.thread \in disturbed
                              \/ (<<r.thread, r.id>> \notin writes /\ ~HasBlobs(r.thread))
        BY <3>1 DEF Swept, SweptAt
    <3>3. ASSUME NEW x \in writes \cup blobs PROVE x[1] \in disturbed' \/ HasRow(x)'
      <4>1. CASE x[1] \in disturbed
          BY <2>1, <4>1
      <4>2. CASE x[1] \notin disturbed
        <5>1. PICK r \in rows : r.thread = x[1] /\ r.id = x[2]
            BY <1>0, <4>2
        <5>2. x = <<x[1], x[2]>>
            BY DEF TypeOK
        <5>3. r \notin Old(w)
            BY <3>2, <4>2, <5>1, <5>2 DEF HasBlobs
        <5> QED BY <3>1, <5>1, <5>3
      <4> QED BY <4>1, <4>2
    <3> QED BY <1>1, <3>1, <3>3
  <2>3. CASE DeleteThreadCheckpoints(w)
    <3>1. PICK u : u = Target(w)
        OBVIOUS
    <3>2. /\ pc[w] = "threadRows" /\ rows' = {r \in rows : r.thread # u}
          /\ writes' = writes /\ blobs' = blobs
        BY <2>3, <3>1 DEF DeleteThreadCheckpoints
    <3>3. u \in disturbed \/ (~HasWrites(u) /\ ~HasBlobs(u))
        BY <3>1, <3>2 DEF Swept, SweptAt
    <3>4. ASSUME NEW x \in writes \cup blobs PROVE x[1] \in disturbed' \/ HasRow(x)'
        BY <1>0, <2>1, <3>2, <3>3 DEF HasWrites, HasBlobs
    <3> QED BY <1>1, <3>2, <3>4
  <2>4. CASE RequestCleanup(w) \/ FailStatement(w) \/ Count(w) \/ CountRefused(w)
            \/ DeleteWrites(w) \/ DeleteBlobs(w) \/ RequestOrphanCleanup(w)
            \/ LookForConversations(w) \/ FindOrphans(w) \/ DeleteThreadWrites(w)
            \/ DeleteThreadBlobs(w)
    <3>1. rows' = rows
        BY <2>4 DEF RequestCleanup, FailStatement, Count, CountRefused, DeleteWrites,
           DeleteBlobs, RequestOrphanCleanup, LookForConversations, FindOrphans,
           DeleteThreadWrites, DeleteThreadBlobs, tables
    <3> QED BY <1>2, <2>1, <3>1
  <2> QED BY <1>5, <2>2, <2>3, <2>4 DEF CleanupStep
<1>6. ASSUME NEW t \in Threads, (\E w \in Workers : Load(t, w)) \/ FailTurn(t)
      PROVE  LeftoverNeedsTurn'
    BY <1>2, <1>6 DEF Load, FailTurn, tables, history
<1>7. ASSUME NEW t \in Threads, PutWrites(t) PROVE LeftoverNeedsTurn'
  <2>1. UNCHANGED <<rows, blobs>>
      BY <1>7 DEF PutWrites
  <2>2. \/ writes' = writes /\ disturbed' = disturbed
        \/ /\ writes' = writes \cup {<<t, turn[t].base>>} /\ disturbed \subseteq disturbed'
           /\ t \in disturbed' \/ HasRow(<<t, turn[t].base>>)
      BY <1>7 DEF PutWrites, RowsOf
  <2> QED BY <1>0, <1>1, <2>1, <2>2
<1>8. ASSUME NEW t \in Threads, PutCheckpoint(t) PROVE LeftoverNeedsTurn'
  <2> DEFINE row == [thread |-> t, id |-> last[t] + 1, day |-> day]
  <2>1. /\ writes' = writes
        /\ \/ UNCHANGED <<rows, blobs, disturbed>>
           \/ /\ rows' = rows \cup {row} /\ blobs' = blobs \cup {<<t, last[t] + 1>>}
              /\ disturbed \subseteq disturbed'
      BY <1>8 DEF PutCheckpoint
  <2>2. row.thread = t /\ row.id = last[t] + 1
      OBVIOUS
  <2> HIDE DEF row
  <2> QED BY <1>0, <1>1, <2>1, <2>2
<1> QED BY <1>3, <1>4, <1>5, <1>6, <1>7, <1>8 DEF Next, CleanupStep

LEMMA StepNoneOld ==
    ASSUME TypeOK, Cleanups, NoneOldLeft, Next
    PROVE  NoneOldLeft'
<1>0. /\ cleaned \in Int /\ day \in Int /\ cleaned <= day
      /\ \A w \in Workers : cutoff[w] \in Int
      /\ \A r \in rows : r.day \in Int /\ r.day >= cleaned
    BY DEF TypeOK, Cleanups, NoneOldLeft
<1>1. ASSUME \A r \in rows' : r \in rows \/ r.day = day, cleaned' = cleaned PROVE NoneOldLeft'
    BY <1>0, <1>1 DEF NoneOldLeft
<1>2. CASE Tick
    BY <1>1, <1>2 DEF Tick, tables, history
<1>3. ASSUME NEW w \in Workers, Start(w) \/ Stop(w) PROVE NoneOldLeft'
    BY <1>1, <1>3 DEF Start, Stop, tables, history
<1>4. ASSUME NEW w \in Workers, CleanupStep(w) PROVE NoneOldLeft'
  <2>1. rows' \subseteq rows
      BY <1>4, CleanupLeavesTurns
  <2>2. ASSUME Succeed(w), \A r \in rows' : r \notin Old(w) PROVE NoneOldLeft'
    <3>1. \A r \in rows' : r.day >= cutoff[w] /\ r.day >= cleaned
        BY <1>0, <2>1, <2>2 DEF Old
    <3>2. cleaned' = cutoff[w] \/ cleaned' = cleaned
        BY <2>2 DEF Succeed
    <3> QED BY <3>1, <3>2 DEF NoneOldLeft
  <2>3. CASE Count(w)
    <3>1. CASE Old(w) = {}
        BY <2>2, <2>3, <3>1 DEF Count
    <3>2. CASE Old(w) # {}
        BY <1>1, <2>1, <2>3, <3>2 DEF Count
    <3> QED BY <3>1, <3>2
  <2>4. CASE DeleteCheckpoints(w)
      BY <2>2, <2>4 DEF DeleteCheckpoints
  <2>5. CASE RequestCleanup(w) \/ FailStatement(w) \/ CountRefused(w)
            \/ DeleteWrites(w) \/ DeleteBlobs(w) \/ RequestOrphanCleanup(w)
            \/ LookForConversations(w) \/ FindOrphans(w) \/ DeleteThreadWrites(w)
            \/ DeleteThreadBlobs(w) \/ DeleteThreadCheckpoints(w)
    <3>1. cleaned' = cleaned
        BY <2>5 DEF RequestCleanup, FailStatement, CountRefused, DeleteWrites,
           DeleteBlobs, RequestOrphanCleanup, LookForConversations, FindOrphans,
           DeleteThreadWrites, DeleteThreadBlobs, DeleteThreadCheckpoints, history
    <3> QED BY <1>1, <2>1, <3>1
  <2> QED BY <1>4, <2>3, <2>4, <2>5 DEF CleanupStep
<1>5. ASSUME NEW t \in Threads, (\E w \in Workers : Load(t, w)) \/ PutWrites(t) \/ FailTurn(t)
      PROVE  NoneOldLeft'
    BY <1>1, <1>5 DEF Load, PutWrites, FailTurn, tables, history
<1>6. ASSUME NEW t \in Threads, PutCheckpoint(t) PROVE NoneOldLeft'
  <2>1. /\ cleaned' = cleaned
        /\ rows' \subseteq rows \cup {[thread |-> t, id |-> last[t] + 1, day |-> day]}
      BY <1>6 DEF PutCheckpoint
  <2> QED BY <1>1, <2>1
<1> QED BY <1>2, <1>3, <1>4, <1>5, <1>6 DEF Next, CleanupStep

-----------------------------------------------------------------------------

LEMMA StepInv ==
    ASSUME Inv, [Next]_vars
    PROVE  Inv'
<1>1. CASE Next
  <2>1. TypeOK'
      BY <1>1, StepTyping DEF Inv
  <2>2. Cleanups' /\ Turns'
      BY <1>1, <2>1, StepCleanups, StepTurns DEF Inv
  <2>3. RowsKept' /\ BlobsKept' /\ YoungThreadIsWhole' /\ TurnsFollow'
      BY <1>1, StepKept, StepBlobs, StepFollow DEF Inv
  <2>4. Swept' /\ LeftoverNeedsTurn' /\ NoneOldLeft'
      BY <1>1, StepSwept, StepLeftover, StepNoneOld DEF Inv
  <2> QED BY <2>1, <2>2, <2>3, <2>4 DEF Inv
<1>2. CASE UNCHANGED vars
  <2>1. UNCHANGED <<hasCreatedAt, hasConversations, listed, day, rows, blobs, writes, stage,
                    saver, memory, turn, pc, cutoff, doomed, begun, saved, last, orphaned,
                    stripped, disturbed, divided, cleaned>>
      BY <1>2 DEF vars, schema, tables, process, cleanup, history
  <2>2. TypeOK' /\ Cleanups'
      BY <2>1 DEF Inv, TypeOK, Cleanups
  <2>3. Turns' /\ RowsKept' /\ BlobsKept'
      BY <2>1 DEF Inv, Turns, RowsKept, BlobsKept
  <2>4. YoungThreadIsWhole' /\ TurnsFollow'
      BY <2>1 DEF Inv, YoungThreadIsWhole, TurnsFollow, SavedOf
  <2>5. Swept'
    <3>1. TakesOnly /\ \A v \in Workers : StandsStill(v)
        BY <2>1 DEF TakesOnly, StandsStill
    <3> QED BY <3>1, SweptStays DEF Inv, Swept
  <2>6. LeftoverNeedsTurn' /\ NoneOldLeft'
      BY <2>1 DEF Inv, LeftoverNeedsTurn, NoneOldLeft, RowsOf
  <2> QED BY <2>2, <2>3, <2>4, <2>5, <2>6 DEF Inv
<1> QED BY <1>1, <1>2

LEMMA Invariance == Spec => []Inv
<1>1. Init => Inv
    BY InitInv
<1>2. Inv /\ [Next]_vars => Inv'
    BY StepInv
<1> QED BY <1>1, <1>2, PTL DEF Spec

-----------------------------------------------------------------------------

(* Every variable keeps its type. *)
THEOREM Typing == Spec => []TypeOK
<1>1. Inv => TypeOK
    BY DEF Inv
<1> QED BY <1>1, Invariance, PTL

(* A thread that began within the days to keep loses no checkpoint and no  *)
(* blob to a cleanup (checkpoint_cleanup.py:55-83), for any number of      *)
(* workers that clean beside its turns and fail anywhere.                  *)
THEOREM YoungWhole == Spec => []YoungThreadIsWhole
<1>1. Inv => YoungThreadIsWhole
    BY DEF Inv
<1> QED BY <1>1, Invariance, PTL

(* A turn goes on from the thread's last turn, unless that turn may have   *)
(* been cleaned away or a worker without the tables took a turn.           *)
THEOREM TurnsFollowOn == Spec => []TurnsFollow
<1>1. Inv => TurnsFollow
    BY DEF Inv
<1> QED BY <1>1, Invariance, PTL

(* The order of the three deletions leaves no write and no blob without    *)
(* its checkpoint, unless a turn saved between them.                       *)
THEOREM LeftoversNeedTurn == Spec => []LeftoverNeedsTurn
<1>1. Inv => LeftoverNeedsTurn
    BY DEF Inv
<1> QED BY <1>1, Invariance, PTL

(* What a cleanup that reported success was to take is gone for good.      *)
THEOREM OldIsGone == Spec => []NoneOldLeft
<1>1. Inv => NoneOldLeft
    BY DEF Inv
<1> QED BY <1>1, Invariance, PTL
=============================================================================
