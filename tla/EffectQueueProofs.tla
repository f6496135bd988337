------------------------- MODULE EffectQueueProofs -------------------------
(***************************************************************************)
(* Proofs of the safety properties of EffectQueue for any keys, any number *)
(* of coroutines and any bounds.  Inv is inductive: Typing and Shape say   *)
(* what the lists of the runners look like, and every further part         *)
(* strengthens one property.                                               *)
(***************************************************************************)
EXTENDS EffectQueue, FiniteSetTheorems, SequenceTheorems, TLAPS

\* A run of the effect at hand has begun, and the queue does not know its end yet.
AtWork(r) == pc[r] \in {"handling", "returned"}

\* Who runs or sleeps has an effect at hand, and no list holds an effect twice.
Shape ==
    /\ \A r \in Runners : AtWork(r) \/ pc[r] = "sleeping" => todo[r] # <<>>
    /\ \A r \in Runners : AtWork(r) => arg[r] # None
    /\ \A r \in Runners : \A i, j \in DOMAIN todo[r] : i < j => todo[r][i] # todo[r][j]
    /\ \A k \in Pending : effect[queue[k]].key = k

Stored(o) == \E k \in Keys : queue[k] = o
Lists(r, o) == \E i \in DOMAIN todo[r] : todo[r][i] = o

\* The runners that have an uncounted run of o behind them, or are in a run of it:
\* once o is popped, none that has dropped it can meet it again.
Spent(o) ==
    {r \in Runners : \/ AtWork(r) /\ Head(todo[r]) = o
                     \/ ~Stored(o) /\ ~Lists(r, o)}

RunsCounted ==
    \A o \in DOMAIN runs : runs[o] <= effect[o].attempts + Cardinality(Spent(o))

\* A payload is at home under one key, and was submitted.
Holds(k, p) ==
    \/ \E o \in DOMAIN effect : effect[o].key = k /\ effect[o].payload = p
    \/ disk[k] = p \/ rows[k] = p
    \/ \E r \in Runners : AtWork(r) /\ arg[r] = p /\ effect[Head(todo[r])].key = k

OneHome ==
    \A p \in Payloads : \A k \in Keys : Holds(k, p) =>
        /\ p <= submitted
        /\ \A l \in Keys : Holds(l, p) => l = k

\* What is stored is not done, or a runner is about to settle it.
PendingNotDone ==
    \A k \in Pending : status[effect[queue[k]].payload] = "done" =>
        \E r \in Runners : pc[r] = "returned" /\ arg[r] = effect[queue[k]].payload

\* What is stored under a key is the youngest object of that key.
YoungestStored ==
    \A k \in Pending : \A o \in DOMAIN effect : effect[o].key = k => o <= queue[k]

PendingCounted == YoungestStored /\ LeavesCounted

Inv ==
    /\ TypeOK
    /\ Shape
    /\ PendingIsSaved
    /\ PendingNotDone
    /\ SettledIsNotRecovered
    /\ OneHome
    /\ RunsCounted
    /\ PendingCounted

-----------------------------------------------------------------------------
(* What the lists may be *)

\* What Head and Tail are.
LEMMA HeadAndTail ==
    ASSUME NEW S, NEW s \in Seq(S), s # <<>>
    PROVE  /\ Head(s) \in S /\ 1 \in DOMAIN s /\ Head(s) = s[1]
           /\ Tail(s) \in Seq(S)
           /\ \A i \in DOMAIN Tail(s) : i + 1 \in DOMAIN s /\ Tail(s)[i] = s[i + 1]
           /\ \A i \in DOMAIN s : i > 1 => i - 1 \in DOMAIN Tail(s)
OBVIOUS

\* The list a run starts with holds stored effects only, and none twice.
LEMMA DueListsAreStored ==
    ASSUME TypeOK, NEW s \in DueLists
    PROVE  /\ s \in Seq(1..Len(effect))
           /\ \A i \in DOMAIN s : Stored(s[i])
           /\ \A i, j \in DOMAIN s : i < j => s[i] # s[j]
<1> DEFINE due == {queue[k] : k \in {j \in Pending : DueNow(j)}}
<1>1. due \subseteq 1..Len(effect)
    BY DEF TypeOK, Pending, None
<1>2. Len(effect) \in Nat
    BY DEF TypeOK
<1>a. IsFiniteSet(1..Len(effect))
    BY <1>2, FS_Interval
<1>3. IsFiniteSet(due)
    BY <1>1, <1>a, FS_Subset
<1>4. Cardinality(due) \in Nat
    BY <1>3, FS_CardinalityType
<1>5. s \in [1..Cardinality(due) -> due] /\ \A i, j \in DOMAIN s : i < j => s[i] # s[j]
    BY DEF DueLists
<1>6. s \in Seq(1..Len(effect))
  <2> DEFINE n == Cardinality(due)
  <2>1. s \in [1..n -> 1..Len(effect)] /\ n \in Nat
      BY <1>1, <1>4, <1>5
  <2> HIDE DEF n
  <2> QED BY <2>1
<1>7. \A i \in DOMAIN s : Stored(s[i])
    BY <1>5 DEF Stored, Pending
<1> QED BY <1>5, <1>6, <1>7

-----------------------------------------------------------------------------
(* The invariant holds initially. *)

LEMMA InitInv ==
    ASSUME Init
    PROVE  Inv
<1>1. TypeOK
    BY QueueConstants DEF Init, TypeOK, Payloads, None
<1>2. Pending = {}
    BY DEF Init, Pending
<1>3. Shape /\ PendingIsSaved /\ PendingNotDone /\ SettledIsNotRecovered /\ RunsCounted
    BY <1>2 DEF Init, Shape, AtWork, PendingIsSaved, PendingNotDone, SettledIsNotRecovered,
                RunsCounted
<1>4. OneHome
    BY DEF Init, OneHome, Holds, Payloads, None
<1>5. PendingCounted
    BY <1>2 DEF Init, PendingCounted, YoungestStored, LeavesCounted
<1> QED BY <1>1, <1>3, <1>4, <1>5 DEF Inv

-----------------------------------------------------------------------------
(* Every part of the invariant is preserved. *)

\* What is stored are objects.
LEMMA Objects ==
    ASSUME TypeOK
    PROVE  /\ effect \in Seq(Effect) /\ Len(effect) \in Nat /\ DOMAIN effect = 1..Len(effect)
           /\ \A o \in 1..Len(effect) : effect[o] \in Effect
           /\ queue \in [Keys -> 0..Len(effect)]
           /\ \A k \in Pending : queue[k] \in 1..Len(effect)
<1>1. effect \in Seq(Effect) /\ queue \in [Keys -> 0..Len(effect)]
    BY DEF TypeOK, None
<1>2. Len(effect) \in Nat /\ DOMAIN effect = 1..Len(effect)
    BY <1>1, LenProperties
<1>3. \A o \in 1..Len(effect) : effect[o] \in Effect
    BY <1>1, ElementOfSeq
<1>4. \A k \in Pending : queue[k] \in 1..Len(effect)
    BY <1>1, <1>2 DEF Pending, None
<1> QED BY <1>1, <1>2, <1>3, <1>4

\* A runner that drops the effect at hand has dropped an object.
LEMMA DropTyping ==
    ASSUME TypeOK, NEW r \in Runners, todo[r] # <<>>
    PROVE  /\ Head(todo[r]) \in 1..Len(effect)
           /\ effect[Head(todo[r])] \in Effect
           /\ [todo EXCEPT ![r] = Tail(@)] \in [Runners -> Seq(1..Len(effect))]
<1>1. todo[r] \in Seq(1..Len(effect)) /\ todo \in [Runners -> Seq(1..Len(effect))]
    BY DEF TypeOK
<1>2. Head(todo[r]) \in 1..Len(effect) /\ Tail(todo[r]) \in Seq(1..Len(effect))
    BY <1>1, HeadAndTail
<1>3. effect[Head(todo[r])] \in Effect
    BY <1>2, Objects
<1> QED BY <1>1, <1>2, <1>3

LEMMA PopTyping ==
    ASSUME TypeOK, NEW o \in 1..Len(effect), Pop(o)
    PROVE  /\ queue' \in [Keys -> None..Len(effect)]
           /\ Rows(queue', effect) \in [Keys -> {None} \cup Payloads]
<1>1. queue' \in [Keys -> 0..Len(effect)]
  <2>1. queue \in [Keys -> 0..Len(effect)] /\ 0 \in 0..Len(effect)
      BY Objects
  <2> QED BY <2>1 DEF Pop, None
<1>2. ASSUME NEW k \in Keys, queue'[k] # None PROVE effect[queue'[k]].payload \in Payloads
  <2>1. queue'[k] \in 1..Len(effect)
      BY <1>1, <1>2, Objects DEF None
  <2> QED BY <2>1, Objects DEF Effect
<1> QED BY <1>1, <1>2 DEF Rows, None

LEMMA EnqueueTyping ==
    ASSUME TypeOK, NEW k \in Keys, NEW p \in Payloads, Enqueue(k, p)
    PROVE  /\ effect' \in Seq(Effect) /\ Len(effect) <= Len(effect')
           /\ queue' \in [Keys -> None..Len(effect')]
           /\ todo' \in [Runners -> Seq(1..Len(effect'))]
           /\ disk' \in [Keys -> {None} \cup Payloads]
           /\ status' \in [Payloads -> {"unused", "accepted", "replaced", "done", "failed"}]
           /\ runs' \in Seq(Nat) /\ Len(runs') = Len(effect')
           /\ counted' \in Seq(Nat) /\ Len(counted') = Len(effect')
           /\ raises' \in 0..MaxRaises /\ unsaved' \subseteq Payloads
           /\ UNCHANGED <<pc, arg, crashes, boot>>
<1> USE QueueConstants DEF Payloads, None, Effect
<1>0. UNCHANGED <<pc, todo, arg, crashes, boot>>
    BY DEF Enqueue, runner
<1>s. /\ raises' \in 0..MaxRaises /\ unsaved' \subseteq Payloads
      /\ disk' = Rows(queue', effect') \/ disk' = disk
  <2>0. raises \in 0..MaxRaises /\ unsaved \subseteq Payloads
      BY DEF TypeOK
  <2>1. CASE Save(queue', effect')
      BY <2>0, <2>1 DEF Save, Persist
  <2>2. CASE SaveRaises(p)
    <3>1. disk' = disk /\ unsaved' = unsaved \cup {p} /\ raises < MaxRaises /\ raises' = raises + 1
        BY <2>2 DEF SaveRaises
    <3> QED BY <2>0, <3>1
  <2> QED BY <2>1, <2>2 DEF Enqueue
<1>d. ASSUME \A j \in Keys : queue'[j] # None => effect'[queue'[j]].payload \in Payloads
      PROVE  disk' \in [Keys -> {None} \cup Payloads]
    BY <1>s, <1>d DEF Rows, TypeOK
<1>1. CASE Merge(k, p)
  <2> DEFINE o == queue[k]
  <2>1. o \in 1..Len(effect) /\ effect[o] \in Effect
      BY <1>1, Objects DEF Merge, Pending
  <2>2. effect' = [effect EXCEPT ![o] = [@ EXCEPT !.payload = p, !.due = "asap"]]
      BY <1>1 DEF Merge
  <2>3. [effect[o] EXCEPT !.payload = p, !.due = "asap"] \in Effect
      BY <2>1
  <2>4. effect' \in Seq(Effect) /\ Len(effect') = Len(effect)
      BY <2>1, <2>2, <2>3 DEF TypeOK
  <2>5. queue' \in [Keys -> None..Len(effect')] /\ UNCHANGED <<queue, counted, runs>>
      BY <1>1, <2>4 DEF Merge, TypeOK
  <2>6. disk' \in [Keys -> {None} \cup Payloads]
    <3>1. ASSUME NEW j \in Keys, queue[j] # None PROVE effect'[queue[j]].payload \in Payloads
      <4>1. queue[j] \in 1..Len(effect')
          BY <2>4, <3>1, Objects DEF Pending
      <4>2. effect'[queue[j]] \in Effect
          BY <2>4, <4>1, ElementOfSeq
      <4> QED BY <4>2
    <3> QED BY <1>d, <2>5, <3>1
  <2>7. status' \in [Payloads -> {"unused", "accepted", "replaced", "done", "failed"}]
      BY <1>1 DEF Merge, TypeOK
  <2> QED BY <1>0, <1>s, <2>4, <2>5, <2>6, <2>7 DEF TypeOK
<1>2. CASE Insert(k, p)
  <2>1. /\ effect' \in Seq(Effect) /\ Len(effect') = Len(effect) + 1
        /\ runs' \in Seq(Nat) /\ Len(runs') = Len(effect')
        /\ counted' \in Seq(Nat) /\ Len(counted') = Len(effect')
    <3>0. /\ effect \in Seq(Effect) /\ runs \in Seq(Nat) /\ counted \in Seq(Nat)
          /\ Len(runs) = Len(effect) /\ Len(counted) = Len(effect)
        BY DEF TypeOK
    <3>1. PICK e \in Effect : effect' = Append(effect, e)
      <4> DEFINE e == [key |-> k, payload |-> p, attempts |-> 0, due |-> "asap"]
      <4>1. e \in Effect
          BY QueueConstants
      <4>2. effect' = Append(effect, e)
          BY <1>2 DEF Insert
      <4> HIDE DEF e
      <4> QED BY <4>1, <4>2
    <3>2. effect' \in Seq(Effect) /\ Len(effect') = Len(effect) + 1
        BY <3>0, <3>1
    <3>3. /\ runs' \in Seq(Nat) /\ Len(runs') = Len(runs) + 1
          /\ counted' \in Seq(Nat) /\ Len(counted') = Len(counted) + 1
        BY <1>2, <3>0 DEF Insert
    <3> QED BY <3>0, <3>2, <3>3
  <2>2. queue' \in [Keys -> None..Len(effect')]
      BY <1>2, <2>1 DEF TypeOK, Insert
  <2>4. disk' \in [Keys -> {None} \cup Payloads]
    <3>1. ASSUME NEW j \in Keys, queue'[j] # None PROVE effect'[queue'[j]].payload \in Payloads
      <4>1. queue'[j] \in 1..Len(effect')
          BY <2>1, <2>2, <3>1
      <4>2. effect'[queue'[j]] \in Effect
          BY <2>1, <4>1, ElementOfSeq
      <4> QED BY <4>2
    <3> QED BY <1>d, <3>1
  <2>5. status' \in [Payloads -> {"unused", "accepted", "replaced", "done", "failed"}]
      BY <1>2 DEF Insert, TypeOK
  <2>6. todo' \in [Runners -> Seq(1..Len(effect'))]
    <3>1. 1..Len(effect) \subseteq 1..Len(effect')
        BY <2>1 DEF TypeOK
    <3>2. ASSUME NEW r \in Runners PROVE todo[r] \in Seq(1..Len(effect'))
      <4>1. todo[r] \in Seq(1..Len(effect))
          BY DEF TypeOK
      <4> QED BY <3>1, <4>1, SeqMonotonic
    <3> QED BY <1>0, <3>2 DEF TypeOK
  <2>7. Len(effect) <= Len(effect')
      BY <2>1, Objects
  <2> QED BY <1>0, <1>s, <2>1, <2>2, <2>4, <2>5, <2>6, <2>7
<1> QED BY <1>1, <1>2 DEF Enqueue

\* Counting an object keeps one number for each object.
LEMMA CountTyping ==
    ASSUME TypeOK, NEW o \in 1..Len(effect), NEW n \in Nat
    PROVE  /\ [counted EXCEPT ![o] = @ + n] \in Seq(Nat)
           /\ Len([counted EXCEPT ![o] = @ + n]) = Len(effect)
<1>1. counted \in Seq(Nat) /\ Len(counted) = Len(effect) /\ counted[o] + n \in Nat
    BY DEF TypeOK
<1> QED BY <1>1

\* An effect with attempts left is still one after the retry.
LEMMA RetryTyping ==
    ASSUME TypeOK, NEW o \in 1..Len(effect), MayRetry(o)
    PROVE  Retried(o) \in Effect
<1>1. effect[o] \in Effect
    BY Objects
<1>2. effect[o].attempts \in 0..MaxAttempts /\ effect[o].attempts < MaxAttempts
    BY <1>1 DEF MayRetry, Effect
<1>3. effect[o].attempts + 1 \in 0..MaxAttempts
    BY <1>2, QueueConstants
<1> QED BY <1>1, <1>3 DEF Retried, Effect

LEMMA StepTyping ==
    ASSUME TypeOK, Shape, Next
    PROVE  TypeOK'
<1> USE QueueConstants DEF Payloads, None
<1>1. ASSUME NEW k \in Keys, Submit(k) PROVE TypeOK'
  <2>1. submitted' \in Payloads /\ Enqueue(k, submitted') /\ UNCHANGED rows
      BY <1>1 DEF Submit, TypeOK
  <2>2. submitted' \in 0..MaxPayloads
      BY <2>1
  <2> HIDE DEF Payloads, None
  <2> QED BY <2>1, <2>2, EnqueueTyping DEF TypeOK
<1>2. ASSUME NEW k \in Keys, Requeue(k) PROVE TypeOK'
  <2>1. rows[k] \in Payloads /\ Enqueue(k, rows[k])
      BY <1>2 DEF Requeue, TypeOK
  <2>2. UNCHANGED submitted /\ rows' \in [Keys -> {None} \cup Payloads]
      BY <1>2 DEF Requeue, TypeOK
  <2> HIDE DEF Payloads, None
  <2> QED BY <2>1, <2>2, EnqueueTyping DEF TypeOK
<1>3. ASSUME NEW r \in Runners, Run(r) PROVE TypeOK'
  <2> DEFINE o == Head(todo[r])
  <2>1. CASE StartRun(r)
    <3>1. PICK s \in DueLists : todo' = [todo EXCEPT ![r] = s]
        BY <2>1 DEF StartRun
    <3>2. s \in Seq(1..Len(effect))
        BY <3>1, DueListsAreStored
    <3>3. todo' \in [Runners -> Seq(1..Len(effect))]
        BY <3>1, <3>2 DEF TypeOK
    <3> QED BY <2>1, <3>3 DEF StartRun, TypeOK, consumer, saving
  <2>2. CASE EndRun(r)
      BY <2>2 DEF EndRun, TypeOK, consumer, saving
  <2>3. ASSUME NEW p \in Payloads, FinishFailed(r, p), todo[r] # <<>> PROVE TypeOK'
    <3>1. queue' \in [Keys -> None..Len(effect)]
        BY <2>3, DropTyping, PopTyping DEF FinishFailed
    <3>2. todo' \in [Runners -> Seq(1..Len(effect))]
        BY <2>3, DropTyping DEF FinishFailed
    <3>3. counted' \in Seq(Nat) /\ Len(counted') = Len(effect)
        BY <2>3, DropTyping, CountTyping DEF FinishFailed, CountFailure
    <3> QED BY <2>3, <3>1, <3>2, <3>3 DEF FinishFailed, TypeOK, consumer, saving
  <2>4. CASE NoHandler(r)
    <3>1. todo[r] # <<>>
        BY <2>4 DEF NoHandler, AtEffect
    <3>2. effect[o].payload \in Payloads
        BY <3>1, DropTyping DEF Effect
    <3> QED BY <2>3, <2>4, <3>1, <3>2 DEF NoHandler
  <2>5. CASE CallHandler(r)
    <3>1. o \in 1..Len(effect) /\ effect[o].payload \in Payloads
        BY <2>5, DropTyping DEF CallHandler, AtEffect, Effect
    <3>2. runs' \in Seq(Nat) /\ Len(runs') = Len(runs)
      <4>1. runs \in Seq(Nat) /\ Len(runs) = Len(effect)
          BY DEF TypeOK
      <4> QED BY <2>5, <3>1, <4>1 DEF CallHandler
    <3> QED BY <2>5, <3>1, <3>2 DEF CallHandler, TypeOK, consumer, saving
  <2>6. CASE HandlerReturns(r)
      BY <2>6 DEF HandlerReturns, TypeOK, consumer, saving
  <2>10. CASE Settle(r)
    <3>1. todo[r] # <<>> /\ o \in 1..Len(effect)
        BY <2>10, DropTyping DEF Settle, Shape, AtWork
    <3>2. queue' \in [Keys -> None..Len(effect)] /\ disk' \in [Keys -> {None} \cup Payloads]
        BY <2>10, <3>1, PopTyping DEF Settle, Save, Persist
    <3>3. todo' \in [Runners -> Seq(1..Len(effect))]
        BY <2>10, <3>1, DropTyping DEF Settle
    <3>4. counted' \in Seq(Nat) /\ Len(counted') = Len(effect)
        BY <2>10, <3>1, CountTyping DEF Settle
    <3> QED BY <2>10, <3>2, <3>3, <3>4 DEF Settle, Save, TypeOK, consumer
  <2>11. CASE SettleUnsaved(r)
    <3>1. todo[r] # <<>> /\ o \in 1..Len(effect) /\ arg[r] \in Payloads
        BY <2>11, DropTyping DEF SettleUnsaved, Shape, AtWork, TypeOK
    <3>2. queue' \in [Keys -> None..Len(effect)]
        BY <2>11, <3>1, PopTyping DEF SettleUnsaved
    <3>3. todo' \in [Runners -> Seq(1..Len(effect))]
        BY <2>11, <3>1, DropTyping DEF SettleUnsaved, TypeOK
    <3>4. counted' \in Seq(Nat) /\ Len(counted') = Len(effect)
      <4>1. PICK n \in Nat : counted' = [counted EXCEPT ![o] = @ + n]
          BY <2>11 DEF SettleUnsaved
      <4> QED BY <3>1, <4>1, CountTyping
    <3>5. effect' \in Seq(Effect) /\ Len(effect') = Len(effect)
      <4>1. MayRetry(o) => Retried(o) \in Effect
          BY <3>1, RetryTyping
      <4>2. effect' = effect \/ (MayRetry(o) /\ effect' = [effect EXCEPT ![o] = Retried(o)])
          BY <2>11 DEF SettleUnsaved
      <4>3. effect \in Seq(Effect)
          BY DEF TypeOK
      <4> QED BY <3>1, <4>1, <4>2, <4>3
    <3>6. disk' = disk /\ raises' \in 0..MaxRaises /\ unsaved' \subseteq Payloads
      <4>1. raises \in 0..MaxRaises /\ unsaved \subseteq Payloads
          BY DEF TypeOK
      <4>2. disk' = disk /\ unsaved' = unsaved \cup {arg[r]} /\ raises < MaxRaises /\ raises' = raises + 1
          BY <2>11 DEF SettleUnsaved, SaveRaises
      <4>3. raises' \in 0..MaxRaises
          BY <4>1, <4>2
      <4>4. unsaved' \subseteq Payloads
          BY <3>1, <4>1, <4>2
      <4> QED BY <4>2, <4>3, <4>4
    <3> QED BY <2>11, <3>2, <3>3, <3>4, <3>5, <3>6 DEF SettleUnsaved, TypeOK, consumer
  <2>7. CASE HandlerBacksOff(r)
    <3>1. todo[r] # <<>>
        BY <2>7 DEF HandlerBacksOff, Shape, AtWork
    <3>2. o \in 1..Len(effect) /\ effect[o] \in Effect
        BY <3>1, DropTyping
    <3>3. Retried(o) \in Effect
        BY <2>7, <3>2, RetryTyping DEF HandlerBacksOff
    <3>4. effect' \in Seq(Effect) /\ Len(effect') = Len(effect)
        BY <2>7, <3>2, <3>3 DEF HandlerBacksOff, TypeOK
    <3> QED BY <2>7, <3>4 DEF HandlerBacksOff, TypeOK, consumer, saving
  <2>8. CASE HandlerFails(r)
    <3>1. todo[r] # <<>> /\ arg[r] \in Payloads
        BY <2>8 DEF HandlerFails, Shape, AtWork, TypeOK
    <3> QED BY <2>3, <2>8, <3>1 DEF HandlerFails
  <2>9. CASE Wake(r)
    <3>1. todo' \in [Runners -> Seq(1..Len(effect))]
        BY <2>9, DropTyping DEF Wake, Shape
    <3> QED BY <2>9, <3>1 DEF Wake, TypeOK, consumer, saving
  <2> QED BY <1>3, <2>1, <2>2, <2>4, <2>5, <2>6, <2>7, <2>8, <2>9, <2>10, <2>11 DEF Run
<1>4. ASSUME NEW o \in 1..Len(effect), Elapse(o) PROVE TypeOK'
  <2>1. effect[o] \in Effect
      BY DEF TypeOK
  <2>2. [effect[o] EXCEPT !.due = "elapsed"] \in Effect
      BY <2>1 DEF Effect
  <2>3. effect' \in Seq(Effect) /\ Len(effect') = Len(effect)
      BY <1>4, <2>2 DEF Elapse, TypeOK
  <2> QED BY <1>4, <2>3 DEF Elapse, TypeOK, runner, consumer, saving
<1>5. CASE Crash
    BY <1>5 DEF Crash, TypeOK
<1>6. CASE RecoveryEnds
    BY <1>6 DEF RecoveryEnds, TypeOK, runner, saving
<1> QED BY <1>1, <1>2, <1>3, <1>4, <1>5, <1>6 DEF Next

-----------------------------------------------------------------------------
(* The lists, and what the steps do to them. *)

\* Nobody else's list changes when r drops the effect at hand, and its own gets
\* shorter at the front.
LEMMA StepShape ==
    ASSUME TypeOK, Shape, Next, TypeOK'
    PROVE  Shape'
<1> USE DEF AtWork
<1> DEFINE Distinct(s) == \A i, j \in DOMAIN s : i < j => s[i] # s[j]
           Lists1 == /\ \A r \in Runners : AtWork(r) \/ pc[r] = "sleeping" => todo[r] # <<>>
                     /\ \A r \in Runners : AtWork(r) => arg[r] # None
                     /\ \A r \in Runners : Distinct(todo[r])
           Home == \A k \in Pending : effect[queue[k]].key = k
<1>1. ASSUME NEW k \in Keys, NEW p \in Payloads, Enqueue(k, p) PROVE Shape'
  <2>1. UNCHANGED <<pc, todo, arg>>
      BY <1>1 DEF Enqueue, runner
  <2>2. Home'
    <3>1. CASE Merge(k, p)
        BY <3>1, Objects DEF Merge, Pending, Shape, Effect
    <3>2. CASE Insert(k, p)
      <4>1. /\ Len(effect') = Len(effect) + 1 /\ effect'[Len(effect')].key = k
            /\ \A o \in 1..Len(effect) : effect'[o] = effect[o]
          BY <3>2, Objects DEF Insert
      <4> QED BY <3>2, <4>1, Objects DEF Insert, Pending, Shape
    <3> QED BY <1>1, <3>1, <3>2 DEF Enqueue
  <2> QED BY <2>1, <2>2 DEF Shape
<1>2. ASSUME NEW r \in Runners, todo[r] # <<>>
      PROVE  Distinct(Tail(todo[r]))
  <2>1. todo[r] \in Seq(1..Len(effect))
      BY DEF TypeOK
  <2>2. \A i \in DOMAIN Tail(todo[r]) :
            i \in Nat /\ i + 1 \in DOMAIN todo[r] /\ Tail(todo[r])[i] = todo[r][i + 1]
      BY <1>2, <2>1, HeadAndTail
  <2> QED BY <2>2 DEF Shape
<1>3. ASSUME NEW o \in 1..Len(effect), Pop(o), UNCHANGED effect PROVE Home'
    BY <1>3 DEF Pop, Pending, Shape, TypeOK
<1>4. ASSUME NEW o \in 1..Len(effect), NEW e, UNCHANGED queue, e.key = effect[o].key,
             effect' = [effect EXCEPT ![o] = e]
      PROVE  Home'
    BY <1>4, Objects DEF Pending, Shape
<1>5. ASSUME NEW r \in Runners, todo[r] # <<>>,
              todo' = [todo EXCEPT ![r] = Tail(@)], pc' = [pc EXCEPT ![r] = "looping"],
              \A q \in Runners : q # r => arg'[q] = arg[q]
       PROVE  Lists1'
  <2>1. ASSUME NEW q \in Runners, q # r
        PROVE  pc'[q] = pc[q] /\ todo'[q] = todo[q] /\ arg'[q] = arg[q]
      BY <1>5, <2>1 DEF TypeOK
  <2>2. pc'[r] = "looping" /\ todo'[r] = Tail(todo[r])
      BY <1>5 DEF TypeOK
  <2>3. Distinct(Tail(todo[r]))
      BY <1>2, <1>5
  <2>4. ASSUME NEW q \in Runners
        PROVE  /\ AtWork(q)' \/ pc'[q] = "sleeping" => todo'[q] # <<>>
               /\ AtWork(q)' => arg'[q] # None
               /\ Distinct(todo'[q])
    <3>1. CASE q = r
      <4>1. pc'[q] = "looping" /\ todo'[q] = Tail(todo[r])
          BY <2>2, <3>1
      <4>2. Distinct(todo'[q])
        <5> HIDE DEF Distinct
        <5> QED BY <2>3, <4>1
      <4> QED BY <4>1, <4>2
    <3>2. CASE q # r
        BY <2>1, <3>2 DEF Shape
    <3> QED BY <3>1, <3>2
  <2> QED BY <2>4
<1>6. ASSUME NEW r \in Runners, NEW p, FinishFailed(r, p), todo[r] # <<>> PROVE Shape'
  <2>1. Lists1'
    <3>1. \A q \in Runners : q # r => arg'[q] = arg[q]
        BY <1>6 DEF FinishFailed, TypeOK
    <3> QED BY <1>6, <1>5, <3>1 DEF FinishFailed
  <2>2. Home'
      BY <1>3, <1>6, DropTyping DEF FinishFailed
  <2> QED BY <2>1, <2>2 DEF Shape
<1>7. ASSUME NEW r \in Runners, Run(r) PROVE Shape'
  <2>1. CASE StartRun(r)
    <3>1. PICK s \in DueLists : todo' = [todo EXCEPT ![r] = s]
        BY <2>1 DEF StartRun
    <3>2. Distinct(s)
        BY <3>1, DueListsAreStored
    <3> QED BY <2>1, <3>1, <3>2 DEF StartRun, Shape, TypeOK, Pending
  <2>2. CASE EndRun(r)
      BY <2>2 DEF EndRun, Shape, TypeOK, Pending
  <2>3. CASE NoHandler(r)
      BY <1>6, <2>3 DEF NoHandler, AtEffect
  <2>4. CASE CallHandler(r)
    <3>1. effect[Head(todo[r])].payload # None
        BY <2>4, DropTyping DEF CallHandler, AtEffect, Effect, Payloads, None
    <3> QED BY <2>4, <3>1 DEF CallHandler, AtEffect, Shape, TypeOK, Pending
  <2>5. CASE HandlerReturns(r)
      BY <2>5 DEF HandlerReturns, Shape, TypeOK, Pending
  <2>9. CASE Settle(r)
    <3>1. todo[r] # <<>>
        BY <2>9 DEF Settle, Shape
    <3>2. Lists1'
      <4>1. \A q \in Runners : q # r => arg'[q] = arg[q]
          BY <2>9 DEF Settle, TypeOK
      <4> QED BY <1>5, <2>9, <3>1, <4>1 DEF Settle
    <3>3. Home'
        BY <1>3, <2>9, <3>1, DropTyping DEF Settle
    <3> QED BY <3>2, <3>3 DEF Shape
  <2>10. CASE SettleUnsaved(r)
    <3>1. todo[r] # <<>> /\ Head(todo[r]) \in 1..Len(effect)
        BY <2>10, DropTyping DEF SettleUnsaved, Shape
    <3>2. Lists1'
      <4>1. \A q \in Runners : q # r => arg'[q] = arg[q]
          BY <2>10 DEF SettleUnsaved, TypeOK
      <4>2. CASE todo' = [todo EXCEPT ![r] = Tail(@)] /\ pc' = [pc EXCEPT ![r] = "looping"]
          BY <1>5, <3>1, <4>1, <4>2
      <4>3. CASE UNCHANGED todo /\ pc' = [pc EXCEPT ![r] = "sleeping"]
        <5>1. ASSUME NEW q \in Runners, q # r
              PROVE  pc'[q] = pc[q] /\ todo'[q] = todo[q] /\ arg'[q] = arg[q]
            BY <4>1, <4>3, <5>1 DEF TypeOK
        <5>2. pc'[r] = "sleeping" /\ todo'[r] = todo[r]
            BY <4>3 DEF TypeOK
        <5>3. ASSUME NEW q \in Runners
              PROVE  /\ AtWork(q)' \/ pc'[q] = "sleeping" => todo'[q] # <<>>
                     /\ AtWork(q)' => arg'[q] # None
                     /\ Distinct(todo'[q])
          <6>1. CASE q = r
              BY <3>1, <5>2, <6>1 DEF Shape
          <6>2. CASE q # r
              BY <5>1, <6>2 DEF Shape
          <6> QED BY <6>1, <6>2
        <5> QED BY <5>3
      <4> QED BY <2>10, <4>2, <4>3 DEF SettleUnsaved
    <3>3. Home'
      <4>1. /\ \A k \in Keys : queue'[k] # None => queue'[k] = queue[k]
          BY <2>10 DEF SettleUnsaved, Pop, TypeOK
      <4>2. \A o \in 1..Len(effect) : effect'[o].key = effect[o].key
        <5>1. Retried(Head(todo[r])).key = effect[Head(todo[r])].key
            BY <3>1, Objects DEF Retried, Effect
        <5>2. \/ effect' = effect
              \/ effect' = [effect EXCEPT ![Head(todo[r])] = Retried(Head(todo[r]))]
            BY <2>10 DEF SettleUnsaved
        <5> QED BY <3>1, <5>1, <5>2, Objects
      <4> QED BY <4>1, <4>2, Objects DEF Pending, Shape
    <3> QED BY <3>2, <3>3 DEF Shape
  <2>6. CASE HandlerBacksOff(r)
    <3>1. todo[r] # <<>>
        BY <2>6 DEF HandlerBacksOff, Shape
    <3>2. Lists1'
        BY <2>6, <3>1 DEF HandlerBacksOff, Shape, TypeOK
    <3>3. Home'
      <4>1. /\ Head(todo[r]) \in 1..Len(effect) /\ effect[Head(todo[r])] \in Effect
            /\ effect' = [effect EXCEPT ![Head(todo[r])] = Retried(Head(todo[r]))]
          BY <2>6, <3>1, DropTyping DEF HandlerBacksOff
      <4>2. Retried(Head(todo[r])).key = effect[Head(todo[r])].key
          BY <4>1 DEF Retried, Effect
      <4> QED BY <1>4, <2>6, <4>1, <4>2 DEF HandlerBacksOff
    <3> QED BY <3>2, <3>3 DEF Shape
  <2>7. CASE HandlerFails(r)
      BY <1>6, <2>7 DEF HandlerFails, Shape
  <2>8. CASE Wake(r)
    <3>1. Lists1'
      <4>1. todo[r] # <<>>
          BY <2>8 DEF Wake, Shape
      <4> QED BY <1>5, <2>8, <4>1 DEF Wake
    <3> QED BY <2>8, <3>1 DEF Wake, Shape, Pending
  <2> QED BY <1>7, <2>1, <2>2, <2>3, <2>4, <2>5, <2>6, <2>7, <2>8, <2>9, <2>10 DEF Run
<1>8. ASSUME NEW o \in 1..Len(effect), Elapse(o) PROVE Shape'
  <2>1. Home'
    <3>1. [effect[o] EXCEPT !.due = "elapsed"].key = effect[o].key
        BY Objects DEF Effect
    <3> QED BY <1>4, <1>8, <3>1 DEF Elapse
  <2> QED BY <1>8, <2>1 DEF Elapse, Shape, runner
<1>9. CASE Crash
    BY <1>9 DEF Crash, Shape, Pending
<1>10. CASE RecoveryEnds
    BY <1>10 DEF RecoveryEnds, Shape, Pending, runner
<1>11. ASSUME NEW k \in Keys, Submit(k) \/ Requeue(k) PROVE Shape'
  <2>1. CASE Submit(k)
      BY <1>1, <2>1 DEF Submit, TypeOK, Payloads
  <2>2. CASE Requeue(k)
      BY <1>1, <2>2 DEF Requeue, TypeOK
  <2> QED BY <1>11, <2>1, <2>2
<1> QED BY <1>7, <1>8, <1>9, <1>10, <1>11 DEF Next

-----------------------------------------------------------------------------
(* PendingIsSaved and LeavesCounted *)

LEMMA StepSaved ==
    ASSUME TypeOK, Shape, PendingIsSaved, Next, TypeOK'
    PROVE  PendingIsSaved'
<1>1. ASSUME disk' = Rows(queue', effect') PROVE PendingIsSaved'
    BY <1>1 DEF Rows, PendingIsSaved, Pending
<1>2. ASSUME \A k \in Keys : queue'[k] # None => queue'[k] = queue[k],
             \A o \in 1..Len(effect) : effect'[o].payload = effect[o].payload,
             disk' = disk, unsaved \subseteq unsaved'
      PROVE  PendingIsSaved'
    BY <1>2, Objects DEF PendingIsSaved, Pending
<1>3. ASSUME NEW o \in 1..Len(effect), Pop(o)
      PROVE  \A k \in Keys : queue'[k] # None => queue'[k] = queue[k]
    BY <1>3 DEF Pop, TypeOK
<1>4. ASSUME NEW k \in Keys, NEW p \in Payloads, Enqueue(k, p) PROVE PendingIsSaved'
  <2>1. CASE Save(queue', effect')
      BY <1>1, <2>1 DEF Save, Persist
  <2>2. CASE SaveRaises(p)
    <3>0. disk' = disk /\ unsaved \subseteq unsaved' /\ p \in unsaved'
        BY <2>2 DEF SaveRaises
    <3>1. CASE Merge(k, p)
      <4>1. queue' = queue /\ \A o \in 1..Len(effect) : effect'[o].payload \in {effect[o].payload, p}
          BY <3>1, Objects DEF Merge, Effect
      <4> QED BY <3>0, <4>1, Objects DEF PendingIsSaved, Pending
    <3>2. CASE Insert(k, p)
      <4>1. /\ Len(effect') = Len(effect) + 1 /\ effect'[Len(effect')].payload = p
            /\ \A o \in 1..Len(effect) : effect'[o] = effect[o]
            /\ queue' = [queue EXCEPT ![k] = Len(effect')]
          BY <3>2, Objects DEF Insert
      <4>2. ASSUME NEW l \in Pending'
            PROVE  disk'[l] = effect'[queue'[l]].payload \/ effect'[queue'[l]].payload \in unsaved'
        <5>1. CASE l = k
            BY <3>0, <4>1, <5>1 DEF TypeOK, Pending
        <5>2. CASE l # k
          <6>1. queue'[l] = queue[l] /\ l \in Pending /\ queue[l] \in 1..Len(effect)
              BY <4>1, <4>2, <5>2, Objects DEF Pending, TypeOK
          <6> QED BY <3>0, <4>1, <6>1 DEF PendingIsSaved
        <5> QED BY <5>1, <5>2
      <4> QED BY <4>2 DEF PendingIsSaved
    <3> QED BY <1>4, <3>1, <3>2 DEF Enqueue
  <2> QED BY <1>4, <2>1, <2>2 DEF Enqueue
<1>5. ASSUME NEW k \in Keys, Submit(k) \/ Requeue(k) PROVE PendingIsSaved'
  <2>1. CASE Submit(k)
      BY <1>4, <2>1 DEF Submit, TypeOK, Payloads
  <2>2. CASE Requeue(k)
      BY <1>4, <2>2 DEF Requeue, TypeOK
  <2> QED BY <1>5, <2>1, <2>2
<1>6. ASSUME NEW r \in Runners, Run(r) PROVE PendingIsSaved'
  <2>1. CASE StartRun(r) \/ EndRun(r) \/ CallHandler(r) \/ HandlerReturns(r) \/ Wake(r)
      BY <1>2, <2>1 DEF StartRun, EndRun, CallHandler, HandlerReturns, Wake, saving
  <2>2. CASE NoHandler(r) \/ HandlerFails(r)
    <3>1. Head(todo[r]) \in 1..Len(effect)
        BY <2>2, DropTyping DEF NoHandler, AtEffect, HandlerFails, Shape, AtWork
    <3> QED BY <1>2, <1>3, <2>2, <3>1 DEF NoHandler, HandlerFails, FinishFailed, saving
  <2>3. CASE Settle(r)
      BY <1>1, <2>3 DEF Settle, Save, Persist
  <2>4. CASE HandlerBacksOff(r) \/ SettleUnsaved(r)
    <3>1. Head(todo[r]) \in 1..Len(effect)
        BY <2>4, DropTyping DEF HandlerBacksOff, SettleUnsaved, Shape, AtWork
    <3>2. Retried(Head(todo[r])).payload = effect[Head(todo[r])].payload
        BY <3>1, Objects DEF Retried, Effect
    <3>3. \/ effect' = effect
          \/ effect' = [effect EXCEPT ![Head(todo[r])] = Retried(Head(todo[r]))]
        BY <2>4 DEF HandlerBacksOff, SettleUnsaved
    <3>4. \A o \in 1..Len(effect) : effect'[o].payload = effect[o].payload
        BY <3>1, <3>2, <3>3, Objects
    <3>5. /\ disk' = disk /\ unsaved \subseteq unsaved'
          /\ UNCHANGED queue \/ Pop(Head(todo[r]))
        BY <2>4 DEF HandlerBacksOff, SettleUnsaved, SaveRaises, saving
    <3> QED BY <1>2, <1>3, <3>1, <3>4, <3>5
  <2> QED BY <1>6, <2>1, <2>2, <2>3, <2>4 DEF Run
<1>7. ASSUME NEW o \in 1..Len(effect), Elapse(o) PROVE PendingIsSaved'
  <2>1. \A e \in 1..Len(effect) : effect'[e].payload = effect[e].payload
      BY <1>7, Objects DEF Elapse, Effect
  <2> QED BY <1>2, <1>7, <2>1 DEF Elapse, saving
<1>8. CASE Crash
    BY <1>8 DEF Crash, PendingIsSaved, Pending
<1>9. CASE RecoveryEnds
    BY <1>2, <1>9 DEF RecoveryEnds, saving
<1> QED BY <1>5, <1>6, <1>7, <1>8, <1>9 DEF Next

\* Every pop is counted for the object that the runner holds, by the step that makes
\* it.  If it hits a younger object, the one that the runner holds had left before.
LEMMA StepCounted ==
    ASSUME TypeOK, Shape, PendingCounted, Next, TypeOK'
    PROVE  PendingCounted'
<1> USE DEF PendingCounted
<1> DEFINE Made == DOMAIN effect
           Left(o) == \/ counted[o] > 0
                      \/ \E e \in 1..(o - 1) : effect[e].key = effect[o].key /\ counted[e] > 1
<1>0. /\ Len(effect) \in Nat /\ Made = 1..Len(effect) /\ Made' = 1..Len(effect')
      /\ \A o \in Made : counted[o] \in Nat
      /\ queue \in [Keys -> 0..Len(effect)]
      /\ \A o \in Made : effect[o].key \in Keys
  <2>1. Made' = 1..Len(effect')
      BY LenProperties DEF TypeOK
  <2>2. \A o \in Made : counted[o] \in Nat
      BY Objects, ElementOfSeq DEF TypeOK
  <2> QED BY <2>1, <2>2, Objects DEF Effect
<1>1. ASSUME Len(effect') = Len(effect), \A o \in Made : effect'[o].key = effect[o].key,
             UNCHANGED <<queue, counted>>
      PROVE  PendingCounted'
  <2>1. YoungestStored'
      BY <1>0, <1>1 DEF YoungestStored, Pending
  <2>2. LeavesCounted'
    <3>1. ASSUME NEW o \in Made, queue[effect[o].key] # o PROVE Left(o)'
      <4>1. Left(o)
          BY <3>1 DEF LeavesCounted
      <4>2. \A e \in 1..(o - 1) : e \in Made
          BY <1>0
      <4> QED BY <1>1, <4>1, <4>2
    <3> QED BY <1>0, <1>1, <3>1 DEF LeavesCounted
  <2> QED BY <2>1, <2>2
<1>2. ASSUME NEW h \in Made, Pop(h), NEW n \in Nat \ {0},
             counted' = [counted EXCEPT ![h] = @ + n],
             Len(effect') = Len(effect), \A o \in Made : effect'[o].key = effect[o].key
      PROVE  PendingCounted'
  <2>1. \A k \in Keys : queue'[k] = IF k = effect[h].key THEN None ELSE queue[k]
      BY <1>0, <1>2 DEF Pop
  <2>2. YoungestStored'
      BY <1>0, <1>2, <2>1 DEF YoungestStored, Pending
  <2>3. /\ counted'[h] = counted[h] + n
        /\ \A o \in Made : counted'[o] >= counted[o] /\ counted'[o] \in Nat
    <3>0. DOMAIN counted = Made
        BY <1>0, LenProperties DEF TypeOK
    <3>1. \A o \in Made : counted'[o] = IF o = h THEN counted[o] + n ELSE counted[o]
        BY <1>2, <3>0
    <3> QED BY <1>0, <3>1
  <2>4. ASSUME NEW o \in Made, Left(o) PROVE Left(o)'
    <3>1. \A e \in 1..(o - 1) : e \in Made
        BY <1>0
    <3>2. CASE counted[o] > 0
        BY <1>0, <2>3, <3>2
    <3>3. CASE \E e \in 1..(o - 1) : effect[e].key = effect[o].key /\ counted[e] > 1
      <4>1. PICK e \in 1..(o - 1) : effect[e].key = effect[o].key /\ counted[e] > 1
          BY <3>3
      <4>2. effect'[e].key = effect'[o].key /\ counted'[e] > 1
          BY <1>0, <1>2, <2>3, <3>1, <4>1
      <4> QED BY <4>2
    <3> QED BY <2>4, <3>2, <3>3
  <2>5. ASSUME NEW o \in Made, queue'[effect[o].key] # o PROVE Left(o)'
    <3>1. CASE queue[effect[o].key] # o
        BY <2>4, <3>1 DEF LeavesCounted
    <3>2. CASE o = h
        BY <1>0, <2>3, <3>2
    <3>3. CASE queue[effect[o].key] = o /\ o # h
      <4>1. effect[h].key = effect[o].key
          BY <1>0, <2>1, <2>5, <3>3
      <4>2. effect[o].key \in Pending
          BY <1>0, <3>3 DEF Pending, None
      <4>3. h <= o
          BY <1>0, <3>3, <4>1, <4>2 DEF YoungestStored
      <4>4. h \in 1..(o - 1)
          BY <1>0, <3>3, <4>3
      <4>5. Left(h)
          BY <3>3, <4>1 DEF LeavesCounted
      <4>6. CASE counted[h] > 0
        <5>1. counted'[h] > 1 /\ effect'[h].key = effect'[o].key
            BY <1>0, <1>2, <2>3, <4>1, <4>6
        <5> QED BY <4>4, <5>1
      <4>7. CASE \E e \in 1..(h - 1) : effect[e].key = effect[h].key /\ counted[e] > 1
        <5>1. PICK e \in 1..(h - 1) : effect[e].key = effect[h].key /\ counted[e] > 1
            BY <4>7
        <5>2. e \in 1..(o - 1) /\ e \in Made
            BY <1>0, <4>4, <5>1
        <5>3. counted'[e] > 1 /\ effect'[e].key = effect'[o].key
            BY <1>0, <1>2, <2>3, <4>1, <5>1, <5>2
        <5> QED BY <5>2, <5>3
      <4> QED BY <4>5, <4>6, <4>7
    <3> QED BY <3>1, <3>2, <3>3
  <2>6. LeavesCounted'
      BY <1>0, <1>2, <2>5 DEF LeavesCounted
  <2> QED BY <2>2, <2>6
<1>3. ASSUME NEW k \in Keys, Submit(k) \/ Requeue(k) PROVE PendingCounted'
  <2>1. ASSUME NEW p, Merge(k, p) PROVE PendingCounted'
    <3>1. Len(effect') = Len(effect) /\ \A o \in Made : effect'[o].key = effect[o].key
        BY <2>1, Objects DEF Merge, Effect
    <3> QED BY <1>1, <2>1, <3>1 DEF Merge
  <2>2. ASSUME NEW p, Insert(k, p) PROVE PendingCounted'
    <3>1. /\ Len(effect') = Len(effect) + 1 /\ effect'[Len(effect')].key = k
          /\ \A o \in Made : effect'[o] = effect[o]
        BY <2>2, Objects DEF Insert
    <3>2. /\ queue[k] = None /\ \A l \in Keys : queue'[l] = IF l = k THEN Len(effect') ELSE queue[l]
        BY <1>0, <2>2 DEF Insert
    <3>3. \A o \in Made : counted'[o] = counted[o]
        BY <1>0, <2>2 DEF Insert, TypeOK
    <3>4. YoungestStored'
      <4>1. ASSUME NEW l \in Pending', NEW o \in Made', effect'[o].key = l PROVE o <= queue'[l]
        <5>1. CASE l = k
            BY <1>0, <3>1, <3>2, <4>1, <5>1
        <5>2. CASE l # k
          <6>1. o \in Made /\ l \in Pending /\ effect[o].key = l
              BY <1>0, <3>1, <3>2, <4>1, <5>2 DEF Pending
          <6> QED BY <3>2, <5>2, <6>1 DEF YoungestStored, Pending
        <5> QED BY <5>1, <5>2
      <4> QED BY <4>1 DEF YoungestStored
    <3>5. ASSUME NEW o \in Made', queue'[effect'[o].key] # o PROVE Left(o)'
      <4>1. o \in Made /\ effect'[o] = effect[o] /\ queue[effect[o].key] # o
          BY <1>0, <3>1, <3>2, <3>5, Objects DEF None
      <4>2. Left(o)
          BY <4>1 DEF LeavesCounted
      <4>3. \A e \in 1..(o - 1) : e \in Made
          BY <1>0, <4>1
      <4> QED BY <3>1, <3>3, <4>1, <4>2, <4>3
    <3>6. LeavesCounted'
        BY <3>5 DEF LeavesCounted
    <3> QED BY <3>4, <3>6
  <2> QED BY <1>3, <2>1, <2>2 DEF Submit, Requeue, Enqueue
<1>4. ASSUME NEW r \in Runners, Run(r) PROVE PendingCounted'
  <2>1. CASE StartRun(r) \/ EndRun(r) \/ CallHandler(r) \/ HandlerReturns(r) \/ Wake(r)
      BY <1>1, <2>1 DEF StartRun, EndRun, CallHandler, HandlerReturns, Wake
  <2>2. CASE NoHandler(r) \/ HandlerFails(r) \/ Settle(r)
    <3>1. Head(todo[r]) \in Made
        BY <1>0, <2>2, DropTyping DEF NoHandler, AtEffect, HandlerFails, Settle, Shape, AtWork
    <3>2. /\ Pop(Head(todo[r])) /\ UNCHANGED effect
          /\ counted' = [counted EXCEPT ![Head(todo[r])] = @ + 1]
        BY <2>2 DEF NoHandler, HandlerFails, FinishFailed, CountFailure, Settle
    <3>3. PICK h \in Made : h = Head(todo[r])
        BY <3>1
    <3>4. PICK n \in Nat \ {0} : n = 1
        OBVIOUS
    <3>5. /\ Pop(h) /\ counted' = [counted EXCEPT ![h] = @ + n]
          /\ Len(effect') = Len(effect) /\ \A o \in Made : effect'[o].key = effect[o].key
        BY <3>2, <3>3, <3>4
    <3> QED BY <1>2, <3>5
  <2>3. CASE SettleUnsaved(r)
    <3>1. Head(todo[r]) \in Made
        BY <1>0, <2>3, DropTyping DEF SettleUnsaved, Shape, AtWork
    <3>2. Len(effect') = Len(effect) /\ \A o \in Made : effect'[o].key = effect[o].key
      <4>1. Retried(Head(todo[r])).key = effect[Head(todo[r])].key
          BY <1>0, <3>1, Objects DEF Retried, Effect
      <4>2. \/ effect' = effect
            \/ effect' = [effect EXCEPT ![Head(todo[r])] = Retried(Head(todo[r]))]
          BY <2>3 DEF SettleUnsaved
      <4> QED BY <3>1, <4>1, <4>2, Objects
    <3>3. PICK n \in Nat \ {0} : counted' = [counted EXCEPT ![Head(todo[r])] = @ + n]
        BY <2>3 DEF SettleUnsaved
    <3>4. Pop(Head(todo[r]))
        BY <2>3 DEF SettleUnsaved
    <3>5. PICK h \in Made : h = Head(todo[r])
        BY <3>1
    <3> QED BY <1>2, <3>2, <3>3, <3>4, <3>5
  <2>4. CASE HandlerBacksOff(r)
    <3>1. Head(todo[r]) \in Made
        BY <1>0, <2>4, DropTyping DEF HandlerBacksOff, Shape, AtWork
    <3>2. Retried(Head(todo[r])).key = effect[Head(todo[r])].key
        BY <1>0, <3>1, Objects DEF Retried, Effect
    <3>3. Len(effect') = Len(effect) /\ \A o \in Made : effect'[o].key = effect[o].key
        BY <2>4, <3>1, <3>2, Objects DEF HandlerBacksOff
    <3> QED BY <1>1, <2>4, <3>3 DEF HandlerBacksOff
  <2> QED BY <1>4, <2>1, <2>2, <2>3, <2>4 DEF Run
<1>5. ASSUME NEW o \in 1..Len(effect), Elapse(o) PROVE PendingCounted'
  <2>1. Len(effect') = Len(effect) /\ \A e \in Made : effect'[e].key = effect[e].key
      BY <1>5, Objects DEF Elapse, Effect
  <2> QED BY <1>1, <1>5, <2>1 DEF Elapse
<1>6. CASE Crash
    BY <1>6 DEF Crash, Pending, YoungestStored, LeavesCounted
<1>7. CASE RecoveryEnds
    BY <1>1, <1>7 DEF RecoveryEnds
<1> QED BY <1>3, <1>4, <1>5, <1>6, <1>7 DEF Next

-----------------------------------------------------------------------------
(* RunsBounded *)

LEMMA SubsetsOfRunners ==
    ASSUME NEW S, NEW T, S \subseteq T, T \subseteq Runners
    PROVE  /\ IsFiniteSet(S) /\ IsFiniteSet(T)
           /\ Cardinality(S) \in Nat /\ Cardinality(T) \in Nat
           /\ Cardinality(S) <= Cardinality(T)
<1>1. IsFiniteSet(T)
    BY FS_Subset, QueueConstants
<1>2. IsFiniteSet(S) /\ Cardinality(S) <= Cardinality(T)
    BY <1>1, FS_Subset
<1> QED BY <1>1, <1>2, FS_CardinalityType

\* A popped effect is stored under no key.
LEMMA PoppedIsNotStored ==
    ASSUME TypeOK, Shape, NEW o \in 1..Len(effect), Pop(o)
    PROVE  /\ \A e \in 1..Len(effect) : Stored(e)' => Stored(e)
           /\ ~Stored(o)'
<1>1. \A k \in Keys : queue'[k] = IF k = effect[o].key THEN None ELSE queue[k]
    BY DEF Pop, TypeOK
<1>2. \A k \in Keys : queue[k] # None => effect[queue[k]].key = k
    BY DEF Shape, Pending
<1> QED BY <1>1, <1>2 DEF Stored, None

\* Neither dropping the effect at hand nor taking up a list of stored effects makes
\* a runner able to run again what it has spent.
LEMMA DroppedIsNotListed ==
    ASSUME TypeOK, Shape, NEW r \in Runners, todo[r] # <<>>,
           NEW h, h = Head(todo[r]), todo' = [todo EXCEPT ![r] = Tail(@)]
    PROVE  /\ \A o : \A x \in Runners : Lists(x, o)' => Lists(x, o)
           /\ ~Lists(r, h)'
<1>1. todo[r] \in Seq(1..Len(effect)) /\ todo'[r] = Tail(todo[r])
      /\ \A x \in Runners \ {r} : todo'[x] = todo[x]
    BY DEF TypeOK
<1>2. /\ 1 \in DOMAIN todo[r] /\ Head(todo[r]) = todo[r][1]
      /\ \A i \in DOMAIN Tail(todo[r]) :
            i + 1 \in DOMAIN todo[r] /\ Tail(todo[r])[i] = todo[r][i + 1]
    BY <1>1, HeadAndTail
<1>3. \A i \in DOMAIN Tail(todo[r]) : i \in Nat \ {0}
  <2>1. Tail(todo[r]) \in Seq(1..Len(effect))
      BY <1>1, HeadTailProperties
  <2> QED BY <2>1, LenProperties
<1>4. \A o : \A x \in Runners : Lists(x, o)' => Lists(x, o)
    BY <1>1, <1>2 DEF Lists
<1>5. \A i \in DOMAIN Tail(todo[r]) : todo[r][1] # todo[r][i + 1]
    BY <1>2, <1>3 DEF Shape
<1>6. \A i \in DOMAIN todo'[r] : todo'[r][i] # h
  <2>1. ASSUME NEW i \in DOMAIN Tail(todo[r]) PROVE Tail(todo[r])[i] # h
    <3>1. Tail(todo[r])[i] = todo[r][i + 1] /\ todo[r][1] # todo[r][i + 1]
        BY <1>2, <1>5
    <3>2. h = todo[r][1]
        BY <1>2
    <3> QED BY <3>1, <3>2
  <2> QED BY <1>1, <2>1
<1> QED BY <1>4, <1>6 DEF Lists

LEMMA StepRuns ==
    ASSUME TypeOK, Shape, RunsCounted, Next, TypeOK'
    PROVE  RunsCounted'
<1> USE DEF AtWork
<1> DEFINE Counted(o) == runs[o] <= effect[o].attempts + Cardinality(Spent(o))
<1>0. /\ DOMAIN runs = 1..Len(effect) /\ \A o \in 1..Len(effect) : runs[o] \in Nat
      /\ \A o \in 1..Len(effect) : effect[o].attempts \in Nat /\ Counted(o)
  <2>1. DOMAIN runs = 1..Len(effect)
      BY LenProperties DEF TypeOK
  <2>2. \A o \in 1..Len(effect) : runs[o] \in Nat
      BY <2>1, ElementOfSeq DEF TypeOK
  <2>3. \A o \in 1..Len(effect) : effect[o].attempts \in Nat
      BY Objects, QueueConstants DEF Effect
  <2> QED BY <2>1, <2>2, <2>3 DEF RunsCounted
<1>1. DOMAIN runs' = 1..Len(effect')
    BY LenProperties DEF TypeOK
<1>2. \A o : Spent(o) \subseteq Runners /\ Spent(o)' \subseteq Runners
    BY DEF Spent
<1>3. ASSUME NEW o \in 1..Len(effect), Spent(o) \subseteq Spent(o)', runs'[o] = runs[o],
             effect'[o].attempts = effect[o].attempts
      PROVE  Counted(o)'
  <2>1. /\ Cardinality(Spent(o)) \in Nat /\ Cardinality(Spent(o)') \in Nat
        /\ Cardinality(Spent(o)) <= Cardinality(Spent(o)')
      BY <1>2, <1>3, SubsetsOfRunners
  <2> QED BY <1>0, <1>3, <2>1
<1>4. ASSUME UNCHANGED <<runs, effect>>,
             \A o \in 1..Len(effect) : Spent(o) \subseteq Spent(o)'
      PROVE  RunsCounted'
    BY <1>1, <1>3, <1>4 DEF RunsCounted
<1>5. ASSUME NEW k \in Keys, Submit(k) \/ Requeue(k) PROVE RunsCounted'
  <2>0. UNCHANGED <<pc, todo>>
      BY <1>5 DEF Submit, Requeue, Enqueue, runner
  <2>1. ASSUME NEW p, Merge(k, p) PROVE RunsCounted'
    <3>1. /\ UNCHANGED <<queue, runs>> /\ Len(effect') = Len(effect)
          /\ \A o \in 1..Len(effect) : effect'[o].attempts = effect[o].attempts
        BY <2>1, Objects DEF Merge, Effect
    <3>2. \A o : Spent(o)' = Spent(o)
        BY <2>0, <3>1 DEF Spent, Stored, Lists
    <3> QED BY <1>0, <1>1, <1>3, <3>1, <3>2 DEF RunsCounted
  <2>2. ASSUME NEW p, Insert(k, p) PROVE RunsCounted'
    <3>1. /\ Len(effect') = Len(effect) + 1 /\ effect'[Len(effect')].attempts = 0
          /\ \A o \in 1..Len(effect) : effect'[o] = effect[o]
        BY <2>2, Objects DEF Insert
    <3>2. runs'[Len(effect')] = 0 /\ \A o \in 1..Len(effect) : runs'[o] = runs[o]
        BY <2>2, <3>1 DEF Insert, TypeOK
    <3>3. \A o \in 1..Len(effect) : Stored(o)' => Stored(o)
        BY <2>2, <3>1, Objects DEF Insert, Stored
    <3>4. \A o \in 1..Len(effect) : Spent(o) \subseteq Spent(o)'
        BY <2>0, <3>3 DEF Spent, Lists
    <3>5. ASSUME NEW o, o = Len(effect') PROVE Counted(o)'
      <4>1. Cardinality(Spent(o)') \in Nat
          BY <1>2, SubsetsOfRunners
      <4> QED BY <3>1, <3>2, <3>5, <4>1
    <3>6. \A o \in 1..Len(effect) : Counted(o)'
        BY <1>3, <3>1, <3>2, <3>4
    <3> QED BY <1>1, <3>1, <3>5, <3>6, Objects DEF RunsCounted
  <2> QED BY <1>5, <2>1, <2>2 DEF Submit, Requeue, Enqueue
<1>6. ASSUME NEW r \in Runners, Run(r) PROVE RunsCounted'
  <2>0. PICK h : h = Head(todo[r])
      OBVIOUS
  <2>1. CASE StartRun(r)
    <3>1. PICK s \in DueLists : todo' = [todo EXCEPT ![r] = s]
        BY <2>1 DEF StartRun
    <3>2. \A i \in DOMAIN s : Stored(s[i])
        BY <3>1, DueListsAreStored
    <3>3. \A o : Spent(o) \subseteq Spent(o)'
        BY <2>1, <3>1, <3>2 DEF StartRun, Spent, Lists, Stored, TypeOK
    <3> QED BY <1>4, <2>1, <3>3 DEF StartRun
  <2>2. CASE EndRun(r)
    <3>1. \A o : Spent(o) \subseteq Spent(o)'
        BY <2>2 DEF EndRun, Spent, Lists, Stored, TypeOK
    <3> QED BY <1>4, <2>2, <3>1 DEF EndRun
  <2>3. ASSUME todo[r] # <<>>, todo' = [todo EXCEPT ![r] = Tail(@)],
               pc' = [pc EXCEPT ![r] = "looping"], UNCHANGED <<runs, effect>>,
               \/ Pop(h)
               \/ pc[r] = "sleeping" /\ UNCHANGED queue
        PROVE  RunsCounted'
    <3>1. /\ \A o : \A x \in Runners : Lists(x, o)' => Lists(x, o)
          /\ ~Lists(r, h)'
        BY <2>0, <2>3, DroppedIsNotListed
    <3>2. h \in 1..Len(effect)
        BY <2>0, <2>3, DropTyping
    <3>3. /\ \A o \in 1..Len(effect) : Stored(o)' => Stored(o)
          /\ AtWork(r) => ~Stored(h)'
        BY <2>3, <3>2, PoppedIsNotStored DEF Stored
    <3>4. ASSUME NEW o \in 1..Len(effect), NEW x \in Spent(o) PROVE x \in Spent(o)'
      <4>1. CASE x # r
        <5>1. pc'[x] = pc[x] /\ todo'[x] = todo[x]
            BY <2>3, <3>4, <4>1 DEF Spent, TypeOK
        <5> QED BY <3>1, <3>3, <3>4, <5>1 DEF Spent
      <4>2. CASE x = r /\ AtWork(r) /\ o = h
          BY <3>1, <3>3, <3>4, <4>2 DEF Spent
      <4>3. CASE ~Stored(o) /\ ~Lists(x, o)
          BY <3>1, <3>3, <3>4, <4>3 DEF Spent
      <4> QED BY <2>0, <3>4, <4>1, <4>2, <4>3 DEF Spent
    <3> QED BY <1>4, <2>3, <3>4
  <2>4. CASE NoHandler(r) \/ HandlerFails(r) \/ Settle(r) \/ Wake(r)
    <3>1. todo[r] # <<>>
        BY <2>4 DEF NoHandler, AtEffect, HandlerFails, Settle, Wake, Shape
    <3> QED BY <2>0, <2>3, <2>4, <3>1 DEF NoHandler, HandlerFails, Settle, FinishFailed, Wake
  <2>7. CASE HandlerReturns(r)
    <3>1. \A o : Spent(o) \subseteq Spent(o)'
        BY <2>7 DEF HandlerReturns, Spent, Lists, Stored, TypeOK
    <3> QED BY <1>4, <2>7, <3>1 DEF HandlerReturns
  <2>5. CASE CallHandler(r)
    <3>1. h \in 1..Len(effect) /\ pc[r] = "looping" /\ Lists(r, h)
      <4>1. todo[r] # <<>> /\ pc[r] = "looping"
          BY <2>5 DEF CallHandler, AtEffect
      <4>2. todo[r] \in Seq(1..Len(effect))
          BY DEF TypeOK
      <4> QED BY <2>0, <4>1, <4>2, HeadAndTail DEF Lists
    <3>2. /\ UNCHANGED <<queue, effect, todo>> /\ pc' = [pc EXCEPT ![r] = "handling"]
          /\ runs' = [runs EXCEPT ![h] = @ + 1]
        BY <2>0, <2>5 DEF CallHandler
    <3>3. \A o : Spent(o) \subseteq Spent(o)'
        BY <2>0, <3>1, <3>2 DEF Spent, Lists, Stored, TypeOK
    <3>4. \A o \in 1..Len(effect) \ {h} : Counted(o)'
        BY <1>0, <1>3, <3>2, <3>3
    <3>5. Counted(h)'
      <4>1. Spent(h)' = Spent(h) \cup {r} /\ r \notin Spent(h)
          BY <2>0, <3>1, <3>2 DEF Spent, Lists, Stored, TypeOK
      <4>2. IsFiniteSet(Spent(h)) /\ Cardinality(Spent(h)) \in Nat
          BY <1>2, SubsetsOfRunners
      <4>3. Cardinality(Spent(h)') = Cardinality(Spent(h)) + 1
          BY <4>1, <4>2, FS_AddElement
      <4>4. runs'[h] = runs[h] + 1 /\ effect'[h].attempts = effect[h].attempts
          BY <1>0, <3>1, <3>2
      <4> QED BY <1>0, <3>1, <4>2, <4>3, <4>4
    <3> QED BY <1>1, <3>2, <3>4, <3>5 DEF RunsCounted
  <2>6. ASSUME UNCHANGED <<runs, todo>>, pc' = [pc EXCEPT ![r] = "sleeping"], AtWork(r),
               effect' = [effect EXCEPT ![h] = Retried(h)],
               Pop(h) \/ UNCHANGED queue
        PROVE  RunsCounted'
    <3>1. h \in 1..Len(effect) /\ effect[h] \in Effect
        BY <2>0, <2>6, DropTyping DEF Shape
    <3>2. \A o \in 1..Len(effect) : Stored(o)' => Stored(o)
        BY <2>6, <3>1, PoppedIsNotStored DEF Stored
    <3>3. Retried(h).attempts = effect[h].attempts + 1
        BY <3>1 DEF Retried, Effect
    <3>4. /\ Len(effect') = Len(effect) /\ effect'[h] = Retried(h)
          /\ \A o \in 1..Len(effect) \ {h} : effect'[o] = effect[o]
        BY <2>6, <3>1, Objects
    <3>5. \A o \in 1..Len(effect) \ {h} : Spent(o) \subseteq Spent(o)'
        BY <2>0, <2>6, <3>2 DEF Spent, Lists, TypeOK
    <3>6. \A o \in 1..Len(effect) \ {h} : Counted(o)'
        BY <1>3, <2>6, <3>4, <3>5
    <3>7. Counted(h)'
      <4>1. Spent(h) \ {r} \subseteq Spent(h)'
          BY <2>0, <2>6, <3>1, <3>2 DEF Spent, Lists, TypeOK
      <4>2. /\ IsFiniteSet(Spent(h)) /\ Cardinality(Spent(h)) \in Nat
            /\ Cardinality(Spent(h)') \in Nat
            /\ Cardinality(Spent(h) \ {r}) <= Cardinality(Spent(h)')
            /\ Cardinality(Spent(h) \ {r}) \in Nat
          BY <1>2, <4>1, SubsetsOfRunners
      <4>3. Cardinality(Spent(h)) - 1 <= Cardinality(Spent(h) \ {r})
        <5>1. Cardinality(Spent(h) \ {r}) = IF r \in Spent(h) THEN Cardinality(Spent(h)) - 1
                                            ELSE Cardinality(Spent(h))
            BY <4>2, FS_RemoveElement
        <5> QED BY <4>2, <5>1
      <4>4. runs'[h] = runs[h] /\ effect'[h].attempts = effect[h].attempts + 1
          BY <2>6, <3>3, <3>4
      <4>5. \A m, a, c, d, e \in Nat : m <= a + c /\ c - 1 <= d /\ d <= e => m <= a + 1 + e
          OBVIOUS
      <4> QED BY <1>0, <3>1, <4>2, <4>3, <4>4, <4>5
    <3> QED BY <1>1, <3>4, <3>6, <3>7 DEF RunsCounted
  <2>8. CASE HandlerBacksOff(r)
      BY <2>0, <2>6, <2>8 DEF HandlerBacksOff
  <2>9. CASE SettleUnsaved(r)
    <3>1. CASE todo' = [todo EXCEPT ![r] = Tail(@)] /\ pc' = [pc EXCEPT ![r] = "looping"]
               /\ UNCHANGED effect
        BY <2>0, <2>3, <2>9, <3>1 DEF SettleUnsaved, Shape
    <3>2. CASE UNCHANGED todo /\ pc' = [pc EXCEPT ![r] = "sleeping"]
               /\ effect' = [effect EXCEPT ![h] = Retried(h)]
        BY <2>0, <2>6, <2>9, <3>2 DEF SettleUnsaved
    <3> QED BY <2>0, <2>9, <3>1, <3>2 DEF SettleUnsaved
  <2> QED BY <1>6, <2>1, <2>2, <2>4, <2>5, <2>7, <2>8, <2>9 DEF Run
<1>7. ASSUME NEW e \in 1..Len(effect), Elapse(e) PROVE RunsCounted'
  <2>1. \A o \in 1..Len(effect) : effect'[o].attempts = effect[o].attempts
      BY <1>7, Objects DEF Elapse, Effect
  <2>2. \A o : Spent(o)' = Spent(o)
      BY <1>7 DEF Elapse, runner, Spent, Stored, Lists
  <2>3. Len(effect') = Len(effect) /\ UNCHANGED runs
      BY <1>7, Objects DEF Elapse
  <2> QED BY <1>1, <1>3, <2>1, <2>2, <2>3 DEF RunsCounted
<1>8. CASE Crash
    BY <1>8 DEF Crash, RunsCounted
<1>9. CASE RecoveryEnds
  <2>1. \A o : Spent(o)' = Spent(o)
      BY <1>9 DEF RecoveryEnds, runner, Spent, Stored, Lists
  <2> QED BY <1>4, <1>9, <2>1 DEF RecoveryEnds
<1> QED BY <1>5, <1>6, <1>7, <1>8, <1>9 DEF Next

-----------------------------------------------------------------------------
(* SettledIsNotRecovered *)

\* A payload stays where it was unless it is the one that is enqueued, at its home.
LEMMA StepHome ==
    ASSUME TypeOK, Shape, OneHome, Next, TypeOK'
    PROVE  OneHome'
<1> USE DEF None, AtWork
<1>1. ASSUME submitted <= submitted',
             \A p \in Payloads : \A k \in Keys : Holds(k, p)' => Holds(k, p)
      PROVE  OneHome'
  <2>1. submitted \in Nat /\ submitted' \in Nat
      BY QueueConstants DEF TypeOK
  <2>2. ASSUME NEW p \in Payloads, NEW k \in Keys, Holds(k, p)'
        PROVE  p <= submitted' /\ \A l \in Keys : Holds(l, p)' => l = k
    <3>1. p <= submitted /\ \A l \in Keys : Holds(l, p) => l = k
        BY <1>1, <2>2 DEF OneHome
    <3> QED BY <1>1, <2>1, <3>1 DEF Payloads
  <2> QED BY <2>2 DEF OneHome
<1>2. ASSUME NEW k \in Keys, NEW q \in Payloads, Enqueue(k, q),
             \A l \in Keys : rows'[l] \in {rows[l], None}
      PROVE  \A p \in Payloads : \A l \in Keys : Holds(l, p)' => Holds(l, p) \/ (p = q /\ l = k)
  <2>0. UNCHANGED <<pc, todo, arg>>
      BY <1>2 DEF Enqueue, runner
  <2>1. ASSUME NEW o \in 1..Len(effect')
        PROVE  IF o \in 1..Len(effect)
               THEN /\ effect'[o].key = effect[o].key
                    /\ \/ effect'[o].payload = effect[o].payload
                       \/ effect'[o].payload = q /\ effect[o].key = k
               ELSE effect'[o].key = k /\ effect'[o].payload = q
    <3>1. CASE Merge(k, q)
      <4>1. queue[k] \in 1..Len(effect) /\ effect[queue[k]].key = k
          BY <3>1, Objects DEF Merge, Pending, Shape
      <4> QED BY <3>1, <4>1, Objects DEF Merge, Effect
    <3>2. CASE Insert(k, q)
        BY <3>2, Objects DEF Insert
    <3> QED BY <1>2, <3>1, <3>2 DEF Enqueue
  <2>2. \A l \in Keys : disk'[l] # None => disk'[l] = disk[l] \/
            (queue'[l] \in 1..Len(effect') /\ effect'[queue'[l]].payload = disk'[l])
    <3>1. disk' = Rows(queue', effect') \/ disk' = disk
        BY <1>2 DEF Enqueue, Save, SaveRaises, Persist
    <3>2. CASE disk' = disk
        BY <3>2
    <3>3. CASE disk' = Rows(queue', effect')
        BY <3>3 DEF TypeOK, Rows
    <3> QED BY <3>1, <3>2, <3>3
  <2>3. \A l \in Keys : queue'[l] \in 1..Len(effect') => effect'[queue'[l]].key = l
      BY StepShape DEF Shape, Pending
  <2>4. ASSUME NEW p \in Payloads, NEW l \in Keys, NEW o \in 1..Len(effect'),
               effect'[o].key = l, effect'[o].payload = p
        PROVE  Holds(l, p) \/ (p = q /\ l = k)
      BY <2>1, <2>4, Objects DEF Holds
  <2>5. ASSUME NEW p \in Payloads, NEW l \in Keys, NEW r \in Runners,
               AtWork(r)', arg'[r] = p, effect'[Head(todo'[r])].key = l
        PROVE  Holds(l, p)
    <3>1. Head(todo[r]) \in 1..Len(effect)
        BY <2>0, <2>5, DropTyping DEF Shape
    <3>2. effect'[Head(todo[r])].key = effect[Head(todo[r])].key
      <4>1. PICK o \in 1..Len(effect) : o = Head(todo[r])
          BY <3>1
      <4>2. o \in 1..Len(effect')
          BY <1>2, <4>1, EnqueueTyping, Objects
      <4> QED BY <2>1, <4>1, <4>2
    <3> QED BY <2>0, <2>5, <3>2 DEF Holds
  <2>6. DOMAIN effect' = 1..Len(effect')
      BY LenProperties DEF TypeOK
  <2>7. ASSUME NEW p \in Payloads, NEW l \in Keys, Holds(l, p)'
        PROVE  Holds(l, p) \/ (p = q /\ l = k)
    <3>0. p # None
        BY DEF Payloads
    <3>1. CASE \E o \in DOMAIN effect' : effect'[o].key = l /\ effect'[o].payload = p
        BY <2>4, <2>6, <3>1
    <3>2. CASE disk'[l] = p
        BY <2>2, <2>3, <2>4, <3>0, <3>2 DEF Holds
    <3>3. CASE rows'[l] = p
        BY <1>2, <3>0, <3>3 DEF Holds
    <3>4. CASE \E r \in Runners : AtWork(r)' /\ arg'[r] = p
                                   /\ effect'[Head(todo'[r])].key = l
        BY <2>5, <3>4
    <3> QED BY <2>7, <3>1, <3>2, <3>3, <3>4 DEF Holds
  <2> QED BY <2>7
<1>3. ASSUME NEW k \in Keys, Submit(k) PROVE OneHome'
  <2>0. submitted \in Nat /\ submitted' = submitted + 1 /\ submitted' \in Payloads
      BY <1>3 DEF Submit, TypeOK, Payloads
  <2>1. \A p \in Payloads : \A l \in Keys :
            Holds(l, p)' => Holds(l, p) \/ (p = submitted' /\ l = k)
      BY <1>2, <1>3, <2>0 DEF Submit
  <2>2. \A l \in Keys : ~Holds(l, submitted')
    <3>1. ~(submitted' <= submitted)
        BY <2>0
    <3> QED BY <2>0, <3>1 DEF OneHome
  <2>3. ASSUME NEW p \in Payloads, NEW l \in Keys, Holds(l, p)'
        PROVE  p <= submitted' /\ \A m \in Keys : Holds(m, p)' => m = l
    <3>1. CASE p = submitted'
      <4>1. \A m \in Keys : Holds(m, p)' => m = k
          BY <2>1, <2>2, <3>1
      <4> QED BY <2>0, <2>3, <3>1, <4>1
    <3>2. CASE p # submitted'
      <4>1. \A m \in Keys : Holds(m, p)' => Holds(m, p)
          BY <2>1, <3>2
      <4>2. p <= submitted /\ p \in Nat /\ \A m \in Keys : Holds(m, p) => m = l
          BY <2>3, <4>1 DEF OneHome, Payloads
      <4> QED BY <2>0, <4>1, <4>2
    <3> QED BY <3>1, <3>2
  <2> QED BY <2>3 DEF OneHome
<1>4. ASSUME NEW k \in Keys, Requeue(k) PROVE OneHome'
  <2>1. rows[k] \in Payloads /\ Enqueue(k, rows[k]) /\ submitted' = submitted
        /\ \A l \in Keys : rows'[l] \in {rows[l], None}
      BY <1>4 DEF Requeue, TypeOK
  <2>2. Holds(k, rows[k])
      BY DEF Holds
  <2>3. \A p \in Payloads : \A l \in Keys : Holds(l, p)' => Holds(l, p)
      BY <1>2, <2>1, <2>2
  <2>4. submitted <= submitted'
      BY <2>1 DEF TypeOK
  <2> QED BY <1>1, <2>3, <2>4
<1>5. ASSUME NEW r \in Runners, Run(r) PROVE OneHome'
  <2>0. submitted' = submitted /\ submitted <= submitted' /\ UNCHANGED rows
    <3>1. submitted' = submitted /\ UNCHANGED rows
        BY <1>5 DEF Run, StartRun, EndRun, NoHandler, CallHandler, HandlerReturns, Settle,
                    SettleUnsaved, HandlerBacksOff, HandlerFails, FinishFailed, Wake, consumer
    <3> QED BY <3>1 DEF TypeOK
  <2>1. \A x \in Runners : AtWork(x)' =>
            \/ AtWork(x) /\ arg'[x] = arg[x] /\ todo'[x] = todo[x]
            \/ /\ CallHandler(x) /\ todo'[x] = todo[x]
               /\ Head(todo[x]) \in DOMAIN effect
               /\ arg'[x] = effect[Head(todo[x])].payload
    <3>1. CASE CallHandler(r)
      <4>1. Head(todo[r]) \in DOMAIN effect
          BY <3>1, DropTyping, Objects DEF CallHandler, AtEffect
      <4> QED BY <3>1, <4>1 DEF CallHandler, TypeOK
    <3>2. CASE ~CallHandler(r)
        BY <1>5, <3>2 DEF Run, StartRun, EndRun, NoHandler, HandlerReturns, Settle,
                    SettleUnsaved, HandlerBacksOff, HandlerFails, FinishFailed, Wake, TypeOK
    <3> QED BY <3>1, <3>2
  <2>2. /\ DOMAIN effect' = DOMAIN effect
        /\ \A o \in DOMAIN effect : effect'[o].key = effect[o].key
                                     /\ effect'[o].payload = effect[o].payload
    <3>1. CASE HandlerBacksOff(r) \/ SettleUnsaved(r)
      <4>1. Head(todo[r]) \in 1..Len(effect) /\ effect[Head(todo[r])] \in Effect
          BY <3>1, DropTyping DEF HandlerBacksOff, SettleUnsaved, Shape
      <4>2. /\ Retried(Head(todo[r])).key = effect[Head(todo[r])].key
            /\ Retried(Head(todo[r])).payload = effect[Head(todo[r])].payload
          BY <4>1 DEF Retried, Effect
      <4>3. \/ effect' = effect
            \/ effect' = [effect EXCEPT ![Head(todo[r])] = Retried(Head(todo[r]))]
          BY <3>1 DEF HandlerBacksOff, SettleUnsaved
      <4> QED BY <4>1, <4>2, <4>3, Objects
    <3>2. CASE ~(HandlerBacksOff(r) \/ SettleUnsaved(r))
        BY <1>5, <3>2 DEF Run, StartRun, EndRun, NoHandler, CallHandler, HandlerReturns,
                    Settle, HandlerFails, FinishFailed, Wake
    <3> QED BY <3>1, <3>2
  <2>3. \A l \in Keys : disk'[l] # None => disk'[l] = disk[l] \/
            \E o \in DOMAIN effect : effect[o].key = l /\ effect[o].payload = disk'[l]
    <3>1. CASE Settle(r)
      <4>1. PICK o \in 1..Len(effect) : o = Head(todo[r])
          BY <3>1, DropTyping DEF Settle, Shape
      <4>2. \A l \in Keys : queue'[l] # None => queue'[l] = queue[l]
          BY <3>1 DEF Settle, Pop, TypeOK
      <4>3. disk' = Rows(queue', effect)
          BY <3>1 DEF Settle, Save, Persist
      <4> QED BY <4>2, <4>3, Objects DEF Rows, Shape, Pending
    <3>2. CASE ~Settle(r)
        BY <1>5, <3>2 DEF Run, StartRun, EndRun, NoHandler, CallHandler, HandlerReturns,
                    SettleUnsaved, SaveRaises, HandlerBacksOff, HandlerFails, FinishFailed, Wake
    <3> QED BY <3>1, <3>2
  <2>4. ASSUME NEW p \in Payloads, NEW l \in Keys, NEW x \in Runners, AtWork(x)',
               arg'[x] = p, effect'[Head(todo'[x])].key = l
        PROVE  Holds(l, p)
    <3>1. Head(todo[x]) \in DOMAIN effect /\ todo'[x] = todo[x]
        BY <2>1, <2>4, DropTyping, Objects DEF Shape
    <3>2. effect[Head(todo[x])].key = l
        BY <2>2, <2>4, <3>1
    <3> QED BY <2>1, <2>4, <3>1, <3>2 DEF Holds
  <2>5. \A p \in Payloads : \A l \in Keys : Holds(l, p)' => Holds(l, p)
    <3> SUFFICES ASSUME NEW p \in Payloads, NEW l \in Keys, Holds(l, p)' PROVE Holds(l, p)
        OBVIOUS
    <3>1. p # None
        BY DEF Payloads
    <3>2. CASE \E o \in DOMAIN effect' : effect'[o].key = l /\ effect'[o].payload = p
        BY <2>2, <3>2 DEF Holds
    <3>3. CASE disk'[l] = p
        BY <2>3, <3>1, <3>3 DEF Holds
    <3>4. CASE rows'[l] = p
        BY <2>0, <3>4 DEF Holds
    <3> QED BY <2>4, <3>2, <3>3, <3>4 DEF Holds
  <2> QED BY <1>1, <2>0, <2>5
<1>6. ASSUME NEW e \in 1..Len(effect), Elapse(e) PROVE OneHome'
  <2>1. UNCHANGED <<pc, todo, arg, disk, rows, submitted>>
      BY <1>6 DEF Elapse, runner, consumer
  <2>2. /\ DOMAIN effect' = DOMAIN effect
        /\ \A o \in DOMAIN effect : effect'[o].key = effect[o].key
                                     /\ effect'[o].payload = effect[o].payload
      BY <1>6, Objects DEF Elapse, Effect
  <2>3. \A r \in Runners : AtWork(r) => Head(todo[r]) \in DOMAIN effect
      BY DropTyping, Objects DEF Shape
  <2>4. \A p \in Payloads : \A l \in Keys : Holds(l, p)' => Holds(l, p)
      BY <2>1, <2>2, <2>3 DEF Holds
  <2> QED BY <1>1, <2>1, <2>4 DEF TypeOK
<1>7. CASE Crash
  <2>1. \A p \in Payloads : \A l \in Keys : Holds(l, p)' => Holds(l, p)
      BY <1>7 DEF Crash, Holds
  <2> QED BY <1>1, <1>7, <2>1 DEF Crash, TypeOK
<1>8. CASE RecoveryEnds
  <2>1. \A p \in Payloads : \A l \in Keys : Holds(l, p)' => Holds(l, p)
      BY <1>8 DEF RecoveryEnds, runner, Holds
  <2> QED BY <1>1, <1>8, <2>1 DEF RecoveryEnds, TypeOK
<1> QED BY <1>3, <1>4, <1>5, <1>6, <1>7, <1>8 DEF Next

\* A payload that is done is in the hands of a runner that will pop it by its key.
LEMMA StepNotDone ==
    ASSUME TypeOK, Shape, OneHome, PendingNotDone, SettledIsNotRecovered, Next, TypeOK'
    PROVE  PendingNotDone' /\ SettledIsNotRecovered'
<1> USE DEF None, AtWork
<1> DEFINE Due(p) == \E r \in Runners : pc[r] = "returned" /\ arg[r] = p
           Told(k, p) == Due(p) \/ p \in unsaved \/ rows[k] = p
           DueNext(p) == \E r \in Runners : pc'[r] = "returned" /\ arg'[r] = p
           ToldNext(k, p) == DueNext(p) \/ p \in unsaved' \/ rows'[k] = p
<1>0. /\ \A k \in Pending : status[effect[queue[k]].payload] = "done" =>
                                  Due(effect[queue[k]].payload)
      /\ \A k \in Keys : disk[k] # None /\ status[disk[k]] = "done" => Told(k, disk[k])
      /\ \A k \in Pending : queue[k] \in 1..Len(effect) /\ effect[queue[k]].payload \in Payloads
    BY Objects DEF PendingNotDone, SettledIsNotRecovered, Effect
<1>1. ASSUME PendingNotDone', disk' = Rows(queue', effect') PROVE SettledIsNotRecovered'
    BY <1>1 DEF Rows, Pending, PendingNotDone, SettledIsNotRecovered
<1>2. ASSUME \A k \in Keys : queue'[k] # None => queue'[k] = queue[k],
             \A o \in 1..Len(effect) : effect'[o].payload = effect[o].payload,
             \A p \in Payloads : status'[p] = "done" => status[p] = "done" \/ DueNext(p),
             \A p \in Payloads : Due(p) => DueNext(p)
      PROVE  PendingNotDone'
  <2>1. ASSUME NEW k \in Pending', status'[effect'[queue'[k]].payload] = "done"
        PROVE  DueNext(effect'[queue'[k]].payload)
    <3>1. k \in Pending /\ queue'[k] = queue[k]
        BY <1>2, <2>1 DEF Pending
    <3>2. PICK p \in Payloads : p = effect[queue[k]].payload
        BY <1>0, <3>1
    <3>3. effect'[queue'[k]].payload = p
        BY <1>0, <1>2, <3>1, <3>2
    <3> QED BY <1>0, <1>2, <2>1, <3>1, <3>2, <3>3
  <2> QED BY <2>1 DEF PendingNotDone
<1>3. ASSUME \A p \in Payloads : status'[p] = "done" => status[p] = "done" \/ DueNext(p),
             \A p \in Payloads : Due(p) => DueNext(p),
             disk' = disk, rows' = rows, unsaved' = unsaved
      PROVE  SettledIsNotRecovered'
  <2>1. ASSUME NEW k \in Keys, disk'[k] # None, status'[disk'[k]] = "done"
        PROVE  ToldNext(k, disk'[k])
    <3>1. PICK p \in Payloads : p = disk[k]
        BY <1>3, <2>1 DEF TypeOK
    <3> QED BY <1>0, <1>3, <2>1, <3>1
  <2> QED BY <2>1 DEF SettledIsNotRecovered
<1>4. ASSUME NEW k \in Keys, NEW q \in Payloads, Enqueue(k, q),
             \A l \in Keys : rows'[l] = rows[l] \/ (l = k /\ rows[l] \in {q, None})
      PROVE  PendingNotDone' /\ SettledIsNotRecovered'
  <2>1. /\ UNCHANGED <<pc, arg>> /\ status'[q] = "accepted"
        /\ \A p \in Payloads : status'[p] = "done" => status[p] = "done" /\ p # q
    <3>1. CASE Merge(k, q)
      <4>1. effect[queue[k]].payload \in Payloads
          BY <1>0, <3>1 DEF Merge, Pending
      <4>2. status' = [status EXCEPT ![q] = "accepted",
                              ![effect[queue[k]].payload] =
                                  IF @ = "accepted" /\ effect[queue[k]].payload # q
                                  THEN "replaced" ELSE @]
          BY <3>1 DEF Merge
      <4>3. \A p \in Payloads : status'[p] = "done" => status[p] = "done" /\ p # q
          BY <4>1, <4>2 DEF TypeOK
      <4>4. status'[q] = "accepted"
          BY <4>1, <4>2 DEF TypeOK
      <4> QED BY <1>4, <4>3, <4>4 DEF Enqueue, runner
    <3>2. CASE Insert(k, q)
        BY <1>4, <3>2 DEF Enqueue, runner, Insert, TypeOK
    <3> QED BY <1>4, <3>1, <3>2 DEF Enqueue
  <2>2. ASSUME NEW l \in Pending'
        PROVE  \/ effect'[queue'[l]].payload = q
               \/ l \in Pending /\ effect'[queue'[l]].payload = effect[queue[l]].payload
    <3>1. CASE Merge(k, q)
      <4>1. /\ queue' = queue
            /\ \A o \in 1..Len(effect) : effect'[o].payload \in {effect[o].payload, q}
          BY <3>1, Objects DEF Merge, Effect
      <4> QED BY <1>0, <2>2, <4>1 DEF Pending
    <3>2. CASE Insert(k, q)
      <4>1. /\ effect'[Len(effect')].payload = q
            /\ \A o \in 1..Len(effect) : effect'[o] = effect[o]
            /\ queue' = [queue EXCEPT ![k] = Len(effect')]
          BY <3>2, Objects DEF Insert
      <4>2. CASE l = k
          BY <2>2, <4>1, <4>2 DEF Pending, TypeOK
      <4>3. CASE l # k
        <5>1. l \in Pending /\ queue'[l] = queue[l]
            BY <2>2, <4>1, <4>3 DEF Pending, TypeOK
        <5> QED BY <1>0, <4>1, <5>1
      <4> QED BY <4>2, <4>3
    <3> QED BY <1>4, <3>1, <3>2 DEF Enqueue
  <2>3. PendingNotDone'
    <3>1. ASSUME NEW l \in Pending', status'[effect'[queue'[l]].payload] = "done"
          PROVE  DueNext(effect'[queue'[l]].payload)
      <4>1. effect'[queue'[l]].payload # q
          BY <2>1, <3>1
      <4>2. PICK p \in Payloads : l \in Pending /\ p = effect[queue[l]].payload
                                   /\ effect'[queue'[l]].payload = p
          BY <1>0, <2>2, <4>1
      <4> QED BY <1>0, <2>1, <3>1, <4>2
    <3> QED BY <3>1 DEF PendingNotDone
  <2>4. SettledIsNotRecovered'
    <3>1. CASE Save(queue', effect')
        BY <1>1, <2>3, <3>1 DEF Save, Persist
    <3>2. CASE SaveRaises(q)
      <4>0. disk' = disk /\ unsaved \subseteq unsaved' /\ q \in unsaved'
          BY <3>2 DEF SaveRaises
      <4>1. ASSUME NEW l \in Keys, disk'[l] # None, status'[disk'[l]] = "done"
            PROVE  ToldNext(l, disk'[l])
        <5>1. PICK p \in Payloads : p = disk[l] /\ p = disk'[l]
            BY <4>0, <4>1 DEF TypeOK
        <5>2. p # q /\ status[p] = "done"
            BY <2>1, <4>1, <5>1
        <5>4. p # None
            BY DEF Payloads
        <5>3. Told(l, p)
            BY <1>0, <5>1, <5>2, <5>4
        <5> QED BY <1>4, <2>1, <4>0, <5>1, <5>2, <5>3, <5>4
      <4> QED BY <4>1 DEF SettledIsNotRecovered
    <3> QED BY <1>4, <3>1, <3>2 DEF Enqueue
  <2> QED BY <2>3, <2>4
<1>5. ASSUME NEW k \in Keys, Submit(k) \/ Requeue(k)
      PROVE  PendingNotDone' /\ SettledIsNotRecovered'
  <2>1. CASE Submit(k)
    <3>1. submitted' \in Payloads
        BY <2>1 DEF Submit, TypeOK, Payloads
    <3> QED BY <1>4, <2>1, <3>1 DEF Submit
  <2>2. CASE Requeue(k)
    <3>1. rows[k] \in Payloads /\ \A l \in Keys : rows'[l] = rows[l] \/ l = k
        BY <2>2 DEF Requeue, TypeOK
    <3> QED BY <1>4, <2>2, <3>1 DEF Requeue
  <2> QED BY <1>5, <2>1, <2>2
<1>6. ASSUME NEW o \in 1..Len(effect), Pop(o)
      PROVE  \A k \in Keys : queue'[k] # None => queue'[k] = queue[k] /\ k # effect[o].key
    BY <1>6 DEF Pop, TypeOK
<1>7. ASSUME NEW r \in Runners, pc[r] = "returned", NEW k \in Keys,
             k = effect[Head(todo[r])].key, \A l \in Keys : queue'[l] # None => queue'[l] = queue[l] /\ l # k,
             \A o \in 1..Len(effect) : effect'[o].payload = effect[o].payload,
             status' = status, \A x \in Runners \ {r} : pc'[x] = pc[x] /\ arg'[x] = arg[x]
      PROVE  /\ PendingNotDone'
             /\ \A p \in Payloads : Due(p) => DueNext(p) \/ p = arg[r]
  <2>1. PICK p \in Payloads : p = arg[r]
      BY <1>7 DEF Shape, TypeOK
  <2>2. Holds(k, p)
      BY <1>7, <2>1 DEF Holds
  <2>3. \A q \in Payloads : Due(q) => DueNext(q) \/ q = p
      BY <1>7, <2>1
  <2>4. ASSUME NEW l \in Pending', status'[effect'[queue'[l]].payload] = "done"
        PROVE  DueNext(effect'[queue'[l]].payload)
    <3>1. l \in Keys /\ l \in Pending /\ queue'[l] = queue[l] /\ l # k
        BY <1>7, <2>4 DEF Pending
    <3>2. PICK q \in Payloads : q = effect[queue[l]].payload /\ effect'[queue'[l]].payload = q
        BY <1>0, <1>7, <3>1
    <3>3. Holds(l, q)
        BY <1>0, <3>1, <3>2, Objects DEF Holds, Shape
    <3>4. q # p
        BY <2>2, <3>1, <3>3 DEF OneHome
    <3> QED BY <1>0, <1>7, <2>3, <2>4, <3>1, <3>2, <3>4
  <2>5. PendingNotDone'
      BY <2>4 DEF PendingNotDone
  <2> QED BY <2>1, <2>3, <2>5
<1>8. ASSUME NEW r \in Runners, Run(r)
      PROVE  PendingNotDone' /\ SettledIsNotRecovered'
  <2>0. \A o \in 1..Len(effect) : effect[o].key \in Keys
      BY Objects DEF Effect
  <2>1. CASE StartRun(r) \/ EndRun(r) \/ CallHandler(r) \/ HandlerReturns(r) \/ Wake(r)
    <3>1. UNCHANGED <<queue, effect, disk, rows, unsaved>>
        BY <2>1 DEF StartRun, EndRun, CallHandler, HandlerReturns, Wake, consumer, saving
    <3>2. \A p \in Payloads : Due(p) => DueNext(p)
        BY <2>1 DEF StartRun, EndRun, CallHandler, AtEffect, HandlerReturns, Wake, TypeOK
    <3>3. \A p \in Payloads : status'[p] = "done" => status[p] = "done" \/ DueNext(p)
        BY <2>1 DEF StartRun, EndRun, CallHandler, HandlerReturns, Wake, TypeOK
    <3> QED BY <1>2, <1>3, <3>1, <3>2, <3>3
  <2>2. CASE NoHandler(r) \/ HandlerFails(r)
    <3>1. Head(todo[r]) \in 1..Len(effect)
        BY <2>2, DropTyping DEF NoHandler, AtEffect, HandlerFails, Shape
    <3>2. \A p \in Payloads : status'[p] = "done" => status[p] = "done"
      <4>1. PICK q : status' = [status EXCEPT ![q] = IF @ = "done" THEN @ ELSE "failed"]
          BY <2>2 DEF NoHandler, HandlerFails, FinishFailed
      <4> QED BY <4>1 DEF TypeOK
    <3>3. \A p \in Payloads : Due(p) => DueNext(p)
        BY <2>2 DEF NoHandler, AtEffect, HandlerFails, FinishFailed, TypeOK
    <3>4. UNCHANGED <<effect, disk, rows, unsaved>> /\ Pop(Head(todo[r]))
        BY <2>2 DEF NoHandler, HandlerFails, FinishFailed, consumer, saving
    <3> QED BY <1>2, <1>3, <1>6, <3>1, <3>2, <3>3, <3>4
  <2>3. CASE Settle(r) \/ SettleUnsaved(r)
    <3>1. Head(todo[r]) \in 1..Len(effect) /\ pc[r] = "returned"
        BY <2>3, DropTyping DEF Settle, SettleUnsaved, Shape
    <3>2. PICK k \in Keys : k = effect[Head(todo[r])].key
        BY <2>0, <3>1
    <3>3. \A l \in Keys : queue'[l] # None => queue'[l] = queue[l] /\ l # k
        BY <1>6, <2>3, <3>1, <3>2 DEF Settle, SettleUnsaved
    <3>4. \A o \in 1..Len(effect) : effect'[o].payload = effect[o].payload
      <4>1. Retried(Head(todo[r])).payload = effect[Head(todo[r])].payload
          BY <3>1, Objects DEF Retried, Effect
      <4>2. \/ effect' = effect
            \/ effect' = [effect EXCEPT ![Head(todo[r])] = Retried(Head(todo[r]))]
          BY <2>3 DEF Settle, SettleUnsaved
      <4> QED BY <3>1, <4>1, <4>2, Objects
    <3>5. /\ status' = status /\ rows' = rows
          /\ \A x \in Runners \ {r} : pc'[x] = pc[x] /\ arg'[x] = arg[x]
        BY <2>3 DEF Settle, SettleUnsaved, consumer, TypeOK
    <3>6. /\ PendingNotDone'
          /\ \A p \in Payloads : Due(p) => DueNext(p) \/ p = arg[r]
        BY <1>7, <3>1, <3>2, <3>3, <3>4, <3>5
    <3>7. CASE Settle(r)
        BY <1>1, <3>6, <3>7 DEF Settle, Save, Persist
    <3>8. CASE SettleUnsaved(r)
      <4>1. disk' = disk /\ unsaved' = unsaved \cup {arg[r]}
          BY <3>8 DEF SettleUnsaved, SaveRaises
      <4>2. ASSUME NEW l \in Keys, disk'[l] # None, status'[disk'[l]] = "done"
            PROVE  ToldNext(l, disk'[l])
        <5>1. PICK p \in Payloads : p = disk[l]
            BY <4>1, <4>2 DEF TypeOK
        <5> QED BY <1>0, <3>5, <3>6, <4>1, <4>2, <5>1
      <4>3. SettledIsNotRecovered'
          BY <4>2 DEF SettledIsNotRecovered
      <4> QED BY <3>6, <4>3
    <3> QED BY <2>3, <3>7, <3>8
  <2>4. CASE HandlerBacksOff(r)
    <3>1. Head(todo[r]) \in 1..Len(effect)
        BY <2>4, DropTyping DEF HandlerBacksOff, Shape
    <3>2. Retried(Head(todo[r])).payload = effect[Head(todo[r])].payload
        BY <3>1, Objects DEF Retried, Effect
    <3>3. \A o \in 1..Len(effect) : effect'[o].payload = effect[o].payload
        BY <2>4, <3>1, <3>2, Objects DEF HandlerBacksOff
    <3>4. \A p \in Payloads : Due(p) => DueNext(p)
        BY <2>4 DEF HandlerBacksOff, TypeOK
    <3> QED BY <1>2, <1>3, <2>4, <3>3, <3>4 DEF HandlerBacksOff, consumer, saving
  <2> QED BY <1>8, <2>1, <2>2, <2>3, <2>4 DEF Run
<1>9. ASSUME NEW o \in 1..Len(effect), Elapse(o)
      PROVE  PendingNotDone' /\ SettledIsNotRecovered'
  <2>1. \A e \in 1..Len(effect) : effect'[e].payload = effect[e].payload
      BY <1>9, Objects DEF Elapse, Effect
  <2> QED BY <1>2, <1>3, <1>9, <2>1 DEF Elapse, runner, consumer, saving
<1>10. CASE Crash
    BY <1>10 DEF Crash, Pending, PendingNotDone, SettledIsNotRecovered
<1>11. CASE RecoveryEnds
    BY <1>2, <1>3, <1>11 DEF RecoveryEnds, runner, saving
<1> QED BY <1>5, <1>8, <1>9, <1>10, <1>11 DEF Next

-----------------------------------------------------------------------------

\* Inv is inductive.
LEMMA StepInv ==
    ASSUME Inv, [Next]_vars
    PROVE  Inv'
<1>1. CASE Next
  <2>1. TypeOK'
      BY <1>1, StepTyping DEF Inv
  <2>2. Shape' /\ PendingIsSaved' /\ RunsCounted' /\ OneHome' /\ PendingCounted'
      BY <1>1, <2>1, StepShape, StepSaved, StepRuns, StepHome, StepCounted DEF Inv
  <2>3. PendingNotDone' /\ SettledIsNotRecovered'
      BY <1>1, <2>1, <2>2, StepNotDone DEF Inv
  <2> QED BY <2>1, <2>2, <2>3 DEF Inv
<1>2. CASE UNCHANGED vars
  <2>1. /\ UNCHANGED <<queue, effect, submitted, counted, disk, raises, unsaved, status, runs>>
        /\ UNCHANGED <<pc, todo, arg, rows, boot, crashes>>
      BY <1>2 DEF vars, runner, consumer, saving
  <2>2. TypeOK' /\ Shape' /\ PendingIsSaved' /\ PendingNotDone'
      BY <2>1 DEF Inv, TypeOK, Shape, AtWork, Pending, PendingIsSaved, PendingNotDone
  <2>3. SettledIsNotRecovered' /\ OneHome' /\ PendingCounted'
      BY <2>1 DEF Inv, SettledIsNotRecovered, OneHome, Holds, AtWork, Pending,
                  PendingCounted, YoungestStored, LeavesCounted
  <2>4. RunsCounted'
    <3>1. \A o : Spent(o)' = Spent(o)
        BY <2>1 DEF Spent, AtWork, Stored, Lists
    <3> QED BY <2>1, <3>1 DEF Inv, RunsCounted
  <2> QED BY <2>2, <2>3, <2>4 DEF Inv
<1> QED BY <1>1, <1>2

LEMMA Invariance == Spec => []Inv
<1>1. Init => Inv
    BY InitInv
<1>2. Inv /\ [Next]_vars => Inv'
    BY StepInv
<1> QED BY <1>1, <1>2, PTL DEF Spec

\* The queue, the lists of the runners and the file are typed in every state, for any
\* keys, coroutines and bounds.
THEOREM Typing == Spec => []TypeOK
BY Invariance, PTL DEF Inv

\* A crash finds every pending effect in the file with its latest payload, unless the
\* save of that payload raised, whatever the coroutines of run_pending do (_persist,
\* effect_queue.py:93 and :112).
THEOREM PendingSaved == Spec => []PendingIsSaved
BY Invariance, PTL DEF Inv

\* What a handler has done stays in the file from its return to the next save only, or
\* longer where that save raised: a payload has one key for life, also in lists and
\* rows that are out of date, so the row that the save leaves out is the only one.
THEOREM SettledNotRecovered == Spec => []SettledIsNotRecovered
BY Invariance, PTL DEF Inv

\* An effect that left the queue was counted for itself, or an older effect of its key
\* was counted twice: every other loss of a fresh effect is ruled out.
THEOREM LeavingCounted == Spec => []LeavesCounted
BY Invariance, PTL DEF Inv, PendingCounted

\* An effect is handed to its handler at most max_attempts times plus once for each
\* coroutine: every run that is not counted as an attempt spends a coroutine.
THEOREM RunsAreBounded == Spec => []RunsBounded
<1>1. ASSUME Inv PROVE RunsBounded
  <2>1. ASSUME NEW o \in DOMAIN runs PROVE runs[o] <= MaxAttempts + Cardinality(Runners)
    <3>1. DOMAIN runs = 1..Len(effect)
        BY <1>1, LenProperties DEF Inv, TypeOK
    <3>2. effect[o].attempts \in 0..MaxAttempts
        BY <1>1, <3>1, Objects DEF Inv, Effect
    <3>3. runs[o] \in Nat
        BY <1>1, <3>1, ElementOfSeq DEF Inv, TypeOK
    <3>4. Spent(o) \subseteq Runners
        BY DEF Spent
    <3>5. /\ Cardinality(Spent(o)) \in Nat /\ Cardinality(Runners) \in Nat
          /\ Cardinality(Spent(o)) <= Cardinality(Runners)
        BY <3>4, SubsetsOfRunners
    <3>6. runs[o] <= effect[o].attempts + Cardinality(Spent(o))
        BY <1>1 DEF Inv, RunsCounted
    <3> QED BY <3>2, <3>3, <3>5, <3>6, QueueConstants
  <2> QED BY <2>1 DEF RunsBounded
<1> QED BY <1>1, Invariance, PTL
=============================================================================
