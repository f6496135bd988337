------------------------ MODULE QueryExecutionProofs ------------------------
(***************************************************************************)
(* Proofs for QueryExecution with any set of calls and statements, any     *)
(* size of the pool and any number of retries.  A step of a call changes   *)
(* that call and, through the schema cache, the set stale: so every part   *)
(* of the invariant speaks of one call, and is shown for the call that     *)
(* steps; what is shown of the others is that they stay.                   *)
(***************************************************************************)
EXTENDS QueryExecution, TLAPS

\* What the guard lets pass.
Passed(s) ==
    /\ Valid(s)
    /\ s.tables \subseteq KnownTables
    /\ ~Denied(s)

\* A call that is sending its statement, not looking up a table.
Sending(c) == pc[c] \in {"waiting", "busy"} /\ left[c] = {}

\* The tables that were looked up are known, and a statement was assessed
\* before it is sent.
GuardedCall(c) ==
    /\ pc[c] \in {"tables", "waiting", "busy"} =>
        Valid(stmt[c]) /\ stmt[c].tables \ left[c] \subseteq KnownTables
    /\ Sending(c) \/ pc[c] \in {"applied", "backoff"} =>
        left[c] = {} /\ Passed(stmt[c])
    /\ applied[c] > 0 => Passed(stmt[c])

\* An application is answered, or its answer is lost, before the next.
SettledCall(c) ==
    applied[c] = IF pc[c] \in {"applied", "ok"} THEN lost[c] + 1 ELSE lost[c]

Quota(n) == n * (QueueRetries + 1)

\* Every attempt of run_effect applies the statement at most once.
CountedCall(c) ==
    applied[c] <=
        IF Sending(c) \/ pc[c] = "backoff" THEN Quota(rounds[c]) + tries[c]
        ELSE IF pc[c] \in {"applied", "ok"} THEN Quota(rounds[c]) + tries[c] + 1
        ELSE IF pc[c] \in Ended THEN Quota(rounds[c] + 1)
        ELSE Quota(rounds[c])

CallInv(c) == GuardedCall(c) /\ SettledCall(c) /\ CountedCall(c)

Inv == TypeOK /\ \A c \in Calls : CallInv(c)

\* What belongs to one call.
OfCall(c) == <<stmt[c], pc[c], left[c], tries[c], rounds[c], applied[c], lost[c]>>

-----------------------------------------------------------------------------

\* A step keeps the types.
LEMMA TypePreserved ==
    ASSUME TypeOK, NEW c \in Calls, Begin(c) \/ Step(c)
    PROVE  TypeOK'
<1> USE ExecutionConstants DEF TypeOK, Goes, counts, effects, Ended, Waits
<1>1. CASE Begin(c)
    BY <1>1 DEF Begin
<1>2. CASE Validate(c)
    BY <1>2 DEF Validate
<1>3. CASE SystemTable(c) \/ LookUp(c)
    BY <1>3 DEF SystemTable, LookUp
<1>4. CASE Assess(c)
    BY <1>4 DEF Assess
<1>5. ASSUME NEW t \in left[c], Tabled(c, t) PROVE TypeOK'
    BY <1>5 DEF Tabled
<1>6. CASE Acquire(c)
    BY <1>6 DEF Acquire
<1>7. CASE Apply(c)
    BY <1>7 DEF Apply
<1>8. CASE Answer(c)
    BY <1>8 DEF Answer, ClearCache
<1>9. CASE Retry(c)
    BY <1>9 DEF Retry, Querying, CountLost, MayRetry
<1>10. CASE RunAgain(c)
    BY <1>10 DEF RunAgain, Querying, CountLost, MayRunAgain
<1>11. CASE GiveUp(c) \/ Fail(c)
    BY <1>11 DEF GiveUp, Fail, Querying, CountLost
<1>12. CASE Wake(c)
    BY <1>12 DEF Wake
<1> QED
    BY <1>1, <1>2, <1>3, <1>4, <1>5, <1>6, <1>7, <1>8, <1>9, <1>10, <1>11, <1>12
       DEF Step

\* A step of a call leaves every other call where it is.
LEMMA OthersStay ==
    ASSUME TypeOK, NEW c \in Calls, NEW d \in Calls, c # d, Begin(c) \/ Step(c)
    PROVE  OfCall(d)' = OfCall(d)
<1> USE DEF TypeOK, Goes, counts, effects, OfCall
<1>1. CASE Begin(c) \/ Validate(c) \/ SystemTable(c) \/ LookUp(c) \/ Assess(c)
    BY <1>1 DEF Begin, Validate, SystemTable, LookUp, Assess
<1>2. ASSUME NEW t \in left[c], Tabled(c, t) PROVE OfCall(d)' = OfCall(d)
    BY <1>2 DEF Tabled
<1>3. CASE Acquire(c) \/ Apply(c) \/ Answer(c) \/ Wake(c)
    BY <1>3 DEF Acquire, Apply, Answer, Wake
<1>4. CASE Retry(c) \/ RunAgain(c) \/ GiveUp(c) \/ Fail(c)
    BY <1>4 DEF Retry, RunAgain, GiveUp, Fail, Querying, CountLost
<1> QED
    BY <1>1, <1>2, <1>3, <1>4 DEF Step

\* The invariant of a call depends on what belongs to the call.
LEMMA StaysTrue ==
    ASSUME NEW d \in Calls, CallInv(d), OfCall(d)' = OfCall(d)
    PROVE  CallInv(d)'
<1>1. /\ stmt'[d] = stmt[d] /\ pc'[d] = pc[d] /\ left'[d] = left[d]
      /\ tries'[d] = tries[d] /\ rounds'[d] = rounds[d]
      /\ applied'[d] = applied[d] /\ lost'[d] = lost[d]
    BY DEF OfCall
<1> QED
    BY <1>1 DEF CallInv, GuardedCall, SettledCall, CountedCall, Sending

\* The call that steps keeps to the guard.
LEMMA GuardedPreserved ==
    ASSUME TypeOK, NEW c \in Calls, GuardedCall(c), SettledCall(c), Begin(c) \/ Step(c)
    PROVE  GuardedCall(c)'
<1> USE DEF TypeOK, Goes, counts, effects, GuardedCall, Sending
<1>1. CASE Begin(c) \/ SystemTable(c) \/ LookUp(c)
    BY <1>1 DEF Begin, SystemTable, LookUp
<1>2. CASE Validate(c)
    BY <1>2 DEF Validate
<1>3. CASE Assess(c)
    BY <1>3 DEF Assess, Passed
<1>4. ASSUME NEW t \in left[c], Tabled(c, t) PROVE GuardedCall(c)'
    BY <1>4 DEF Tabled
<1>5. CASE Acquire(c) \/ Apply(c) \/ Answer(c)
    BY <1>5 DEF Acquire, Apply, Answer
<1>6. CASE Retry(c) \/ RunAgain(c) \/ GiveUp(c) \/ Fail(c)
    BY <1>6 DEF Retry, RunAgain, GiveUp, Fail, Querying, CountLost, MayRetry
<1>7. CASE Wake(c)
    BY <1>7 DEF Wake, Passed
<1> QED
    BY <1>1, <1>2, <1>3, <1>4, <1>5, <1>6, <1>7 DEF Step

\* The call that steps has at most one application without an answer.
LEMMA SettledPreserved ==
    ASSUME TypeOK, NEW c \in Calls, SettledCall(c), Begin(c) \/ Step(c)
    PROVE  SettledCall(c)'
<1> USE DEF TypeOK, Goes, counts, effects, SettledCall
<1>1. CASE Begin(c) \/ Validate(c) \/ SystemTable(c) \/ LookUp(c) \/ Assess(c)
    BY <1>1 DEF Begin, Validate, SystemTable, LookUp, Assess
<1>2. ASSUME NEW t \in left[c], Tabled(c, t) PROVE SettledCall(c)'
    BY <1>2 DEF Tabled
<1>3. CASE Acquire(c) \/ Apply(c) \/ Answer(c) \/ Wake(c)
    BY <1>3 DEF Acquire, Apply, Answer, Wake
<1>4. CASE Retry(c) \/ RunAgain(c) \/ GiveUp(c) \/ Fail(c)
    BY <1>4 DEF Retry, RunAgain, GiveUp, Fail, Querying, CountLost
<1> QED
    BY <1>1, <1>2, <1>3, <1>4 DEF Step

\* A round more is QueueRetries + 1 attempts more.
LEMMA QuotaStep ==
    ASSUME NEW n \in Nat
    PROVE  /\ Quota(n) \in Nat /\ Quota(n + 1) \in Nat
           /\ Quota(n + 1) = Quota(n) + QueueRetries + 1
BY ExecutionConstants DEF Quota

\* More rounds are no fewer attempts.
LEMMA QuotaMonotone ==
    ASSUME NEW m \in Nat, NEW n \in Nat, m <= n
    PROVE  Quota(m) \in Nat /\ Quota(n) \in Nat /\ Quota(m) <= Quota(n)
<1>1. PICK k \in Nat : n = m + k
    <2>1. n - m \in Nat /\ n = m + (n - m)
        OBVIOUS
    <2> QED
        BY <2>1
<1>2. n * (QueueRetries + 1) = m * (QueueRetries + 1) + k * (QueueRetries + 1)
    BY <1>1, ExecutionConstants
<1>3. k * (QueueRetries + 1) \in Nat /\ m * (QueueRetries + 1) \in Nat
    BY ExecutionConstants
<1> QED
    BY <1>2, <1>3 DEF Quota

\* The call that steps keeps to its attempts.
LEMMA CountedPreserved ==
    ASSUME TypeOK, NEW c \in Calls, GuardedCall(c), CountedCall(c), Begin(c) \/ Step(c)
    PROVE  CountedCall(c)'
<1>1. /\ rounds[c] \in Nat /\ tries[c] \in 0..QueueRetries /\ applied[c] \in Nat
      /\ Quota(rounds[c]) \in Nat /\ Quota(rounds[c] + 1) \in Nat
      /\ Quota(rounds[c] + 1) = Quota(rounds[c]) + QueueRetries + 1
    <2>1. rounds[c] \in Nat /\ tries[c] \in 0..QueueRetries /\ applied[c] \in Nat
        BY ExecutionConstants DEF TypeOK
    <2> QED
        BY <2>1, QuotaStep
<1> USE <1>1, ExecutionConstants DEF TypeOK, Goes, counts, effects, CountedCall,
        Sending, Ended
<1>2. CASE Begin(c) \/ Validate(c)
    BY <1>2 DEF Begin, Validate
<1>3. CASE SystemTable(c) \/ LookUp(c) \/ Assess(c)
    BY <1>3 DEF SystemTable, LookUp, Assess
<1>4. ASSUME NEW t \in left[c], Tabled(c, t) PROVE CountedCall(c)'
    BY <1>4 DEF Tabled
<1>5. CASE Acquire(c)
    BY <1>5 DEF Acquire
<1>6. CASE Apply(c)
    BY <1>6 DEF Apply
<1>7. CASE Answer(c)
    BY <1>7 DEF Answer
<1>8. CASE Retry(c)
    BY <1>8 DEF Retry, Querying, CountLost, MayRetry
<1>9. CASE RunAgain(c)
    BY <1>9 DEF RunAgain, Querying, CountLost, MayRetry, GuardedCall
<1>10. CASE GiveUp(c) \/ Fail(c)
    BY <1>10 DEF GiveUp, Fail, Querying, CountLost
<1>11. CASE Wake(c)
    BY <1>11 DEF Wake, GuardedCall
<1> QED
    BY <1>2, <1>3, <1>4, <1>5, <1>6, <1>7, <1>8, <1>9, <1>10, <1>11 DEF Step

\* No call has begun.
LEMMA InvInit == Init => Inv
<1> SUFFICES ASSUME Init PROVE Inv
    OBVIOUS
<1>1. TypeOK
    BY ExecutionConstants DEF Init, TypeOK
<1>2. ASSUME NEW c \in Calls PROVE CallInv(c)
    <2>1. Quota(0) \in Nat
        BY QuotaStep
    <2> QED
        BY <2>1 DEF Init, CallInv, GuardedCall, SettledCall, CountedCall, Sending, Ended
<1> QED
    BY <1>1, <1>2 DEF Inv

\* Every step keeps the invariant.
LEMMA InvNext == Inv /\ [Next]_vars => Inv'
<1> SUFFICES ASSUME Inv, [Next]_vars PROVE Inv'
    OBVIOUS
<1>1. ASSUME NEW c \in Calls, Begin(c) \/ Step(c) PROVE Inv'
    <2>1. TypeOK'
        BY <1>1, TypePreserved DEF Inv
    <2>2. CallInv(c)'
        BY <1>1, GuardedPreserved, SettledPreserved, CountedPreserved DEF Inv, CallInv
    <2>3. ASSUME NEW d \in Calls, c # d PROVE CallInv(d)'
        BY <1>1, <2>3, OthersStay, StaysTrue DEF Inv
    <2> QED
        BY <2>1, <2>2, <2>3 DEF Inv
<1>2. CASE UNCHANGED vars
    <2>1. TypeOK'
        BY <1>2 DEF Inv, TypeOK, vars
    <2>2. ASSUME NEW d \in Calls PROVE CallInv(d)'
        BY <1>2, StaysTrue DEF Inv, OfCall, vars
    <2> QED
        BY <2>1, <2>2 DEF Inv
<1> QED
    BY <1>1, <1>2 DEF Next

\* The inductive invariant holds, for any calls, pool and number of retries.
THEOREM Invariance == Spec => []Inv
BY InvInit, InvNext, PTL DEF Spec

\* The variables keep their types.
THEOREM Typing == Spec => []TypeOK
<1>1. Inv => TypeOK
    BY DEF Inv
<1> QED
    BY <1>1, Invariance, PTL

\* The two layers of retries together (sql_tools.py:66-90, config.py:69-77) have
\* one statement applied at most once for each of their attempts.
THEOREM RetriesMultiply == Spec => []ExecutionsBounded
<1>1. ASSUME Inv PROVE ExecutionsBounded
    <2> SUFFICES ASSUME NEW c \in Calls PROVE applied[c] <= Quota(ToolRetries + 1)
        BY DEF ExecutionsBounded, Quota
    <2>1. /\ rounds[c] \in 0..ToolRetries /\ tries[c] \in 0..QueueRetries
          /\ applied[c] \in Nat /\ CountedCall(c)
        BY <1>1 DEF Inv, TypeOK, CallInv
    <2>2. rounds[c] \in Nat /\ rounds[c] + 1 <= ToolRetries + 1
        BY <2>1, ExecutionConstants
    <2>3. /\ Quota(rounds[c]) \in Nat
          /\ Quota(rounds[c] + 1) = Quota(rounds[c]) + QueueRetries + 1
        BY <2>2, QuotaStep
    <2>4. applied[c] <= Quota(rounds[c] + 1)
        BY <2>1, <2>3, ExecutionConstants DEF CountedCall
    <2>5. /\ Quota(rounds[c] + 1) <= Quota(ToolRetries + 1)
          /\ Quota(rounds[c] + 1) \in Nat /\ Quota(ToolRetries + 1) \in Nat
        BY <2>2, QuotaMonotone, ExecutionConstants
    <2> QED
        BY <2>1, <2>4, <2>5
<1> QED
    BY <1>1, Invariance, PTL

\* No retry sends what the guard has not let pass (boundaries.py:83-106).
THEOREM NothingUnguarded == Spec => []AppliedIsGuarded
<1>1. ASSUME Inv PROVE AppliedIsGuarded
    <2> SUFFICES ASSUME NEW c \in Calls, applied[c] > 0
                 PROVE  /\ stmt[c].dml \in AllowedDml
                        /\ stmt[c].tables \subseteq KnownTables
                        /\ stmt[c].dml \in {"UPDATE", "DELETE"}
                             /\ stmt[c].inside \cap {"INSERT", "WHERE"} = {}
                             /\ "INSERT" \notin stmt[c].words
                           => "WHERE" \in stmt[c].words
        BY DEF AppliedIsGuarded
    <2>1. Passed(stmt[c]) /\ stmt[c] \in Statements
        BY <1>1 DEF Inv, TypeOK, CallInv, GuardedCall
    <2>2. stmt[c].dml \in AllowedDml /\ stmt[c].tables \subseteq KnownTables
        BY <2>1 DEF Passed, Valid
    <2>3. stmt[c].dml \in stmt[c].words \/ stmt[c].dml = "UNKNOWN"
        BY <2>1, ExecutionConstants
    <2>4. ASSUME stmt[c].dml \in {"UPDATE", "DELETE"},
                 stmt[c].inside \cap {"INSERT", "WHERE"} = {},
                 "INSERT" \notin stmt[c].words
          PROVE  "WHERE" \in stmt[c].words
        <3>1. WriteType(stmt[c]) \in {"UPDATE", "DELETE"}
            BY <2>3, <2>4 DEF WriteType, Spells
        <3> QED
            BY <2>1, <2>4, <3>1 DEF Passed, Denied, NoWhereClause, Spells
    <2> QED
        BY <2>2, <2>4
<1> QED
    BY <1>1, Invariance, PTL

-----------------------------------------------------------------------------
(* The refinement *)

\* What a step of one call does to the outcomes.
LEMMA OutcomeStep ==
    ASSUME TypeOK, NEW c \in Calls, pc[c] \notin Ended,
           NEW p, pc' = [pc EXCEPT ![c] = p]
    PROVE  Outcome' = [Outcome EXCEPT ![c] =
                           IF p = "ok" THEN "ok" ELSE IF p \in Ended THEN "failed" ELSE "open"]
BY DEF TypeOK, Outcome

\* A step that neither applies the statement nor ends the call, or ends it
\* while nothing is unanswered.
LEMMA QuietStep ==
    ASSUME TypeOK, NEW c \in Calls, SettledCall(c),
           pc[c] \notin Ended \cup {"applied"},
           NEW p, p # "ok", pc' = [pc EXCEPT ![c] = p],
           UNCHANGED <<applied, lost>>
    PROVE  Service!Fail(c) \/ UNCHANGED <<Outcome, applied, lost>>
<1>1. Outcome[c] = "open" /\ Outcome \in [Calls -> {"open", "ok", "failed"}]
    BY DEF Outcome, Ended
<1>2. Outcome' = [Outcome EXCEPT ![c] = IF p \in Ended THEN "failed" ELSE "open"]
    BY OutcomeStep
<1>3. applied[c] = lost[c]
    BY DEF SettledCall, Ended
<1>4. CASE p \in Ended
    BY <1>1, <1>2, <1>3, <1>4 DEF Service!Fail, Service!Open
<1>5. CASE p \notin Ended
    BY <1>1, <1>2, <1>5
<1> QED
    BY <1>4, <1>5

\* A failure loses the answer that is under way, if one is.
LEMMA FailureStep ==
    ASSUME TypeOK, NEW c \in Calls, SettledCall(c), Querying(c), CountLost(c),
           NEW p, p # "ok", pc' = [pc EXCEPT ![c] = p]
    PROVE  Service!Fail(c) \/ Service!Lose(c) \/ UNCHANGED <<Outcome, applied, lost>>
<1>1. CASE pc[c] = "busy"
    <2>1. pc[c] \notin Ended \cup {"applied"} /\ UNCHANGED <<applied, lost>>
        BY <1>1 DEF CountLost, Ended
    <2> QED
        BY <2>1, QuietStep
<1>2. CASE pc[c] = "applied"
    <2>1. Outcome[c] = "open" /\ pc[c] \notin Ended
        BY <1>2 DEF Outcome, Ended
    <2>2. \E o \in {"open", "failed"} : Outcome' = [Outcome EXCEPT ![c] = o]
        BY <2>1, OutcomeStep
    <2>3. /\ applied[c] = lost[c] + 1 /\ applied' = applied
          /\ lost' = [lost EXCEPT ![c] = @ + 1]
        BY <1>2 DEF SettledCall, CountLost
    <2> QED
        BY <2>1, <2>2, <2>3 DEF Service!Lose, Service!Open, Service!Unanswered
<1> QED
    BY <1>1, <1>2 DEF Querying

\* Every step of a call is a step of the service, or none.
LEMMA StepRefines ==
    ASSUME TypeOK, NEW c \in Calls, SettledCall(c), Begin(c) \/ Step(c)
    PROVE  \/ Service!Apply(c) \/ Service!Lose(c) \/ Service!Succeed(c)
           \/ Service!Fail(c) \/ UNCHANGED <<Outcome, applied, lost>>
<1> DEFINE Quiet(p) == /\ pc[c] \notin Ended \cup {"applied"} /\ p # "ok"
                       /\ pc' = [pc EXCEPT ![c] = p]
                       /\ UNCHANGED <<applied, lost>>
<1>1. ASSUME NEW p, Quiet(p)
      PROVE  Service!Fail(c) \/ UNCHANGED <<Outcome, applied, lost>>
    BY <1>1, QuietStep
<1>2. CASE Begin(c) \/ SystemTable(c) \/ LookUp(c) \/ Acquire(c) \/ Wake(c)
    <2>1. \E p \in {"validate", "refused", "waiting", "busy"} : Quiet(p)
        BY <1>2 DEF Begin, SystemTable, LookUp, Acquire, Wake, Goes, effects, Ended
    <2> QED
        BY <1>1, <2>1
<1>3. CASE Validate(c) \/ Assess(c)
    <2>1. \E p \in {"tables", "refused", "denied", "waiting"} : Quiet(p)
        BY <1>3 DEF Validate, Assess, Goes, effects, Ended
    <2> QED
        BY <1>1, <2>1
<1>4. ASSUME NEW t \in left[c], Tabled(c, t)
      PROVE  Service!Fail(c) \/ UNCHANGED <<Outcome, applied, lost>>
    <2>1. \E p \in {"tables", "refused"} : Quiet(p)
        BY <1>4 DEF Tabled, Goes, effects, Ended
    <2> QED
        BY <1>1, <2>1
<1>5. CASE Apply(c)
    <2>1. /\ pc[c] = "busy" /\ pc' = [pc EXCEPT ![c] = "applied"]
          /\ applied' = [applied EXCEPT ![c] = @ + 1] /\ lost' = lost
        BY <1>5 DEF Apply, Goes
    <2>2. Outcome[c] = "open" /\ pc[c] \notin Ended /\ applied[c] = lost[c]
        BY <2>1 DEF Outcome, Ended, SettledCall
    <2>3. Outcome' = [Outcome EXCEPT ![c] = "open"]
        BY <2>1, <2>2, OutcomeStep DEF Ended
    <2>4. Outcome' = Outcome
        BY <2>2, <2>3 DEF Outcome
    <2> QED
        BY <2>1, <2>2, <2>4 DEF Service!Apply, Service!Open
<1>6. CASE Answer(c)
    <2>1. /\ pc[c] = "applied" /\ pc' = [pc EXCEPT ![c] = "ok"]
          /\ UNCHANGED <<applied, lost>>
        BY <1>6 DEF Answer, Goes
    <2>2. Outcome[c] = "open" /\ pc[c] \notin Ended /\ applied[c] = lost[c] + 1
        BY <2>1 DEF Outcome, Ended, SettledCall
    <2>3. Outcome' = [Outcome EXCEPT ![c] = "ok"]
        BY <2>1, <2>2, OutcomeStep
    <2> QED
        BY <2>1, <2>2, <2>3 DEF Service!Succeed, Service!Open, Service!Unanswered
<1>7. CASE Retry(c) \/ RunAgain(c) \/ GiveUp(c) \/ Fail(c)
    <2>1. /\ Querying(c) /\ CountLost(c)
          /\ \E p \in {"backoff", "again", "gaveup", "error"} :
                pc' = [pc EXCEPT ![c] = p]
        BY <1>7 DEF Retry, RunAgain, GiveUp, Fail, Goes
    <2> QED
        BY <2>1, FailureStep
<1> QED
    BY <1>2, <1>3, <1>4, <1>5, <1>6, <1>7 DEF Step

\* query_database with its guard, the pool and both layers of retries
\* implements StatementService: it applies a statement again only when the
\* answer was lost, and what it reports is what the last answer said.
THEOREM Refinement == Spec => KeepsPromise
<1>1. Init => Service!Init
    BY DEF Init, Service!Init, Outcome, Ended
<1>2. Inv /\ [Next]_vars => [Service!Next]_(Service!vars)
    <2> SUFFICES ASSUME Inv, [Next]_vars
                 PROVE  Service!Next \/ UNCHANGED <<Outcome, applied, lost>>
        BY DEF Service!vars
    <2>1. ASSUME NEW c \in Calls, Begin(c) \/ Step(c)
          PROVE  Service!Next \/ UNCHANGED <<Outcome, applied, lost>>
        BY <2>1, StepRefines DEF Inv, CallInv, Service!Next
    <2>2. CASE UNCHANGED vars
        BY <2>2 DEF vars, Outcome
    <2> QED
        BY <2>1, <2>2 DEF Next
<1> QED
    BY <1>1, <1>2, Invariance, PTL DEF Spec, KeepsPromise, Service!Spec
=============================================================================
