----------------------- MODULE ApprovalSessionProofs -----------------------
(***************************************************************************)
(* Proofs of the safety properties of ApprovalSession for any number of    *)
(* handlers and any bounds.  Three parts of the inductive invariant Inv    *)
(* say what the proofs turn on: an execution is only ever reached through  *)
(* an approved turn (Approvals), a record is only written by a handler     *)
(* whose statements were executed (Records), and without overlaps and      *)
(* restarts the saved position and the one active handler agree (Alone).   *)
(***************************************************************************)
EXTENDS ApprovalSession, TLAPS

AtTools(h) == pc[h] \in {"tools", "ran"}

Approvals ==
    /\ saved.at = "tools" => saved.turn \in approved
    /\ \A h \in Handlers : AtTools(h) => turn[h] \in approved
    /\ RunsNeedApproval
    /\ rejectRan \subseteq approved

Records ==
    /\ \A h \in Handlers : pc[h] = "ran" => ran[turn[h]] > 0
    /\ \A h \in Handlers :
          request[h] = "approve" /\ decided[h] # None =>
             IF AtTools(h) THEN turn[h] = decided[h] ELSE ran[decided[h]] > 0
    /\ LoggedApprovalRan

\* Turns that were not opened yet are nowhere pending and were not executed.
Fresh ==
    /\ saved.turn <= turns
    /\ \A h \in Handlers : turn[h] <= turns
    /\ \A t \in Turns : t > turns => ran[t] = 0

\* Where no handler is in the tools node, the saved position is there because a run
\* raised; what was executed more than that lost is still being executed.
Alone ==
    ~raced =>
        /\ \A h, g \in Handlers : pc[h] # "idle" /\ pc[g] # "idle" => h = g
        /\ saved.at = "tools" =>
              \/ \E h \in Handlers : AtTools(h)
              \/ saved.turn \in stuck /\ ran[saved.turn] <= lost[saved.turn]
        /\ saved.at = "review" => ran[saved.turn] = 0
        /\ \A h \in Handlers :
              /\ AtTools(h) => /\ saved.at = "tools" /\ saved.turn = turn[h]
                               /\ request[h] = "approve" \/ turn[h] \in stuck
              /\ pc[h] = "tools" => ran[turn[h]] <= lost[turn[h]]
        /\ RunOnce
        /\ rejectRan \subseteq stuck

\* What waits for a review, and what a run executes, is a turn.
Pending ==
    /\ saved.at \in {"review", "tools"} => saved.turn \in Turns
    /\ \A h \in Handlers : AtTools(h) => turn[h] \in Turns

Inv == TypeOK /\ Pending /\ Fresh /\ Approvals /\ Records /\ Alone

-----------------------------------------------------------------------------
(* Every part of the invariant is preserved. *)

\* Every action keeps the types.
LEMMA TypePreserved ==
    ASSUME TypeOK, Pending, [Next]_vars
    PROVE  TypeOK'
<1> USE DEF TypeOK, Pending, Turns, None, Decisions, AtTools
<1>1. ASSUME NEW h \in Handlers, Query(h) PROVE TypeOK'
    BY <1>1 DEF Query, Starts, Save, failures
<1>2. ASSUME NEW h \in Handlers, NEW d \in Decisions, Decide(h, d) PROVE TypeOK'
    BY <1>2 DEF Decide, Resumes, Starts, Save, Sent, failures
<1>3. ASSUME NEW h \in Handlers, NEW d \in Decisions, GoOn(h, d) PROVE TypeOK'
    BY <1>3 DEF GoOn, Starts, failures
<1>4. ASSUME NEW h \in Handlers, NEW d \in Decisions, DecideNothing(h, d) PROVE TypeOK'
    BY <1>4 DEF DecideNothing, handler, failures
<1>5. ASSUME NEW h \in Handlers, ModelAnswers(h) PROVE TypeOK'
    BY <1>5 DEF ModelAnswers, Save, LogDecision, Ends, failures
<1>6. ASSUME NEW h \in Handlers, RunRaises(h) PROVE TypeOK'
    <2>1. pc[h] # "model" => turn[h] \in Turns
        BY <1>6 DEF RunRaises
    <2>2. lost' \in [Turns -> 0..MaxLost]
        <3>1. CASE pc[h] = "ran"
            <4>1. turn[h] \in Turns /\ lost[turn[h]] < MaxLost
                BY <1>6, <2>1, <3>1 DEF RunRaises
            <4>2. lost[turn[h]] + 1 \in 0..MaxLost
                BY <4>1, SessionConstants
            <4> QED
                BY <1>6, <3>1, <4>1, <4>2 DEF RunRaises
        <3>2. CASE pc[h] # "ran"
            BY <1>6, <3>2 DEF RunRaises
        <3> QED
            BY <3>1, <3>2
    <2>3. stuck' \subseteq Turns
        BY <1>6, <2>1 DEF RunRaises
    <2> QED
        BY <1>6, <2>2, <2>3 DEF RunRaises, Ends
<1>7. ASSUME NEW h \in Handlers, NEW n \in 1..MaxCalls, ModelCalls(h, n) PROVE TypeOK'
    <2>1. turns' \in Turns
        BY <1>7, SessionConstants DEF ModelCalls
    <2>2. n \in 0..MaxCalls
        BY SessionConstants
    <2>3. calls' \in [Turns -> 0..MaxCalls] /\ turns' \in 0..MaxTurns
        BY <1>7, <2>1, <2>2 DEF ModelCalls
    <2> QED
        BY <1>7, <2>1, <2>3 DEF ModelCalls, Save, NextIsReview, LogDecision, Ends, failures
<1>8. ASSUME NEW h \in Handlers, Execute(h) PROVE TypeOK'
    <2>1. turn[h] \in Turns
        BY <1>8 DEF Execute
    <2>2. ran[turn[h]] + 1 \in Nat
        BY <2>1
    <2>3. ran' = [ran EXCEPT ![turn[h]] = ran[turn[h]] + 1]
        BY <1>8 DEF Execute
    <2>4. ran' \in [Turns -> Nat]
        BY <2>1, <2>2, <2>3
    <2>5. rejectRan' \subseteq Turns
        BY <1>8, <2>1 DEF Execute
    <2> QED
        BY <1>8, <2>4, <2>5 DEF Execute
<1>9. ASSUME NEW h \in Handlers, SaveResults(h) PROVE TypeOK'
    BY <1>9 DEF SaveResults, StoreResults, Save, history, failures
<1>10. CASE Restart
    <2>1. crashes' \in 0..MaxCrashes
        BY <1>10, SessionConstants DEF Restart
    <2> QED
        BY <1>10, <2>1 DEF Restart, failures
<1>11. CASE UNCHANGED vars
    BY <1>11 DEF vars, handler, history, failures
<1> QED
    BY <1>1, <1>2, <1>3, <1>4, <1>5, <1>6, <1>7, <1>8, <1>9, <1>10, <1>11 DEF Next

\* Only turns that were opened get pending.
LEMMA PendingPreserved ==
    ASSUME TypeOK, Pending, [Next]_vars
    PROVE  Pending'
<1> USE DEF TypeOK, Pending, Turns, None, AtTools
<1>1. ASSUME NEW h \in Handlers, Query(h) PROVE Pending'
    BY <1>1 DEF Query, Starts, Save, failures
<1>2. ASSUME NEW h \in Handlers, NEW d \in Decisions, Decide(h, d) PROVE Pending'
    BY <1>2 DEF Decide, Resumes, Starts, Save, Sent, failures
<1>3. ASSUME NEW h \in Handlers, NEW d \in Decisions, GoOn(h, d) PROVE Pending'
    BY <1>3 DEF GoOn, Starts, failures
<1>4. ASSUME NEW h \in Handlers, NEW d \in Decisions, DecideNothing(h, d) PROVE Pending'
    BY <1>4 DEF DecideNothing, handler, failures
<1>5. ASSUME NEW h \in Handlers, ModelAnswers(h) PROVE Pending'
    BY <1>5 DEF ModelAnswers, Save, LogDecision, Ends, failures
<1>6. ASSUME NEW h \in Handlers, RunRaises(h) PROVE Pending'
    BY <1>6 DEF RunRaises, Ends
<1>7. ASSUME NEW h \in Handlers, NEW n \in 1..MaxCalls, ModelCalls(h, n) PROVE Pending'
    <2>1. turns' \in Turns
        BY <1>7, SessionConstants DEF ModelCalls
    <2> QED
        BY <1>7, <2>1 DEF ModelCalls, Save, NextIsReview, Ends, failures
<1>8. ASSUME NEW h \in Handlers, Execute(h) PROVE Pending'
    BY <1>8 DEF Execute
<1>9. ASSUME NEW h \in Handlers, SaveResults(h) PROVE Pending'
    BY <1>9 DEF SaveResults, StoreResults, Save, history, failures
<1>10. CASE Restart
    BY <1>10 DEF Restart, failures
<1>11. CASE UNCHANGED vars
    BY <1>11 DEF vars, handler, history, failures
<1> QED
    BY <1>1, <1>2, <1>3, <1>4, <1>5, <1>6, <1>7, <1>8, <1>9, <1>10, <1>11 DEF Next

\* A new turn has a number nobody used.
LEMMA FreshPreserved ==
    ASSUME TypeOK, Pending, Fresh, [Next]_vars
    PROVE  Fresh'
<1> USE DEF TypeOK, Pending, Fresh, Turns, None, AtTools
<1>1. ASSUME NEW h \in Handlers, Query(h) PROVE Fresh'
    BY <1>1 DEF Query, Starts, Save, failures
<1>2. ASSUME NEW h \in Handlers, NEW d \in Decisions, Decide(h, d) PROVE Fresh'
    BY <1>2 DEF Decide, Resumes, Starts, Save, Sent, failures
<1>3. ASSUME NEW h \in Handlers, NEW d \in Decisions, GoOn(h, d) PROVE Fresh'
    BY <1>3 DEF GoOn, Starts, failures
<1>4. ASSUME NEW h \in Handlers, NEW d \in Decisions, DecideNothing(h, d) PROVE Fresh'
    BY <1>4 DEF DecideNothing, handler, failures
<1>5. ASSUME NEW h \in Handlers, ModelAnswers(h) PROVE Fresh'
    BY <1>5 DEF ModelAnswers, Save, LogDecision, Ends, failures
<1>6. ASSUME NEW h \in Handlers, RunRaises(h) PROVE Fresh'
    BY <1>6 DEF RunRaises, Ends
<1>7. ASSUME NEW h \in Handlers, NEW n \in 1..MaxCalls, ModelCalls(h, n) PROVE Fresh'
    BY <1>7 DEF ModelCalls, Save, NextIsReview, LogDecision, Ends, failures
<1>8. ASSUME NEW h \in Handlers, Execute(h) PROVE Fresh'
    BY <1>8 DEF Execute
<1>9. ASSUME NEW h \in Handlers, SaveResults(h) PROVE Fresh'
    BY <1>9 DEF SaveResults, StoreResults, Save, history, failures
<1>10. CASE Restart
    BY <1>10 DEF Restart, failures
<1>11. CASE UNCHANGED vars
    BY <1>11 DEF vars, handler, history, failures
<1> QED
    BY <1>1, <1>2, <1>3, <1>4, <1>5, <1>6, <1>7, <1>8, <1>9, <1>10, <1>11 DEF Next

\* The tools node is entered through an approval, or from a checkpoint there.
LEMMA ApprovalsPreserved ==
    ASSUME TypeOK, Pending, Approvals, [Next]_vars
    PROVE  Approvals'
<1> USE DEF TypeOK, Pending, Approvals, RunsNeedApproval, Turns, None, AtTools
<1>1. ASSUME NEW h \in Handlers, Query(h) PROVE Approvals'
    BY <1>1 DEF Query, Starts, Save, failures
<1>2. ASSUME NEW h \in Handlers, NEW d \in Decisions, Decide(h, d) PROVE Approvals'
    BY <1>2 DEF Decide, Resumes, Starts, Save, Sent, failures
<1>3. ASSUME NEW h \in Handlers, NEW d \in Decisions, GoOn(h, d) PROVE Approvals'
    BY <1>3 DEF GoOn, Starts, failures
<1>4. ASSUME NEW h \in Handlers, NEW d \in Decisions, DecideNothing(h, d) PROVE Approvals'
    BY <1>4 DEF DecideNothing, handler, failures
<1>5. ASSUME NEW h \in Handlers, ModelAnswers(h) PROVE Approvals'
    BY <1>5 DEF ModelAnswers, Save, LogDecision, Ends, failures
<1>6. ASSUME NEW h \in Handlers, RunRaises(h) PROVE Approvals'
    BY <1>6 DEF RunRaises, Ends
<1>7. ASSUME NEW h \in Handlers, NEW n \in 1..MaxCalls, ModelCalls(h, n) PROVE Approvals'
    BY <1>7 DEF ModelCalls, Save, NextIsReview, LogDecision, Ends, failures
<1>8. ASSUME NEW h \in Handlers, Execute(h) PROVE Approvals'
    BY <1>8 DEF Execute
<1>9. ASSUME NEW h \in Handlers, SaveResults(h) PROVE Approvals'
    BY <1>9 DEF SaveResults, StoreResults, Save, history, failures
<1>10. CASE Restart
    BY <1>10 DEF Restart, failures
<1>11. CASE UNCHANGED vars
    BY <1>11 DEF vars, handler, history, failures
<1> QED
    BY <1>1, <1>2, <1>3, <1>4, <1>5, <1>6, <1>7, <1>8, <1>9, <1>10, <1>11 DEF Next

\* A handler that logs an approval of its own has been through the tools node.
LEMMA RecordsPreserved ==
    ASSUME TypeOK, Pending, Records, [Next]_vars
    PROVE  Records'
<1> USE DEF TypeOK, Pending, Records, LoggedApprovalRan, Turns, None, AtTools, Decisions
<1>1. ASSUME NEW h \in Handlers, Query(h) PROVE Records'
    BY <1>1 DEF Query, Starts, Save, failures
<1>2. ASSUME NEW h \in Handlers, NEW d \in Decisions, Decide(h, d) PROVE Records'
    BY <1>2 DEF Decide, Resumes, Starts, Save, Sent, failures
<1>3. ASSUME NEW h \in Handlers, NEW d \in Decisions, GoOn(h, d) PROVE Records'
    BY <1>3 DEF GoOn, Starts, failures
<1>4. ASSUME NEW h \in Handlers, NEW d \in Decisions, DecideNothing(h, d) PROVE Records'
    BY <1>4 DEF DecideNothing, handler, failures
<1>5. ASSUME NEW h \in Handlers, ModelAnswers(h) PROVE Records'
    BY <1>5 DEF ModelAnswers, Save, LogDecision, Ends, failures
<1>6. ASSUME NEW h \in Handlers, RunRaises(h) PROVE Records'
    BY <1>6 DEF RunRaises, Ends
<1>7. ASSUME NEW h \in Handlers, NEW n \in 1..MaxCalls, ModelCalls(h, n) PROVE Records'
    BY <1>7 DEF ModelCalls, Save, NextIsReview, LogDecision, Ends, failures
<1>8. ASSUME NEW h \in Handlers, Execute(h) PROVE Records'
    BY <1>8 DEF Execute
<1>9. ASSUME NEW h \in Handlers, SaveResults(h) PROVE Records'
    BY <1>9 DEF SaveResults, StoreResults, Save, history, failures
<1>10. CASE Restart
    BY <1>10 DEF Restart, failures
<1>11. CASE UNCHANGED vars
    BY <1>11 DEF vars, handler, history, failures
<1> QED
    BY <1>1, <1>2, <1>3, <1>4, <1>5, <1>6, <1>7, <1>8, <1>9, <1>10, <1>11 DEF Next

\* Without overlaps the one active handler is where the checkpoint says.
LEMMA AlonePreserved ==
    ASSUME TypeOK, Pending, Fresh, Alone, [Next]_vars
    PROVE  Alone'
<1> USE DEF TypeOK, Pending, Fresh, Alone, RunOnce, Turns, None, AtTools, Idle,
       Decisions
<1>1. ASSUME NEW h \in Handlers, Query(h) PROVE Alone'
    BY <1>1 DEF Query, Starts, Save, failures
<1>2. ASSUME NEW h \in Handlers, NEW d \in Decisions, Decide(h, d) PROVE Alone'
    <2>1. /\ saved.at = "review" /\ ran' = ran /\ stuck' = stuck /\ lost' = lost
          /\ rejectRan' = rejectRan /\ raced' = (raced \/ ~Idle)
          /\ saved' = [at |-> IF d = "approve" THEN "tools" ELSE "model",
                       turn |-> saved.turn]
          /\ pc' = [pc EXCEPT ![h] = IF d = "approve" THEN "tools" ELSE "model"]
          /\ request' = [request EXCEPT ![h] = d]
          /\ turn' = [turn EXCEPT ![h] = saved.turn]
        BY <1>2 DEF Decide, Resumes, Starts, Save, Sent, failures
    <2>2. SUFFICES ASSUME ~raced, Idle PROVE Alone'
        BY <2>1
    <2>3. saved.turn \in Turns /\ ran[saved.turn] <= lost[saved.turn]
        BY <2>1, <2>2
    <2>4. RunOnce' /\ rejectRan' \subseteq stuck'
        BY <2>1, <2>2
    <2>5. CASE d = "approve"
        BY <2>1, <2>2, <2>3, <2>4, <2>5
    <2>6. CASE d = "reject"
        BY <2>1, <2>2, <2>3, <2>4, <2>6
    <2> QED
        BY <2>5, <2>6
<1>3. ASSUME NEW h \in Handlers, NEW d \in Decisions, GoOn(h, d) PROVE Alone'
    BY <1>3 DEF GoOn, Starts, failures
<1>4. ASSUME NEW h \in Handlers, NEW d \in Decisions, DecideNothing(h, d) PROVE Alone'
    BY <1>4 DEF DecideNothing, handler, failures
<1>5. ASSUME NEW h \in Handlers, ModelAnswers(h) PROVE Alone'
    BY <1>5 DEF ModelAnswers, Save, LogDecision, Ends, failures
<1>6. ASSUME NEW h \in Handlers, RunRaises(h) PROVE Alone'
    <2>1. /\ pc[h] # "idle" /\ pc'[h] = "idle"
          /\ \A g \in Handlers \ {h} : pc'[g] = pc[g]
          /\ saved' = saved /\ ran' = ran /\ raced' = raced /\ rejectRan' = rejectRan
        BY <1>6 DEF RunRaises, Ends
    <2>2. SUFFICES ASSUME ~raced PROVE Alone'
        BY <2>1
    <2>3. \A g \in Handlers : pc'[g] = "idle"
        BY <2>1, <2>2
    <2>4. CASE pc[h] = "model"
        <3>1. stuck' = stuck /\ lost' = lost
            BY <1>6, <2>4 DEF RunRaises
        <3> QED
            BY <2>1, <2>2, <2>3, <2>4, <3>1
    <2>5. CASE pc[h] = "tools"
        <3>1. stuck' = stuck \cup {turn[h]} /\ lost' = lost
            BY <1>6, <2>5 DEF RunRaises
        <3>2. saved.at = "tools" /\ saved.turn = turn[h] /\ ran[turn[h]] <= lost[turn[h]]
            BY <2>2, <2>5
        <3> QED
            BY <2>1, <2>2, <2>3, <3>1, <3>2
    <2>6. CASE pc[h] = "ran"
        <3>1. turn[h] \in Turns
            BY <2>6
        <3>2. /\ stuck' = stuck \cup {turn[h]} /\ lost'[turn[h]] = lost[turn[h]] + 1
              /\ \A t \in Turns \ {turn[h]} : lost'[t] = lost[t]
            BY <1>6, <2>6, <3>1 DEF RunRaises
        <3>3. saved.at = "tools" /\ saved.turn = turn[h]
            BY <2>2, <2>6
        <3>4. ran[turn[h]] <= 1 + lost[turn[h]]
            BY <2>2, <3>1
        <3>5. ran[turn[h]] <= lost'[turn[h]]
            BY <3>1, <3>2, <3>4
        <3>6. RunOnce'
            BY <2>1, <2>2, <3>1, <3>2, <3>5
        <3> QED
            BY <2>1, <2>2, <2>3, <3>2, <3>3, <3>5, <3>6
    <2> QED
        BY <2>1, <2>4, <2>5, <2>6
<1>7. ASSUME NEW h \in Handlers, NEW n \in 1..MaxCalls, ModelCalls(h, n) PROVE Alone'
    <2>1. turns' \in Turns /\ saved'.turn = turns' /\ saved'.at = "review"
        BY <1>7, SessionConstants DEF ModelCalls, Save, NextIsReview
    <2>2. /\ ran[turns'] = 0 /\ ran' = ran /\ raced' = raced
          /\ rejectRan' = rejectRan /\ stuck' = stuck /\ lost' = lost
        BY <1>7, <2>1 DEF ModelCalls, failures
    <2>3. ~raced => \A g \in Handlers : pc'[g] = "idle"
        BY <1>7 DEF ModelCalls, Ends
    <2> QED
        BY <2>1, <2>2, <2>3
<1>8. ASSUME NEW h \in Handlers, Execute(h) PROVE Alone'
    <2>1. turn[h] \in Turns /\ ran' = [ran EXCEPT ![turn[h]] = @ + 1]
        BY <1>8 DEF Execute
    <2>2. /\ ran'[turn[h]] = ran[turn[h]] + 1
          /\ \A t \in Turns \ {turn[h]} : ran'[t] = ran[t]
        BY <2>1
    <2>3. /\ pc'[h] = "ran" /\ \A g \in Handlers \ {h} : pc'[g] = pc[g]
          /\ saved' = saved /\ request' = request /\ turn' = turn /\ raced' = raced
          /\ stuck' = stuck /\ lost' = lost
        BY <1>8 DEF Execute
    <2>4. SUFFICES ASSUME ~raced PROVE Alone'
        BY <2>3
    <2>5. /\ saved.at = "tools" /\ saved.turn = turn[h]
          /\ request[h] = "approve" \/ turn[h] \in stuck
          /\ ran[turn[h]] <= lost[turn[h]]
          /\ \A g \in Handlers \ {h} : pc[g] = "idle"
        BY <1>8, <2>4 DEF Execute
    <2>6. RunOnce'
        BY <2>1, <2>2, <2>3, <2>4, <2>5
    <2>7. rejectRan' \subseteq stuck
        BY <1>8, <2>4, <2>5 DEF Execute
    <2> QED
        BY <2>3, <2>4, <2>5, <2>6, <2>7
<1>9. ASSUME NEW h \in Handlers, SaveResults(h) PROVE Alone'
    BY <1>9 DEF SaveResults, StoreResults, Save, history, failures
<1>10. CASE Restart
    BY <1>10 DEF Restart, failures
<1>11. CASE UNCHANGED vars
    BY <1>11 DEF vars, handler, history, failures
<1> QED
    BY <1>1, <1>2, <1>3, <1>4, <1>5, <1>6, <1>7, <1>8, <1>9, <1>10, <1>11 DEF Next

-----------------------------------------------------------------------------
(* The invariant and the properties that follow from it *)

\* A thread without turns satisfies the invariant.
LEMMA InvInit == Init => Inv
<1> SUFFICES ASSUME Init PROVE Inv
    OBVIOUS
<1>1. 0 \in 0..MaxTurns /\ 0 \in 0..MaxCalls /\ 0 \in 0..MaxCrashes /\ 0 \in 0..MaxLost
    BY SessionConstants
<1>2. TypeOK
    <2>1. saved \in [at : {"new", "end", "model", "review", "tools"},
                     turn : {None} \cup Turns]
        BY DEF Init
    <2>2. /\ calls \in [Turns -> 0..MaxCalls] /\ ran \in [Turns -> Nat]
          /\ lost \in [Turns -> 0..MaxLost]
        BY <1>1 DEF Init
    <2>3. /\ pc \in [Handlers -> {"idle", "model", "tools", "ran"}]
          /\ request \in [Handlers -> {"none", "query"} \cup Decisions]
          /\ turn \in [Handlers -> {None} \cup Turns]
          /\ decided \in [Handlers -> {None} \cup Turns]
        BY DEF Init
    <2> QED
        BY <1>1, <2>1, <2>2, <2>3 DEF Init, TypeOK
<1>3. Pending /\ Fresh /\ Approvals /\ Records
    BY <1>1 DEF Init, Pending, Fresh, Approvals, Records, AtTools, RunsNeedApproval,
           LoggedApprovalRan, None
<1>4. Alone
    BY DEF Init, Alone, AtTools, RunOnce
<1> QED
    BY <1>2, <1>3, <1>4 DEF Inv

\* Every step of a handler, and a restart, keeps the invariant.
LEMMA InvNext == Inv /\ [Next]_vars => Inv'
BY TypePreserved, PendingPreserved, FreshPreserved, ApprovalsPreserved,
   RecordsPreserved, AlonePreserved DEF Inv

\* The inductive invariant holds of the session, for any number of handlers,
\* turns, calls and restarts.
THEOREM Invariance == Spec => []Inv
    BY InvInit, InvNext, PTL DEF Spec

\* The variables keep their types.
THEOREM Typing == Spec => []TypeOK
<1>1. Inv => TypeOK
    BY DEF Inv
<1> QED
    BY <1>1, Invariance, PTL

\* Nothing is executed that no reviewer approved, for any number of overlapping
\* requests and restarts (README.md:30, middleware/config.py:25-31).
THEOREM ExecutionNeedsApproval == Spec => []RunsNeedApproval
<1>1. Inv => RunsNeedApproval
    BY DEF Inv, Approvals
<1> QED
    BY <1>1, Invariance, PTL

\* One request at a time executes a turn once, and again only for results that a
\* run lost when it raised; repeated requests included.
THEOREM RepeatsAreHarmless == Spec => []RunOnce
<1>1. Inv => RunOnce
    BY DEF Inv, Alone, RunOnce
<1> QED
    BY <1>1, Invariance, PTL

\* One request at a time, a rejection executes nothing (api-spec.yaml:108) but an
\* approved turn whose run raised in its tools node.
THEOREM RejectionExecutesNothing == Spec => []RejectRunsNothing
<1>1. Inv => RejectRunsNothing
    BY DEF Inv, Alone, Approvals, RejectRunsNothing
<1> QED
    BY <1>1, Invariance, PTL

\* An approval in the audit log stands for statements that were executed.
THEOREM RecordsAreTrue == Spec => []LoggedApprovalRan
<1>1. Inv => LoggedApprovalRan
    BY DEF Inv, Records
<1> QED
    BY <1>1, Invariance, PTL
=============================================================================
