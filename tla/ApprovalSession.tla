-------------------------- MODULE ApprovalSession --------------------------
(***************************************************************************)
(* One conversation thread: the /query, /stream and /approve handlers of   *)
(* api/routes.py, run_query and handle_interrupt of agent/analyst_agent.py,*)
(* the interrupt_on configuration of middleware/config.py, and the position*)
(* of the agent's graph that the checkpointer keeps for the thread.        *)
(*                                                                         *)
(* The graph is external.  A run of it starts from the saved position of   *)
(* the thread and saves its own position after each node; nothing keeps    *)
(* two runs of one thread apart, and the last one to save wins.  The model *)
(* may answer, or ask for query_database, which interrupts for approval;   *)
(* a run may raise in any node.  Tools that need no approval change        *)
(* nothing that is modelled here and are part of the model's step.         *)
(* Requests that the intent gate answers do not reach the graph.           *)
(***************************************************************************)
EXTENDS Integers, FiniteSets

CONSTANTS
    Handlers,   \* requests that may be in progress at a time
    Durable,    \* setup_checkpointer reached PostgreSQL: positions survive a
                \*   restart; otherwise InMemorySaver keeps them
    MaxTurns,   \* bound: AI messages that ask for query_database
    MaxCalls,   \* bound: calls of query_database in one such message
    MaxCrashes, \* bound: restarts of the process
    MaxLost     \* bound: executions of a turn whose results are lost

ASSUME SessionConstants ==
    /\ Durable \in BOOLEAN
    /\ MaxTurns \in Nat
    /\ MaxCalls \in Nat \ {0}
    /\ MaxCrashes \in Nat
    /\ MaxLost \in Nat

VARIABLES
    saved,     \* the thread's checkpoint: the node to run next, and the AI
               \*   message (turn) whose calls are pending there
    turns,     \* how many turns there were
    calls,     \* how many calls of query_database each turn has
    pc,        \* the node a handler's run is in
    request,   \* what the handler was asked
    turn,      \* the pending turn, as the handler's run sees it
    decided,   \* the turn the handler's decision was taken for
    crashes,
    approved,  \* history: turns a reviewer approved
    ran,       \* history: how often the calls of a turn were executed
    audit,     \* history: the records of audit.jsonl, with the turn that was
               \*   decided (the record itself names the thread only)
    raced,     \* history: two requests overlapped, or the process ended
    stuck,     \* history: turns with a run that raised in its tools node, which
               \*   leaves the saved position there
    lost,      \* history: how often that was after the calls were executed
    rejectRan  \* history: turns executed by a run that a rejection resumed

handler == <<pc, request, turn, decided>>
failures == <<stuck, lost, rejectRan>>
history == <<approved, ran, audit, raced, stuck, lost, rejectRan>>
vars == <<saved, turns, calls, handler, crashes, history>>

Turns == 1..MaxTurns
None == 0
Decisions == {"approve", "reject"}

TypeOK ==
    /\ saved \in [at : {"new", "end", "model", "review", "tools"},
                  turn : {None} \cup Turns]
    /\ turns \in 0..MaxTurns
    /\ calls \in [Turns -> 0..MaxCalls]
    /\ pc \in [Handlers -> {"idle", "model", "tools", "ran"}]
    /\ request \in [Handlers -> {"none", "query"} \cup Decisions]
    /\ turn \in [Handlers -> {None} \cup Turns]
    /\ decided \in [Handlers -> {None} \cup Turns]
    /\ crashes \in 0..MaxCrashes
    /\ approved \subseteq Turns
    /\ ran \in [Turns -> Nat]
    /\ audit \subseteq [decision : Decisions, turn : {None} \cup Turns]
    /\ raced \in BOOLEAN
    /\ stuck \subseteq Turns
    /\ lost \in [Turns -> 0..MaxLost]
    /\ rejectRan \subseteq Turns

Init ==
    /\ saved = [at |-> "new", turn |-> None]
    /\ turns = 0
    /\ calls = [t \in Turns |-> 0]
    /\ pc = [h \in Handlers |-> "idle"]
    /\ request = [h \in Handlers |-> "none"]
    /\ turn = [h \in Handlers |-> None]
    /\ decided = [h \in Handlers |-> None]
    /\ crashes = 0
    /\ approved = {}
    /\ ran = [t \in Turns |-> 0]
    /\ audit = {}
    /\ raced = FALSE
    /\ stuck = {}
    /\ lost = [t \in Turns |-> 0]
    /\ rejectRan = {}

-----------------------------------------------------------------------------

Idle == \A h \in Handlers : pc[h] = "idle"

\* A run of the graph saves the node that comes next.
Save(node, t) == saved' = [at |-> node, turn |-> t]

\* The run of handler h starts at a node, on behalf of a request.
Starts(h, r, node, t, d) ==
    /\ pc' = [pc EXCEPT ![h] = node]
    /\ request' = [request EXCEPT ![h] = r]
    /\ turn' = [turn EXCEPT ![h] = t]
    /\ decided' = [decided EXCEPT ![h] = d]
    /\ raced' = (raced \/ ~Idle)

\* The handler has replied or raised.
Ends(h) ==
    /\ pc' = [pc EXCEPT ![h] = "idle"]
    /\ request' = [request EXCEPT ![h] = "none"]
    /\ turn' = [turn EXCEPT ![h] = None]
    /\ decided' = [decided EXCEPT ![h] = None]

\* /query and /stream: the user's message is added to the thread and the model
\* called; calls that waited there are abandoned.
Query(h) ==
    /\ pc[h] = "idle"
    /\ Starts(h, "query", "model", None, None)
    /\ Save("model", None)
    /\ UNCHANGED <<turns, calls, crashes, approved, ran, audit, failures>>

\* handle_interrupt that sends an approval whatever was decided.
AlwaysApprove(d) == "approve"
Sent(d) == d

\* The decisions handle_interrupt sends: one, however many calls wait.
OneDecision == 1

\* /approve while a turn waits for review: the decision settles its calls if
\* there are as many as decisions; approved ones are executed next, after
\* rejected ones the model is told.
Resumes(h, d) ==
    LET t == saved.turn
        node == IF Sent(d) = "approve" THEN "tools" ELSE "model" IN
    /\ pc[h] = "idle"
    /\ saved.at = "review"
    /\ calls[t] = OneDecision
    /\ Starts(h, d, node, t, t)
    /\ Save(node, t)
    /\ approved' = IF d = "approve" THEN approved \cup {t} ELSE approved
    /\ UNCHANGED <<turns, calls, crashes, ran, failures>>

\* The decision written down before it is carried out.
DecideAndLog(h, d) ==
    /\ Resumes(h, d)
    /\ audit' = audit \cup {[decision |-> d, turn |-> saved.turn]}
Decide(h, d) ==
    /\ Resumes(h, d)
    /\ UNCHANGED audit

\* /approve while the thread's last run broke off, or another one is going on:
\* the graph goes on from its saved position, whatever was decided.
GoOn(h, d) ==
    /\ pc[h] = "idle"
    /\ saved.at \in {"model", "tools"}
    /\ Starts(h, d, saved.at, saved.turn, None)
    /\ UNCHANGED <<saved, turns, calls, crashes, approved, ran, audit, failures>>

\* The log that takes every request for a decision.
LogRequest(h) ==
    audit' = audit \cup {[decision |-> request[h], turn |-> decided[h]]}

\* The record that is written when handle_interrupt has returned.
LogDecision(h) ==
    audit' = IF request[h] \in Decisions
             THEN audit \cup {[decision |-> request[h], turn |-> decided[h]]}
             ELSE audit

\* /approve on a thread where nothing is pending: the graph has nothing to do
\* and returns, and the decision is logged.
DecideNothing(h, d) ==
    /\ pc[h] = "idle"
    /\ saved.at = "end"
    /\ audit' = audit \cup {[decision |-> d, turn |-> None]}
    /\ UNCHANGED <<saved, turns, calls, handler, crashes, approved, ran, raced,
                   failures>>

\* The model answers; the handler replies.
ModelAnswers(h) ==
    /\ pc[h] = "model"
    /\ Save("end", None)
    /\ LogDecision(h)
    /\ Ends(h)
    /\ UNCHANGED <<turns, calls, crashes, approved, ran, raced, failures>>

\* query_database left out of interrupt_on.
NextIsTools == "tools"

\* Where the graph goes when the model has asked for query_database.
NextIsReview == "review"

\* The model asks for n calls of query_database: the graph interrupts and the
\* handler replies: /query with the approval request, /approve as if it were done.
ModelCalls(h, n) ==
    /\ pc[h] = "model"
    /\ turns < MaxTurns
    /\ turns' = turns + 1
    /\ calls' = [calls EXCEPT ![turns'] = n]
    /\ Save(NextIsReview, turns')
    /\ LogDecision(h)
    /\ Ends(h)
    /\ UNCHANGED <<crashes, approved, ran, raced, failures>>

\* The run raises: in the model's node, or in the tools node before or after the
\* database has executed the statements (query_database re-raises a lost connection,
\* saving the results may fail), or the client of /stream goes away.  /query replies
\* with the error and /approve with status 500, before it has logged anything; the
\* saved position is still before the node.
RunRaises(h) ==
    /\ pc[h] # "idle"
    /\ Ends(h)
    /\ stuck' = IF pc[h] = "model" THEN stuck ELSE stuck \cup {turn[h]}
    /\ IF pc[h] = "ran"
       THEN /\ lost[turn[h]] < MaxLost
            /\ lost' = [lost EXCEPT ![turn[h]] = @ + 1]
       ELSE UNCHANGED lost
    /\ UNCHANGED <<saved, turns, calls, crashes, approved, ran, audit, raced, rejectRan>>

\* The database executes the statements of the turn.
Execute(h) ==
    /\ pc[h] = "tools"
    /\ ran' = [ran EXCEPT ![turn[h]] = @ + 1]
    /\ rejectRan' = IF request[h] = "reject" THEN rejectRan \cup {turn[h]} ELSE rejectRan
    /\ pc' = [pc EXCEPT ![h] = "ran"]
    /\ UNCHANGED <<saved, turns, calls, request, turn, decided, crashes, approved,
                   audit, raced, stuck, lost>>

\* Results that only the run keeps, and results saved with the thread.
KeepResults(h) == saved' = saved
StoreResults(h) == Save("model", turn[h])

\* The results, or errors, go to the model, and to the checkpoint.
SaveResults(h) ==
    /\ pc[h] = "ran"
    /\ StoreResults(h)
    /\ pc' = [pc EXCEPT ![h] = "model"]
    /\ UNCHANGED <<turns, calls, request, turn, decided, crashes, history>>

\* The process ends and is started again.
Restart ==
    /\ crashes < MaxCrashes
    /\ crashes' = crashes + 1
    /\ raced' = TRUE
    /\ pc' = [h \in Handlers |-> "idle"]
    /\ request' = [h \in Handlers |-> "none"]
    /\ turn' = [h \in Handlers |-> None]
    /\ decided' = [h \in Handlers |-> None]
    /\ saved' = IF Durable THEN saved ELSE [at |-> "new", turn |-> None]
    /\ UNCHANGED <<turns, calls, approved, ran, audit, failures>>

Next ==
    \/ \E h \in Handlers :
          \/ Query(h)
          \/ \E d \in Decisions : Decide(h, d) \/ GoOn(h, d) \/ DecideNothing(h, d)
          \/ ModelAnswers(h) \/ RunRaises(h)
          \/ \E n \in 1..MaxCalls : ModelCalls(h, n)
          \/ Execute(h) \/ SaveResults(h)
    \/ Restart

Spec == Init /\ [][Next]_vars

-----------------------------------------------------------------------------
(* Properties *)

\* No statement of query_database is executed unless a reviewer approved the
\* turn it belongs to, also when runs of the thread overlap, break off or go on
\* after a restart (README.md:30, middleware/config.py:25-31).
RunsNeedApproval ==
    \A t \in Turns : ran[t] > 0 => t \in approved

\* One request at a time, and as long as the process lives, the statements of a
\* turn are executed once, and once more for every run that raised after executing
\* them: results that were saved before the model was called again are never asked
\* for a second time, however often a request that failed is repeated.
RunOnce ==
    ~raced => \A t \in Turns : ran[t] <= 1 + lost[t]

\* A rejection sets nothing going (api-spec.yaml:108), except the statements of a
\* turn that was approved and whose run raised in its tools node: there a rejection
\* goes on as any request does.
RejectRunsNothing ==
    ~raced => rejectRan \subseteq stuck \cap approved

\* What the audit log calls approved was executed: the record is written after
\* the run it is about, and a decision that found nothing waiting has no turn.
LoggedApprovalRan ==
    \A t \in Turns : [decision |-> "approve", turn |-> t] \in audit => ran[t] > 0
=============================================================================
