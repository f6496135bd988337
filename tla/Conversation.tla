--------------------------- MODULE Conversation ---------------------------
(***************************************************************************)
(* The messages of one conversation: what a request adds to them (/query   *)
(* and /approve of api/routes.py), what the model gets to see of the tools'*)
(* results (middleware/truncation.py, and its before_model hook in         *)
(* agent/analyst_agent.py), what is logged of them                         *)
(* (middleware/logging_wrapper.py, logging_middleware.py, core/recon.py),  *)
(* and what a reply takes from them.                                       *)
(*                                                                         *)
(* The graph that runs the nodes, the model, the tools and the hook that   *)
(* summarizes long conversations are external.  One request at a time is   *)
(* modelled; ApprovalSession has requests that overlap.  A result is a     *)
(* table, of which the rows, the longest cell and the note of what was cut *)
(* are kept, or a text, of which the length is.                            *)
(***************************************************************************)
EXTENDS RequestGate, Sequences, FiniteSets

CONSTANTS
    Tables,    \* tables of the database
    Requests,  \* what users write, a subset of Texts(Tables)
    Asks,      \* the calls an AI message may hold: sequences of tools
    Results,   \* the results a tool may have: [Tools -> SUBSET Raw]
    MaxRows,   \* settings.tool_result_max_rows
    MaxCell,   \* settings.tool_result_max_chars_per_cell
    MaxLen,    \* settings.tool_result_max_content_len
    MaxTurns,  \* bound: the requests that reach the agent
    MaxAsks,   \* bound: the AI messages with calls
    MaxBreaks  \* bound: the runs that break off

Tools == {"query_database", "create_chart", "get_table_schema", "get_sample_data"}

\* What tools return: QueryResult, a text, and an object without data, which
\* ChartResult is and others are.  Of a table, total rows were found and shown are
\* there; a note tells of rows that are not.  A length is that of the content, of
\* which a mark says that it was another.
Plain == [len : Nat, says : {0}]
NoNote == [rows |-> 0, text |-> [len |-> 0, says |-> 0]]
RawTable == {r \in [kind : {"table"}, ok : BOOLEAN, total : Nat, shown : Nat,
                    flag : {"none"}, note : {NoNote}, cell : Plain] : r.shown = r.total}
Object == [kind : {"object"}, ok : BOOLEAN]
Raw == RawTable \cup [kind : {"text"}, ok : BOOLEAN, text : Plain] \cup Object

ASSUME ConversationConstants ==
    /\ Results \in [Tools -> SUBSET Raw]
    /\ Results["create_chart"] \subseteq Object
    /\ Requests \subseteq Texts(Tables)
    /\ Asks \subseteq Seq(Tools) \ {<<>>}
    /\ {MaxRows, MaxCell, MaxLen} \subseteq Nat \ {0}
    /\ MaxTurns \in Nat /\ MaxAsks \in Nat /\ MaxBreaks \in Nat

VARIABLES
    messages,  \* the messages of the thread, as the checkpoint keeps them
    phase,     \* the node that runs, or that comes next
    handler,   \* the request in progress
    pending,   \* the last AI message's calls that are to be run: [position -> tool]
    results,   \* the results of those that have returned: [position -> result]
    turn,      \* the requests so far
    asks,      \* the AI messages with calls so far
    log,       \* the thread's records in tool_calls.jsonl
    breaks,    \* the runs that broke off so far
    reply,     \* what the last request was answered
    fresh,     \* history: tools that succeeded in this turn
    abandoned  \* history: turns whose calls a later request abandoned

run == <<phase, handler, pending, results>>
counts == <<turn, asks, breaks>>
history == <<fresh, abandoned>>
vars == <<messages, run, counts, log, reply, history>>

-----------------------------------------------------------------------------
(* Results, and what condensing makes of them *)

Powers == <<1, 10, 100, 1000, 10000, 100000, 1000000, 10000000, 100000000,
            1000000000>>
Digits(n) == Cardinality({d \in DOMAIN Powers : Powers[d] <= n})

\* A mark put after the whole of the text.
Marked(text, max, mark) ==
    IF text.len > max THEN [len |-> text.len + mark, says |-> text.len] ELSE text

\* A text that is cut ends with a mark that says how long it was.
Cut(text, max, mark) ==
    IF text.len > max THEN [len |-> max + mark + Digits(text.len), says |-> text.len]
    ELSE text
CutCell(cell) == Cut(cell, MaxCell, 9)
CutText(text) == Cut(text, MaxLen, 27)

\* The note, without the digits of its three numbers, has 27 characters.
Noted(total) ==
    [rows |-> total - MaxRows,
     text |-> [len |-> 27 + Digits(MaxRows) + Digits(total) + Digits(total - MaxRows),
               says |-> 0]]

\* The rows beyond MaxRows go, and their number is noted; otherwise the note is
\* what the field note is made.
Condensed(r, note) ==
    LET more == r.shown > MaxRows IN
    [r EXCEPT !.cell = CutCell(@),
              !.shown = IF more THEN MaxRows ELSE @,
              !.flag = IF more THEN "truncated" ELSE "whole",
              !.note = IF more THEN Noted(r.shown) ELSE note]

\* Condensing that keeps no note of an earlier condensing.
CondenseTableAfresh(r) == Condensed(r, NoNote)

\* A result that was cut before has no more than MaxRows rows: its flag says it is
\* whole, but the note is among RESULT_KEEP_FIELDS, and stays.  It is cut as a cell
\* is, if it is longer than one may be.
CondenseTable(r) == Condensed(r, [r.note EXCEPT !.text = CutCell(@)])

\* condense_tool_result: an object without a list of rows is left alone.
Condense(r) ==
    CASE r.kind = "table" -> CondenseTable(r)
      [] r.kind = "text" -> [r EXCEPT !.text = CutText(@)]
      [] r.kind = "object" -> r

\* str() of a ToolMessage: the result in quotes, among the message's fields.
Repr(r) ==
    LET quoted == CASE r.kind = "table" -> 150 + r.shown * r.cell.len
                    [] r.kind = "text" -> r.text.len
                    [] r.kind = "object" -> 150
    IN  [kind |-> "text", ok |-> TRUE, text |-> [len |-> 90 + quoted, says |-> 0]]

\* _capture_model_view
ModelView(r) == Condense(Repr(r))

-----------------------------------------------------------------------------
(* Messages *)

User == [type |-> "user"]
Asking(n, tools) == [type |-> "ai", ask |-> n, tools |-> tools]
Answer == [type |-> "ai", ask |-> 0, tools |-> <<>>]
Summary == [type |-> "user"]
\* The message of a result; raw remembers what is condensed.
ToolMessage(n, i, tool, result) ==
    [type |-> "tool", ask |-> n, call |-> i, tool |-> tool, turn |-> turn,
     result |-> result, raw |-> result, passes |-> 0]

Rejection == [kind |-> "text", ok |-> FALSE, text |-> [len |-> 60, says |-> 0]]

IsTool(m) == m.type = "tool"
IsRejection(m) == IsTool(m) /\ m.raw = Rejection

\* Condensing that gives a message another identity, without the call's.
CondenseMessageAnew(m) ==
    IF IsTool(m)
    THEN [m EXCEPT !.result = Condense(@), !.passes = IF @ < 4 THEN @ + 1 ELSE @,
                   !.call = 0]
    ELSE m

\* Condensing that lets the results of the last calls pass as they are.
CondenseEarlierResults(ms) ==
    [i \in DOMAIN ms |->
        IF ~IsTool(ms[i]) \/ ms[i].ask = asks THEN ms[i]
        ELSE [ms[i] EXCEPT !.result = Condense(@),
                           !.passes = IF @ < 4 THEN @ + 1 ELSE @]]

\* condense_tool_results; passes counts how often, up to four.
CondenseMessage(m) ==
    IF IsTool(m)
    THEN [m EXCEPT !.result = Condense(@), !.passes = IF @ < 4 THEN @ + 1 ELSE @]
    ELSE m
CondenseResults(ms) == [i \in DOMAIN ms |-> CondenseMessage(ms[i])]

\* The last message for which P holds, and none if there is none.
LastOf(ms, P(_)) ==
    LET found == {i \in DOMAIN ms : P(ms[i])} IN
    IF found = {} THEN 0 ELSE CHOOSE i \in found : \A j \in found : j <= i

\* The first one.
FirstOf(ms, P(_)) ==
    LET found == {i \in DOMAIN ms : P(ms[i])} IN
    IF found = {} THEN 0 ELSE CHOOSE i \in found : \A j \in found : i <= j

SucceededQuery(m) ==
    IsTool(m) /\ m.tool = "query_database" /\ m.result.kind = "table" /\ m.result.ok
IsChart(m) ==
    IsTool(m) /\ m.tool = "create_chart" /\ m.result.kind = "object" /\ m.result.ok

\* extract_query_result: the last one of the thread, of whichever turn.
NoData == [kind |-> "none"]
QueryData(ms) ==
    LET i == LastOf(ms, SucceededQuery) IN IF i = 0 THEN NoData ELSE ms[i].result

\* The turn of a message; 0 if there is none.
TurnOf(ms, i) == IF i = 0 THEN 0 ELSE ms[i].turn

\* The first chart of the thread.
FirstChart(ms) == TurnOf(ms, FirstOf(ms, IsChart))

\* extract_chart_data: the last one, of whichever turn.
ChartData(ms) == TurnOf(ms, LastOf(ms, IsChart))

-----------------------------------------------------------------------------

NoReply == [kind |-> "none"]
NoView == [kind |-> "none"]
Idle == handler = "none"

Length == [len : Nat, says : Nat]
Note == [rows : Nat, text : Length]
Result ==
    [kind : {"table"}, ok : BOOLEAN, total : Nat, shown : Nat,
     flag : {"none", "truncated", "whole"}, note : Note, cell : Length]
    \cup [kind : {"text"}, ok : BOOLEAN, text : Length]
    \cup Object

Message ==
    [type : {"user"}]
    \cup [type : {"ai"}, ask : Nat, tools : Seq(Tools)]
    \cup [type : {"tool"}, ask : Nat, call : Nat, tool : Tools, turn : Nat,
           result : Result, raw : Result, passes : 0..4]

\* A record of a call; one that raised has no view.
LogRecord ==
    [ask : Nat, call : Nat, success : BOOLEAN, view : Result \cup {NoView}]

\* A function from some of the positions of an AI message's calls.
Positioned(f, S) ==
    /\ IsFiniteSet(DOMAIN f)
    /\ DOMAIN f \subseteq Nat
    /\ f \in [DOMAIN f -> S]

TypeOK ==
    /\ messages \in Seq(Message)
    /\ phase \in {"idle", "before", "model", "review", "tools"}
    /\ handler \in {"none", "query", "approve"}
    /\ Positioned(pending, Tools)
    /\ Positioned(results, Result)
    /\ turn \in Nat /\ asks \in Nat /\ breaks \in Nat
    /\ log \in Seq(LogRecord)
    /\ fresh \subseteq Tools
    /\ abandoned \subseteq Nat

Init ==
    /\ messages = <<>>
    /\ phase = "idle"
    /\ handler = "none"
    /\ pending = <<>>
    /\ results = <<>>
    /\ turn = 0
    /\ asks = 0
    /\ log = <<>>
    /\ breaks = 0
    /\ reply = NoReply
    /\ fresh = {}
    /\ abandoned = {}

\* /query: the gate has answered, or raised.
Stopped(text, index) ==
    /\ Idle
    /\ \E source \in Keys \cup {"unknown"} :
          /\ Gate(text, source, index) # "pass"
          /\ reply' = [kind |-> Gate(text, source, index)]
    /\ UNCHANGED <<messages, run, counts, log, history>>

\* /query: the message goes to the thread.  Calls that wait there, for review or
\* because their run broke off, are abandoned.
Query(text, index) ==
    /\ Idle
    /\ turn < MaxTurns
    /\ \E source \in Keys \cup {"unknown"} : Gate(text, source, index) = "pass"
    /\ messages' = Append(messages, User)
    /\ turn' = turn + 1
    /\ abandoned' = IF pending = <<>> THEN abandoned ELSE abandoned \cup {asks}
    /\ phase' = "before"
    /\ handler' = "query"
    /\ pending' = <<>> /\ results' = <<>>
    /\ fresh' = {}
    /\ reply' = NoReply
    /\ UNCHANGED <<asks, breaks, log>>

\* The hook before_model: the messages are replaced by condensed ones.
BeforeModel ==
    /\ phase = "before" /\ ~Idle
    /\ messages' = CondenseResults(messages)
    /\ phase' = "model"
    /\ UNCHANGED <<handler, pending, results, counts, log, reply,
                   history>>

\* SummarizationMiddleware, after the hook: a summary takes the place of the
\* messages before i.  Calls and their results are never divided.
Summarize(i) ==
    /\ phase = "model" /\ ~Idle
    /\ i > 2 /\ ~IsTool(messages[i])
    /\ messages' = <<Summary>> \o SubSeq(messages, i, Len(messages))
    /\ UNCHANGED <<run, counts, log, reply, fresh, abandoned>>

\* The handler replies or raises.
Replies(r) == handler' = "none" /\ reply' = r

\* The model answers: /query replies with the data and the chart it finds in the
\* thread, /approve with the chart.
ModelAnswers ==
    /\ phase = "model" /\ ~Idle
    /\ messages' = Append(messages, Answer)
    /\ phase' = "idle"
    /\ Replies([kind |-> "answer", to |-> handler,
                data |-> IF handler = "query" THEN QueryData(messages) ELSE NoData,
                chart |-> ChartData(messages)])
    /\ UNCHANGED <<pending, results, counts, log, history>>

Queries(calls) == {i \in DOMAIN calls : calls[i] = "query_database"}

\* The reply to a run that was interrupted: /query looks for the interrupt, and
\* /approve does not.
InterruptReply(h) ==
    IF h = "query" THEN [kind |-> "review", to |-> h]
    ELSE [kind |-> "answer", to |-> h, data |-> NoData, chart |-> ChartData(messages)]

\* The model asks for tools: calls of query_database interrupt the run.
ModelAsks(tools) ==
    /\ phase = "model" /\ ~Idle
    /\ asks < MaxAsks
    /\ asks' = asks + 1
    /\ messages' = Append(messages, Asking(asks', tools))
    /\ pending' = tools
    /\ results' = <<>>
    /\ IF Queries(tools) = {}
       THEN phase' = "tools" /\ UNCHANGED <<handler, reply>>
       ELSE phase' = "review" /\ Replies(InterruptReply(handler))
    /\ UNCHANGED <<turn, breaks, log, history>>

\* /approve: the calls go to the tools, all at once.
Approve ==
    /\ phase = "review" /\ Idle
    /\ Cardinality(Queries(pending)) = 1
    /\ phase' = "tools"
    /\ handler' = "approve"
    /\ reply' = NoReply
    /\ UNCHANGED <<messages, pending, results, counts, log, history>>

Without(calls, i) == [j \in DOMAIN calls \ {i} |-> calls[j]]

\* /approve with a rejection: the hook answers the call, and the other calls go
\* to the tools.
Reject ==
    /\ phase = "review" /\ Idle
    /\ \E i \in DOMAIN pending :
          /\ Queries(pending) = {i}
          /\ messages' = Append(messages,
                                ToolMessage(asks, i, "query_database", Rejection))
          /\ pending' = Without(pending, i)
    /\ phase' = IF DOMAIN pending' = {} THEN "before" ELSE "tools"
    /\ handler' = "approve"
    /\ reply' = NoReply
    /\ UNCHANGED <<results, counts, log, fresh, abandoned>>

\* One decision for several calls: the hook raises, and the calls go on waiting.
DecisionsDiffer ==
    /\ phase = "review" /\ Idle
    /\ Cardinality(Queries(pending)) > 1
    /\ reply' = [kind |-> "error", to |-> "approve"]
    /\ UNCHANGED <<messages, run, counts, log, history>>

\* /approve after a run that broke off: it goes on where it was.  The results
\* of calls that had returned may have been kept.
GoOn ==
    /\ phase \in {"before", "model", "tools"} /\ Idle
    /\ \E kept \in SUBSET DOMAIN results :
          results' = [i \in kept |-> results[i]]
    /\ handler' = "approve"
    /\ reply' = NoReply
    /\ UNCHANGED <<messages, phase, pending, counts, log, fresh,
                   abandoned>>

Record(i, r) ==
    [ask |-> asks, call |-> i, success |-> TRUE, view |-> ModelView(r)]

\* A record is written once for each call.
LogOnce(i, r) ==
    log' = IF \E n \in DOMAIN log : log[n].ask = asks /\ log[n].call = i THEN log
           ELSE Append(log, Record(i, r))
\* log_tool_call appends.
LogCall(i, r) == log' = Append(log, Record(i, r))

\* logging_middleware: a call returns, and is logged.  The calls of an AI message
\* run at the same time.
CallReturns(i) ==
    /\ phase = "tools" /\ ~Idle
    /\ i \in DOMAIN pending \ DOMAIN results
    /\ \E r \in Results[pending[i]] :
          /\ results' = [j \in DOMAIN results \cup {i} |->
                            IF j = i THEN r ELSE results[j]]
          /\ LogCall(i, r)
    /\ UNCHANGED <<messages, phase, handler, pending, counts, reply,
                   fresh, abandoned>>

\* A call raises: it is logged without a view, and the run breaks off.  Calls that
\* still run are cancelled, and not logged.
CallRaises(i) ==
    /\ phase = "tools" /\ ~Idle
    /\ i \in DOMAIN pending \ DOMAIN results
    /\ log' = Append(log, [ask |-> asks, call |-> i, success |-> FALSE,
                           view |-> NoView])
    /\ breaks < MaxBreaks /\ breaks' = breaks + 1
    /\ Replies([kind |-> "error", to |-> handler])
    /\ UNCHANGED <<messages, phase, pending, results, turn, asks,
                   history>>

\* The positions of S, in order.
Orders(S) ==
    {s \in [1..Cardinality(S) -> S] : \A i, j \in DOMAIN s : i < j => s[i] < s[j]}

\* All have returned: their messages are added in the order of the calls.
AddResults ==
    /\ phase = "tools" /\ ~Idle
    /\ DOMAIN pending = DOMAIN results
    /\ \E order \in Orders(DOMAIN pending) :
          messages' = messages \o
              [i \in DOMAIN order |->
                  ToolMessage(asks, order[i], pending[order[i]], results[order[i]])]
    /\ fresh' = fresh \cup {pending[i] : i \in {i \in DOMAIN results : results[i].ok}}
    /\ pending' = <<>> /\ results' = <<>>
    /\ phase' = "before"
    /\ UNCHANGED <<handler, counts, log, reply, abandoned>>

\* The model raises, or the process ends and is started again: what the nodes
\* have saved stays.
BreaksOff ==
    /\ ~Idle
    /\ breaks < MaxBreaks /\ breaks' = breaks + 1
    /\ Replies([kind |-> "error", to |-> handler])
    /\ UNCHANGED <<messages, phase, pending, results, turn, asks, log,
                   history>>

Next ==
    \/ \E text \in Requests : \E index \in {{}, Tables} :
          Stopped(text, index) \/ Query(text, index)
    \/ BeforeModel
    \/ \E i \in DOMAIN messages : Summarize(i)
    \/ ModelAnswers
    \/ \E tools \in Asks : ModelAsks(tools)
    \/ Approve \/ Reject \/ DecisionsDiffer \/ GoOn
    \/ \E i \in DOMAIN pending : CallReturns(i) \/ CallRaises(i)
    \/ AddResults
    \/ BreaksOff

Spec == Init /\ [][Next]_vars

-----------------------------------------------------------------------------
(* Properties *)

Shown == {messages[i] : i \in {i \in DOMAIN messages : IsTool(messages[i])}}

\* A table that lacks rows says how many, however often it has been condensed:
\* the number is noted once and must outlive every later condensing
\* (middleware/truncation.py:79-95).  The note is whole as long as a cell may be as
\* long as the note is; below that it is cut as well (:86-87).
CutIsTold ==
    \A m \in Shown :
        LET r == m.result IN
        r.kind = "table" =>
            /\ r.note.rows = r.total - r.shown
            /\ r.note.text.says # 0 => r.shown < r.total /\ Noted(r.total).text.len > MaxCell

\* The thread is rewritten no more than four times on behalf of a result: a mark
\* that is itself too long is cut again, the mark of that tells another length, and
\* that comes to an end, also where a power of ten lies close to the limit.
RewritingSettles ==
    \A m \in Shown : m.passes = 4 => Condense(m.result) = m.result

\* Whenever the model is called no table and no text exceeds the limits by more than
\* the marks, also the results of the calls just made.  Objects without a list of
\* rows reach the model as they are (middleware/truncation.py:71-77).
TablesAndTextsAreBounded ==
    phase = "model" =>
        \A m \in Shown :
            /\ m.result.kind = "table" => /\ m.result.shown <= MaxRows
                                         /\ m.result.cell.len <= MaxCell + 19
            /\ m.result.kind = "text" => m.result.text.len <= MaxLen + 37

\* The chart of a reply may be one of an earlier turn, as the whole thread is
\* searched (api/routes.py:226-255), but not when this turn has its own, also when
\* its call overlapped others or was made before the run was interrupted.
StaleOnlyIfNothingNew ==
    reply.kind = "answer" =>
        (reply.chart \notin {0, turn} => "create_chart" \notin fresh)

\* When the model is called all calls it has made before are answered, except
\* those of a turn that broke off or waited for review when the user wrote again.
AnsweredUnlessAbandoned ==
    phase = "model" =>
        \A i \in DOMAIN messages :
            messages[i].type = "ai" /\ messages[i].ask \notin abandoned =>
                \A c \in DOMAIN messages[i].tools :
                    \E m \in Shown : m.ask = messages[i].ask /\ m.call = c

\* session_events_from_tool_records with reconstruct_model_messages: one message for
\* each record, in the order of the records, with the view.
Rebuilt == [n \in DOMAIN log |-> log[n].view]

\* What a tool returned that is in the thread is logged, and the last record of its
\* call is that of this result, also when calls overlapped, or runs broke off and
\* made a call again, whose earlier records stay (core/recon.py:3-6,
\* middleware/logging_wrapper.py:42-52).  Answers that the hook gives to rejected
\* calls are not logged.
ShownIsLogged ==
    \A m \in Shown :
        IsRejection(m)
        \/ \E n \in DOMAIN log :
               /\ log[n].ask = m.ask /\ log[n].call = m.call
               /\ Rebuilt[n] = ModelView(m.raw)
               /\ \A k \in DOMAIN log :
                     log[k].ask = m.ask /\ log[k].call = m.call => k <= n

\* The data of a reply are those the statement returned: the original data
\* (api/routes.py:412).
DataIsOriginal ==
    reply.kind = "answer" /\ reply.data # NoData => reply.data.shown = reply.data.total

\* /query is answered, whatever the gate is configured to do (README.md:246).
GateAnswers ==
    reply.kind # "raised"
=============================================================================
