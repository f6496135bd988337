--------------------------- MODULE ChartSandbox ---------------------------
(***************************************************************************)
(* create_custom_chart (tools/chart_tools.py) and execute_chart_code       *)
(* (utils/chart_sandbox.py): code of the model draws with pyplot.  A call  *)
(* goes through two thread pools of one size: a thread of the first waits, *)
(* up to a timeout, for a thread of the second to run the code.            *)
(*                                                                         *)
(* pyplot keeps the figures of the whole process, and what is drawn and    *)
(* saved is the figure made last.  A figure is the set of the calls whose  *)
(* code has drawn on it.  The timeout may expire at any time.              *)
(***************************************************************************)
EXTENDS Integers, Sequences, FiniteSets

CONSTANTS
    Charts,   \* calls of create_custom_chart
    PoolSize  \* settings.tool_thread_pool_size

ASSUME PoolAssumption == PoolSize \in Nat \ {0}

VARIABLES
    pc,        \* where a call stands
    loops,     \* the code of a call never ends
    asked,     \* calls that wait for a thread of chart_tools._executor
    submitted, \* runs that wait for a thread of chart_sandbox._executor
    run,       \* where the run of a call's code stands
    figures,   \* the figures of pyplot, in the order they were made
    image,     \* result_box: what a run has saved
    drew,      \* history: the calls whose code has drawn
    overlapped, \* history: a call was made while another was in progress
    timedOut   \* history: a call timed out

sandboxVars == <<pc, loops, asked, submitted, run, figures, image, drew, overlapped,
                timedOut>>

NoImage == [drawn |-> {}, saved |-> FALSE]
InProgress(c) == pc[c] \in {"asked", "waiting"}
Running == {c \in Charts : run[c] \in {"started", "drawn", "saved"}}

SandboxTypeOK ==
    /\ pc \in [Charts -> {"idle", "asked", "waiting", "shown", "failed"}]
    /\ loops \in [Charts -> BOOLEAN]
    /\ asked \in Seq(Charts) /\ submitted \in Seq(Charts)
    /\ run \in [Charts -> {"none", "submitted", "started", "drawn", "saved", "done"}]
    /\ figures \in Seq(SUBSET Charts)
    /\ image \in [Charts -> [drawn : SUBSET Charts, saved : BOOLEAN]]
    /\ drew \subseteq Charts
    /\ overlapped \in BOOLEAN /\ timedOut \in BOOLEAN
    /\ Cardinality(Running) <= PoolSize

SandboxInit ==
    /\ pc = [c \in Charts |-> "idle"]
    /\ loops \in [Charts -> BOOLEAN]
    /\ asked = <<>> /\ submitted = <<>>
    /\ run = [c \in Charts |-> "none"]
    /\ figures = <<>>
    /\ image = [c \in Charts |-> NoImage]
    /\ drew = {}
    /\ overlapped = FALSE
    /\ timedOut = FALSE

-----------------------------------------------------------------------------

At(c, place) == pc' = [pc EXCEPT ![c] = place]
Runs(c, place) == run' = [run EXCEPT ![c] = place]
CloseAll == figures' = <<>>

\* create_custom_chart hands the call to the first pool.
Call(c) ==
    /\ pc[c] = "idle"
    /\ At(c, "asked")
    /\ asked' = Append(asked, c)
    /\ overlapped' = (overlapped \/ \E d \in Charts : InProgress(d))
    /\ UNCHANGED <<loops, submitted, run, figures, image, drew, timedOut>>

\* execute_chart_code: figures that are left are closed, and the run is submitted.
Submit(c) ==
    /\ asked # <<>> /\ c = Head(asked)
    /\ Cardinality({d \in Charts : pc[d] = "waiting"}) < PoolSize
    /\ asked' = Tail(asked)
    /\ At(c, "waiting")
    /\ CloseAll
    /\ submitted' = Append(submitted, c)
    /\ Runs(c, "submitted")
    /\ UNCHANGED <<loops, image, drew, overlapped, timedOut>>

\* _run: a thread of the second pool makes a figure; whether the call still waits
\* does not matter.
StartRun(c) ==
    /\ submitted # <<>> /\ c = Head(submitted)
    /\ Cardinality(Running) < PoolSize
    /\ submitted' = Tail(submitted)
    /\ figures' = Append(figures, {})
    /\ Runs(c, "started")
    /\ UNCHANGED <<pc, loops, asked, image, drew, overlapped, timedOut>>

\* The figures when there is one to draw on or to save: gcf makes it.
WithCurrent == IF figures = <<>> THEN <<{}>> ELSE figures

\* The code draws, once or more often.
Draw(c) ==
    /\ run[c] \in {"started", "drawn"}
    /\ figures' = [WithCurrent EXCEPT ![Len(WithCurrent)] = @ \cup {c}]
    /\ drew' = drew \cup {c}
    /\ Runs(c, "drawn")
    /\ UNCHANGED <<pc, loops, asked, submitted, image, overlapped, timedOut>>

\* The code has ended: the current figure is saved, whoever drew on it.
Save(c) ==
    /\ run[c] \in {"started", "drawn"} /\ ~loops[c]
    /\ image' = [image EXCEPT ![c] = [drawn |-> WithCurrent[Len(WithCurrent)], saved |-> TRUE]]
    /\ figures' = WithCurrent
    /\ Runs(c, "saved")
    /\ UNCHANGED <<pc, loops, asked, submitted, drew, overlapped, timedOut>>

\* The code raises.
Raise(c) ==
    /\ run[c] \in {"started", "drawn"} /\ ~loops[c]
    /\ Runs(c, "saved")
    /\ UNCHANGED <<pc, loops, asked, submitted, figures, image, drew, overlapped, timedOut>>

\* The end of _run, whether or not the call still waits.
Close(c) ==
    /\ run[c] = "saved"
    /\ CloseAll
    /\ Runs(c, "done")
    /\ UNCHANGED <<pc, loops, asked, submitted, image, drew, overlapped, timedOut>>

\* A call that looks into the box without waiting for the run to end.
HasSaved(c) == run[c] \in {"saved", "done"}
\* future.result waits for the end of _run.
HasEnded(c) == run[c] = "done"

Return(c) ==
    /\ pc[c] = "waiting"
    /\ HasEnded(c)
    /\ At(c, IF image[c].saved THEN "shown" ELSE "failed")
    /\ UNCHANGED <<loops, asked, submitted, run, figures, image, drew, overlapped, timedOut>>

\* A wait that is given up only for runs that have been started.
HasStarted(c) == run[c] \in {"started", "drawn", "saved"}
\* The wait may be given up wherever the run stands, in the queue, too.
MayGiveUp(c) == ~HasEnded(c)

\* FutureTimeout: all figures are closed and the call fails.  The run goes on, or
\* starts later: it is not cancelled.
Timeout(c) ==
    /\ pc[c] = "waiting"
    /\ MayGiveUp(c)
    /\ CloseAll
    /\ At(c, "failed")
    /\ timedOut' = TRUE
    /\ UNCHANGED <<loops, asked, submitted, run, image, drew, overlapped>>

SandboxNext ==
    \E c \in Charts :
        \/ Call(c) \/ Submit(c) \/ Return(c) \/ Timeout(c)
        \/ StartRun(c) \/ Draw(c) \/ Save(c) \/ Raise(c) \/ Close(c)

\* The threads of the first pool are scheduled, and the clock goes on, so that a
\* wait ends.  Nothing is assumed of the code that is run.
Fairness ==
    \A c \in Charts :
        /\ WF_sandboxVars(Submit(c))
        /\ WF_sandboxVars(Return(c))
        /\ WF_sandboxVars(Timeout(c))

SandboxSpec == SandboxInit /\ [][SandboxNext]_sandboxVars /\ Fairness

-----------------------------------------------------------------------------
(* Properties *)

\* As long as calls are made one after the other and none has timed out, a chart
\* shows what its own code has drawn and nothing else, although the figures are
\* those of the process: the figures of a run are closed before its call returns
\* (utils/chart_sandbox.py:89-108).
SoloImageIsOwn ==
    ~overlapped /\ ~timedOut =>
        \A c \in Charts : pc[c] = "shown" => image[c].drawn = {c} \cap drew

\* Every call is answered, also when code that never ends has taken all threads
\* that run code (utils/chart_sandbox.py:78-79).
ChartCallsEnd ==
    \A c \in Charts : pc[c] = "asked" ~> pc[c] \in {"shown", "failed"}
=============================================================================
