-------------------------- MODULE StatementService --------------------------
(***************************************************************************)
(* What query_database promises about one approved call, however often its *)
(* layers retry: the database applies the statement again only when the    *)
(* answer to every earlier application was lost, a call succeeds only with *)
(* the answer to its last application, and a failure that is reported      *)
(* never hides an answer.                                                  *)
(***************************************************************************)
EXTENDS Naturals

CONSTANT Calls

VARIABLES
    outcome,  \* what the caller has been told
    applied,  \* how often the database applied the call's statement
    lost      \* how many of those answers did not arrive

vars == <<outcome, applied, lost>>

Init ==
    /\ outcome = [c \in Calls |-> "open"]
    /\ applied = [c \in Calls |-> 0]
    /\ lost = [c \in Calls |-> 0]

Open(c) == outcome[c] = "open"
Unanswered(c) == applied[c] = lost[c] + 1

\* The database applies the statement.
Apply(c) ==
    /\ Open(c)
    /\ applied[c] = lost[c]
    /\ applied' = [applied EXCEPT ![c] = @ + 1]
    /\ UNCHANGED <<outcome, lost>>

\* The answer is lost; the call goes on or is reported as failed.
Lose(c) ==
    /\ Open(c)
    /\ Unanswered(c)
    /\ lost' = [lost EXCEPT ![c] = @ + 1]
    /\ \E o \in {"open", "failed"} : outcome' = [outcome EXCEPT ![c] = o]
    /\ UNCHANGED applied

\* The answer arrives and is the caller's result.
Succeed(c) ==
    /\ Open(c)
    /\ Unanswered(c)
    /\ outcome' = [outcome EXCEPT ![c] = "ok"]
    /\ UNCHANGED <<applied, lost>>

\* The call is reported as failed while no application waits for its answer.
Fail(c) ==
    /\ Open(c)
    /\ applied[c] = lost[c]
    /\ outcome' = [outcome EXCEPT ![c] = "failed"]
    /\ UNCHANGED <<applied, lost>>

Next == \E c \in Calls : Apply(c) \/ Lose(c) \/ Succeed(c) \/ Fail(c)

Spec == Init /\ [][Next]_vars
=============================================================================
