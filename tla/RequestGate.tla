---------------------------- MODULE RequestGate ----------------------------
(***************************************************************************)
(* What stands before the agent in /query (api/routes.py): the intent      *)
(* router (core/security/intent_guard.py) and the admission gate           *)
(* (core/security/admission.py).  Both are pure: a text is abstracted to   *)
(* the patterns it matches and the tables it has a score with, an index to *)
(* the tables it holds.                                                    *)
(***************************************************************************)
EXTENDS Integers

CONSTANTS
    Admission,  \* settings.enable_admission_gate
    Router,     \* settings.enable_intent_router
    Allowlist,  \* settings.admission_mode is allowlist
    Keys,       \* settings.allowed_admission_keys
    InfoReply   \* settings.canonical_reply_map has a reply for info

ASSUME GateConstants == {Admission, Router, Allowlist, InfoReply} \subseteq BOOLEAN

\* The patterns of intent_guard.py; the four malicious ones count as one.
Signs == {"malicious", "smalltalk", "chart", "info", "nonData"}

Blank == [blank |-> TRUE, signs |-> {}, tables |-> {}]
Texts(tables) ==
    [blank : {FALSE}, signs : SUBSET Signs, tables : SUBSET tables] \cup {Blank}

\* rank_relevant_tables finds a table with a score above 0.
Hits(text, index) == text.tables \cap index # {}

\* The kind of a text that is about a table.
TableIntent(text) ==
    IF "chart" \in text.signs THEN "chart"
    ELSE IF "info" \in text.signs THEN "info" ELSE "query"

\* classify_intent, in the order of its tests; a blank text matches none.
Classify(text, index) ==
    IF "malicious" \in text.signs THEN "malicious"
    ELSE IF "smalltalk" \in text.signs THEN "smalltalk"
    ELSE IF Hits(text, index) THEN TableIntent(text)
    ELSE IF "nonData" \in text.signs THEN "out_of_scope" ELSE "ambiguous"

\* maybe_short_circuit: the router answers what is denied, the rest passes.
RouterDenies == {"malicious", "smalltalk", "out_of_scope"}
ShortCircuit(text, index) ==
    IF Router /\ Classify(text, index) \in RouterDenies THEN "reply" ELSE "pass"

\* compute_source_admission
SourceAdmitted(source) == Allowlist => source \in Keys

\* AdmissionGate.compute: a blank text is classified before its source is.
Compute(text, source, index) ==
    LET intent == Classify(text, index) IN
    IF text.blank THEN "clarify"
    ELSE IF ~SourceAdmitted(source) THEN "deny"
    ELSE IF intent = "ambiguous" THEN "clarify"
    ELSE IF intent \in {"malicious", "out_of_scope"} THEN "deny"
    ELSE IF intent = "smalltalk" \/ (intent = "info" /\ InfoReply) THEN "reply"
    ELSE "admit"

\* maybe_gate: what needs clarifying passes, too.
MaybeGate(text, source, index) ==
    IF Compute(text, source, index) \in {"deny", "reply"} THEN "reply" ELSE "pass"

\* QueryRequest has the fields query and thread_id, and no headers.
HasHeaders == FALSE

\* The first lines of /query.  The argument request.headers.get(...) is evaluated
\* before maybe_gate is called and outside of the handler's try block.
Gate(text, source, index) ==
    IF ~Admission THEN ShortCircuit(text, index)
    ELSE IF HasHeaders THEN MaybeGate(text, source, index) ELSE "raised"
=============================================================================
