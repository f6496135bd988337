-------------------------- MODULE MCQueryExecution --------------------------
(* An instance of QueryExecution for TLC. *)
EXTENDS QueryExecution

CONSTANTS c1, c2

TwoCalls == {c1, c2}

S(dml, words, inside, tables) ==
    [dml |-> dml, head |-> dml, words |-> words \cup {dml}, inside |-> inside,
     tables |-> tables, second |-> "NONE", flagged |-> FALSE]

Select == S("SELECT", {}, {}, {"sales", "orders"})
UpdateWhere == S("UPDATE", {"WHERE"}, {"INSERT"}, {"sales"})
DeleteAll == S("DELETE", {}, {}, {"sales"})
SelectUpdatedAt == S("SELECT", {}, {"UPDATE"}, {"sales"})
SelectSystem == S("SELECT", {}, {}, {"sales", "checkpoints"})
SelectAbsent == S("SELECT", {}, {}, {"sales", "absent"})
Drop == S("UNKNOWN", {"DROP"}, {}, {})

HeadedStatements ==
    {Select, UpdateWhere, DeleteAll, SelectUpdatedAt, SelectSystem, SelectAbsent, Drop}
=============================================================================
