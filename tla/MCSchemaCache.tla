--------------------------- MODULE MCSchemaCache ---------------------------
(* Instances of SchemaCache for TLC: "users" exists from the start, "orders" *)
(* is a priority table that is created later.                              *)
EXTENDS SchemaCache

CONSTANTS s1, s2

TwoNames == <<"orders", "users">>
TwoVersions == [users |-> 2, orders |-> 1]
OneTable == {"users"}
PriorityTables == {"orders"}
TwoSessions == {s1, s2}
=============================================================================
