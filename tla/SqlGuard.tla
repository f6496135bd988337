------------------------------ MODULE SqlGuard ------------------------------
(***************************************************************************)
(* What guard_query_sql of tools/boundaries.py decides about a statement:  *)
(* the layers of SQLValidator.validate, the table boundary, and the denial *)
(* of SQLRiskAssessor.assess.  A statement is what these look at:          *)
(*   dml     its first DML keyword, "UNKNOWN" if it has none               *)
(*   head    the word its cleaned text starts with                         *)
(*   words   the keywords it holds as words of their own                   *)
(*   inside  the keywords spelled inside its identifiers                   *)
(*   tables  what extract_tables finds                                     *)
(*   second  the first DML keyword of a statement after a semicolon        *)
(*   flagged its text holds a forbidden function's name or a comment with  *)
(*           a write keyword                                               *)
(* The LIMIT that the sanitizer appends changes none of these.             *)
(***************************************************************************)
EXTENDS FiniteSets

CONSTANTS
    EnableWrite,  \* settings.enable_sql_write
    SystemTables, \* SYSTEM_TABLES
    KnownTables   \* what schema_manager.list_tables answers

ASSUME GuardConstants ==
    /\ EnableWrite \in BOOLEAN
    /\ KnownTables \cap SystemTables = {}

Writes == {"INSERT", "UPDATE", "DELETE"}
AllowedDml == {"SELECT"} \cup (IF EnableWrite THEN Writes ELSE {})
ForbiddenKeywords ==
    {"DROP", "TRUNCATE", "ALTER", "CREATE", "GRANT", "REVOKE", "EXEC", "EXECUTE"}

\* The layers of validate, each of which refuses.
Valid(s) ==
    /\ s.dml \in AllowedDml
    /\ s.words \cap ForbiddenKeywords = {}
    /\ ~s.flagged
    /\ s.second \notin Writes

\* `kw in sql_upper`: inside a longer word counts as well.
Spells(s, kw) == kw \in s.words \cup s.inside

\* The first of INSERT, UPDATE and DELETE, in this order, that is spelled.
WriteType(s) ==
    IF Spells(s, "INSERT") THEN "INSERT"
    ELSE IF Spells(s, "UPDATE") THEN "UPDATE"
    ELSE IF Spells(s, "DELETE") THEN "DELETE"
    ELSE "NONE"

\* NO_WHERE_CLAUSE, the one factor that makes a statement CRITICAL.
NoWhereClause(s) ==
    WriteType(s) \in {"UPDATE", "DELETE"} /\ ~Spells(s, "WHERE")

\* _decide: CRITICAL is denied; a statement to confirm passes this guard.
Denied(s) == NoWhereClause(s)

\* _is_write_dml of the sanitized text: only its head is looked at.
IsWriteDml(s) == s.head \in Writes
=============================================================================
