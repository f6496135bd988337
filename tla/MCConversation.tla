-------------------------- MODULE MCConversation --------------------------
(* An instance of Conversation for TLC, with the limits of the settings. *)
EXTENDS Conversation

CONSTANTS sales

TwoTables == {sales}

Wants(signs, tables) ==
    [blank |-> FALSE, signs |-> signs, tables |-> tables]

\* What tells the tests of classify_intent, and their order, apart.
SomeRequests ==
    {Blank, Wants({}, {}), Wants({}, {sales}), Wants({"malicious"}, {sales}),
     Wants({"smalltalk", "info"}, {sales}), Wants({"nonData", "chart"}, {sales})}

SomeAsks ==
    {<<"query_database">>, <<"get_table_schema">>,
     <<"create_chart", "query_database">>, <<"query_database", "query_database">>}

Chars(n) == [len |-> n, says |-> 0]
Table(ok, n) ==
    [kind |-> "table", ok |-> ok, total |-> n, shown |-> n, flag |-> "none",
     note |-> NoNote, cell |-> Chars(20 * n)]

SomeResults ==
    [t \in Tools |->
        CASE t = "query_database" -> {Table(FALSE, 0), Table(TRUE, 1000)}
          [] t = "get_table_schema" -> {[kind |-> "text", ok |-> TRUE,
                                         text |-> Chars(100000)]}
          [] OTHER -> [kind : {"object"}, ok : BOOLEAN]]
=============================================================================
