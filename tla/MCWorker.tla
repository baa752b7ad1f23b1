------------------------------- MODULE MCWorker -------------------------------
(* A small instance of Worker for TLC.                                     *)
EXTENDS Worker

Request(model, sys_code, user_id, session_id) ==
    [valid |-> TRUE, model |-> model, sys_code |-> sys_code, user_id |-> user_id,
     session_id |-> session_id]

MCSysCodes == {<<"demo">>}

MCPieces ==
    Workflows \union {"workflow=", "|sys_code=", "|user_id=", "|session_id=",
                      "default-system", "-", "demo", "u", "1", "x", "y", "uuid1", "uuid2"}

MCUuid == [r \in Requests |-> <<<<"uuid1">>, <<"uuid2">>>>[r]]

\* Values that hold the marks of fields that do not follow them.
User == <<"u", "|user_id=", "1">>
Chat == <<"x", "|user_id=", "y">>

\* One session id of several callers, a caller without one, and one who is refused
\* and asks for a workflow that is not there, also with a body that is not valid.
MCAsks ==
    {Request("demo-chat", <<"demo">>, User, Chat),
     Request("demo-chat", <<"demo">>, None, Chat),
     Request("demo-summary", <<"demo">>, User, Chat),
     Request("demo-chat", <<"demo">>, User, None),
     Request("unknown", None, User, None),
     [Request("unknown", None, User, None) EXCEPT !.valid = FALSE]}

Root == [server_addr |-> "nacos", data_id |-> <<"root.yaml">>, group |-> "G"]

\* As shipped: a template, and one of the workflows is configured by its item.
Shipped ==
    [switched_off |-> FALSE, root |-> Root, base |-> NoLayer,
     items |-> [w \in {"demo-chat"} |-> [data_id |-> <<"chat.yaml">>]],
     defaults |-> [enabled |-> TRUE, data_id_template |-> <<"wf-", "{workflow}">>]]

\* The root's section alone, and a template that is blank.
Bare ==
    [switched_off |-> FALSE, root |-> NoLayer, base |-> Root,
     items |-> [w \in {} |-> NoLayer], defaults |-> [data_id_template |-> <<>>]]

\* Nacos is off for one workflow.
Off ==
    [switched_off |-> FALSE, root |-> Root, base |-> NoLayer,
     items |-> [w \in {"demo-chat"} |-> [enabled |-> None]], defaults |-> NoLayer]

\* stuck: what of the watches does not end when they are closed.
Deployed(backend, auth, local_llm, reachable, stuck, cfg) ==
    [backend |-> backend, auth |-> auth, local_llm |-> local_llm,
     reachable |-> reachable, stuck |-> stuck, config |-> cfg]

MCDeployments ==
    {Deployed("mysql", TRUE, TRUE, Workflows, "puller", Shipped),
     Deployed("memory", FALSE, TRUE, Workflows, "none", Bare),
     Deployed("null", TRUE, FALSE, Workflows, "callback", Off),
     Deployed("typo", TRUE, TRUE, {}, "none", [Shipped EXCEPT !.switched_off = TRUE])}
===============================================================================
