---------------------------- MODULE MCStreamRelay ----------------------------
(* Small instances of StreamRelay for TLC.                                 *)
EXTENDS StreamRelay

\* One data line per event, as OpenAI-compatible servers send them.
PlainEvents ==
    {<<p>> : p \in {"role", "content", "finish", "last", "error", "done"}}

\* The same from servers that leave out blank lines, so that an event has
\* several data lines, or that send comments, which have none.
GluedEvents ==
    {<<>>, <<"content", "last", "done">>, <<"done", "content">>,
     <<"content", "error", "content">>}

MixedEvents == PlainEvents \union GluedEvents
==============================================================================
