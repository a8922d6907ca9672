-------------------------- MODULE MCOutboundDelivery --------------------------
(***************************************************************************)
(* Small cases for the outbound messages of a client. Recipient "b" is     *)
(* away and "c" has no account.                                            *)
(***************************************************************************)
EXTENDS OutboundDelivery

World(one, two, three, g, rt, fs, n) ==
    LET to == <<one, two, three>> IN
    [to |-> [m \in Msg |-> to[m]], queued |-> {m \in Msg : to[m] # <<>>},
     away |-> {"b"}, unknown |-> {"c"}, gate |-> g, retries |-> rt, faults |-> fs, max |-> n]

\* A message to two recipients, one of them away; the client is put in the background or killed.
Group == World(<<"a", "b">>, <<>>, <<>>, TRUE, TRUE, {"crash", "background", "unanswered"}, 2)
\* Posts that stay without an answer, fail or are refused, reads that lose a message.
Node == World(<<"b", "a">>, <<>>, <<>>, TRUE, TRUE, {"timeout", "node", "refuse", "pop"}, 2)
\* A message to somebody away before one to somebody there; no Mailbox, connections come and go.
Queued == World(<<"b">>, <<"a">>, <<>>, FALSE, TRUE, {"crash", "connection", "unreachable"}, 1)
\* The client is left with messages pending, or sending.
Leave == World(<<"a">>, <<"b">>, <<>>, TRUE, TRUE, {"exit", "unreachable"}, 2)
\* One recipient has no account; sends fail in every way.
Errors == World(<<"c", "a">>, <<>>, <<>>, TRUE, TRUE, {"chain", "reject", "panic", "exit"}, 2)
\* chat --no-retries without a Mailbox.
NoRetries == World(<<"a">>, <<>>, <<>>, FALSE, FALSE, {"unreachable", "exit", "crash"}, 2)

MCWorlds == {Group, Node, Queued, Leave, Errors, NoRetries}

=============================================================================
