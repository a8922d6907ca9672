--------------------------- MODULE MCEngineLifecycle ---------------------------
EXTENDS EngineLifecycle

CONSTANTS r1, r2

\* Two ports of one IP, and another IP.
MCAddr == {[ip |-> 1, port |-> 1], [ip |-> 1, port |-> 2], [ip |-> 2, port |-> 1]}
MCFirst == [ip |-> 1, port |-> 1]

=============================================================================
