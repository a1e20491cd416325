------------------------------- MODULE MCTcp -------------------------------
(* TCP with a sequence space of 32 numbers that wraps during the connection. *)
EXTENDS Tcp

MCISS == [client |-> 30, server |-> 31]
Writes(c, s) == [client |-> c, server |-> s]
MCPLANS == {
    \* data against a small window and one fault
    [writes |-> Writes(3, 0), half |-> {}, passive |-> {"server"}, early |-> {}, faults |-> 1],
    \* an answer after the client shut down its sending side
    [writes |-> Writes(0, 3), half |-> {"client"}, passive |-> {}, early |-> {}, faults |-> 0],
    \* data in both directions, simultaneous close
    [writes |-> Writes(1, 1), half |-> {}, passive |-> {}, early |-> {}, faults |-> 0],
    \* segments merged while they wait
    [writes |-> Writes(3, 0), half |-> {}, passive |-> {}, early |-> {"client"}, faults |-> 0],
    \* a byte, the handshake and the closing states with two faults
    [writes |-> Writes(1, 0), half |-> {}, passive |-> {"server"}, early |-> {}, faults |-> 2]}

\* The server writes more than the window takes and closes after the client.
ClosePLANS == {[writes |-> Writes(0, 4), half |-> {"client"}, passive |-> {"client", "server"},
                early |-> {}, faults |-> 0]}
=============================================================================
