------------------------------ MODULE EnetLink ------------------------------
(***************************************************************************)
(* What the ENET driver promises to the code above it: two bounded FIFO    *)
(* links.  Frames that the receiver accepts are handed to the stack in the *)
(* order of arrival, whole, at most once; a frame is lost only before it   *)
(* was accepted, or by the stack itself (no memory for a pbuf).  Frames    *)
(* that the stack submits go out on the wire in the order of submission,   *)
(* whole, exactly once.  The rings of EnetRing implement this.             *)
(***************************************************************************)
EXTENDS Naturals, Sequences

CONSTANTS RXSIZE, TXSIZE, Frame, NoFrame

VARIABLES
  rxq,       \* frames accepted from the wire and not yet taken by the stack
  txq,       \* frames submitted and not yet on the wire
  last_in,   \* the frame most recently handed to the stack
  last_out   \* the frame most recently put on the wire

linkVars == <<rxq, txq, last_in, last_out>>

Init == /\ rxq = << >> /\ txq = << >>
        /\ last_in = NoFrame /\ last_out = NoFrame

\* The receiver accepts a frame from the wire.
Arrive(f) == /\ Len(rxq) < RXSIZE
             /\ rxq' = Append(rxq, f)
             /\ UNCHANGED <<txq, last_in, last_out>>

\* The stack takes the oldest accepted frame, once.
Deliver == /\ rxq # << >>
           /\ last_in' = Head(rxq)
           /\ rxq' = Tail(rxq)
           /\ UNCHANGED <<txq, last_out>>

\* The stack has no memory for the oldest accepted frame and skips it.
Skip == /\ rxq # << >>
        /\ rxq' = Tail(rxq)
        /\ UNCHANGED <<txq, last_in, last_out>>

\* The stack submits a frame.
Submit(f) == /\ Len(txq) < TXSIZE
             /\ txq' = Append(txq, f)
             /\ UNCHANGED <<rxq, last_in, last_out>>

\* The oldest submitted frame goes out.
Transmit == /\ txq # << >>
            /\ last_out' = Head(txq)
            /\ txq' = Tail(txq)
            /\ UNCHANGED <<rxq, last_in>>

Next == \/ \E f \in Frame : Arrive(f) \/ Submit(f)
        \/ Deliver \/ Skip \/ Transmit

Spec == Init /\ [][Next]_linkVars
=============================================================================
