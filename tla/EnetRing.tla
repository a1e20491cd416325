------------------------------ MODULE EnetRing ------------------------------
(***************************************************************************)
(* The descriptor rings that the K66 Ethernet driver shares with the ENET  *)
(* controller's DMA (lwipk66.c; etherraw.ino holds the same code).  The    *)
(* CPU and the MAC walk each ring with a cursor of their own.  The CPU     *)
(* counts (rxnum, txnum); the MAC follows the wrap bit it reads from the   *)
(* descriptor, so the driver has to write that bit back each time it       *)
(* re-arms the last one.  Ownership of a buffer is one bit of the flags:   *)
(* E (0x8000 of a receive descriptor: empty, the MAC may fill it) and R    *)
(* (0x8000 of a transmit descriptor: ready, the MAC may send it).          *)
(***************************************************************************)
EXTENDS Integers, Sequences

CONSTANTS
  RXSIZE, TXSIZE,   \* number of descriptors in each ring
  Frame,            \* the frames that can arrive or be sent
  NoFrame,          \* "no frame yet"
  Torn              \* what a reader sees of a buffer that is being written

ASSUME RingSizes == RXSIZE \in Nat \ {0} /\ TXSIZE \in Nat \ {0}
ASSUME DistinctFrames == NoFrame \notin Frame /\ Torn \notin Frame /\ NoFrame # Torn

VARIABLES
  rx_flags, rx_buf,   \* the receive ring: flags and buffer of each descriptor
  rxnum,              \* static rxnum of ether_poll
  mac_rx,             \* the MAC's receive cursor
  mac_in,             \* the frame the MAC is storing, or NoFrame
  rdar,               \* ENET_RDAR: the MAC polls the receive ring
  poll,               \* "idle", or "input" between handle_frame and re-arming
  last_in,            \* the frame last handed to ethernet_input
  tx_flags, tx_buf,   \* the transmit ring
  txnum,              \* static txnum of k66_low_level_output
  mac_tx,             \* the MAC's transmit cursor
  mac_out,            \* what the MAC has fetched of the frame it is sending
  tdar,               \* ENET_TDAR: the MAC polls the transmit ring
  out, out_frame,     \* where k66_low_level_output is, and the frame it sends
  last_out            \* the frame last put on the wire

rxVars == <<rx_flags, rx_buf, rxnum, mac_rx, mac_in, rdar, poll, last_in>>
txVars == <<tx_flags, tx_buf, txnum, mac_tx, mac_out, tdar, out, out_frame, last_out>>
vars == <<rxVars, txVars>>

RxSlot == 0 .. RXSIZE - 1
TxSlot == 0 .. TXSIZE - 1

RxFlags(e, w) == [E |-> e, W |-> w]
TxFlags(r, w) == [R |-> r, W |-> w]

\* memset, the two loops that fill the rings, and the first ENET_RDAR/ENET_TDAR.
etherk66_init ==
  /\ rx_flags = [i \in RxSlot |-> RxFlags(1, IF i = RXSIZE - 1 THEN 1 ELSE 0)]
  /\ tx_flags = [i \in TxSlot |-> TxFlags(0, IF i = TXSIZE - 1 THEN 1 ELSE 0)]
  /\ rx_buf = [i \in RxSlot |-> NoFrame]
  /\ tx_buf = [i \in TxSlot |-> NoFrame]
  /\ rdar = 1 /\ tdar = 1

Init ==
  /\ etherk66_init
  /\ rxnum = 0 /\ txnum = 0
  /\ mac_rx = 0 /\ mac_tx = 0
  /\ mac_in = NoFrame /\ mac_out = NoFrame
  /\ poll = "idle" /\ last_in = NoFrame
  /\ out = "none" /\ out_frame = NoFrame /\ last_out = NoFrame

-----------------------------------------------------------------------------
(* The MAC (hardware).  It steps to descriptor 0 after one whose wrap bit   *)
(* is set, and to the next address otherwise.                               *)

MacNext(i, w) == IF w = 1 THEN 0 ELSE i + 1

\* A frame arrives while the MAC polls and its descriptor is empty.
MacRxStart(f) ==
  /\ mac_in = NoFrame /\ rdar = 1 /\ rx_flags[mac_rx].E = 1
  /\ mac_in' = f
  /\ rx_buf' = [rx_buf EXCEPT ![mac_rx] = Torn]
  /\ UNCHANGED <<rx_flags, rxnum, mac_rx, rdar, poll, last_in, txVars>>

\* The frame is stored; the MAC closes the descriptor.
MacRxDone ==
  /\ mac_in # NoFrame
  /\ rx_buf' = [rx_buf EXCEPT ![mac_rx] = mac_in]
  /\ rx_flags' = [rx_flags EXCEPT ![mac_rx] = RxFlags(0, rx_flags[mac_rx].W)]
  /\ mac_rx' = MacNext(mac_rx, rx_flags[mac_rx].W)
  /\ mac_in' = NoFrame
  /\ UNCHANGED <<rxnum, rdar, poll, last_in, txVars>>

\* The MAC polls a descriptor that is not empty: it clears RDAR and stops.
MacRxStop ==
  /\ mac_in = NoFrame /\ rdar = 1 /\ rx_flags[mac_rx].E = 0
  /\ rdar' = 0
  /\ UNCHANGED <<rx_flags, rx_buf, rxnum, mac_rx, mac_in, poll, last_in, txVars>>

\* The MAC starts to fetch a ready frame.
MacTxStart ==
  /\ mac_out = NoFrame /\ tdar = 1 /\ tx_flags[mac_tx].R = 1
  /\ mac_out' = tx_buf[mac_tx]
  /\ UNCHANGED <<rxVars, tx_flags, tx_buf, txnum, mac_tx, tdar, out, out_frame, last_out>>

\* The frame is out: torn if its buffer was written while it was being sent.
MacTxDone ==
  /\ mac_out # NoFrame
  /\ last_out' = IF tx_buf[mac_tx] = mac_out THEN mac_out ELSE Torn
  /\ tx_flags' = [tx_flags EXCEPT ![mac_tx] = TxFlags(0, tx_flags[mac_tx].W)]
  /\ mac_tx' = MacNext(mac_tx, tx_flags[mac_tx].W)
  /\ mac_out' = NoFrame
  /\ UNCHANGED <<rxVars, tx_buf, txnum, tdar, out, out_frame>>

\* The MAC polls a descriptor that is not ready: it clears TDAR and stops.
MacTxStop ==
  /\ mac_out = NoFrame /\ tdar = 1 /\ tx_flags[mac_tx].R = 0
  /\ tdar' = 0
  /\ UNCHANGED <<rxVars, tx_flags, tx_buf, txnum, mac_tx, mac_out, out, out_frame, last_out>>

-----------------------------------------------------------------------------
(* The CPU.  ether_poll takes one frame; ethernet_input may call            *)
(* k66_low_level_output (an ARP or echo reply, a TCP segment) any number of *)
(* times before ether_poll re-arms the descriptor, and the application and  *)
(* the timers call it between polls.                                        *)

\* ether_poll finds a frame; handle_frame copies it into a pbuf for the stack.
handle_frame ==
  /\ poll = "idle" /\ out = "none" /\ rx_flags[rxnum].E = 0
  /\ poll' = "input"
  /\ last_in' = rx_buf[rxnum]
  /\ UNCHANGED <<rx_flags, rx_buf, rxnum, mac_rx, mac_in, rdar, txVars>>

\* pbuf_alloc returns NULL: memerr and drop are counted, the frame is skipped.
handle_frame_memerr ==
  /\ poll = "idle" /\ out = "none" /\ rx_flags[rxnum].E = 0
  /\ poll' = "input"
  /\ UNCHANGED <<rx_flags, rx_buf, rxnum, mac_rx, mac_in, rdar, last_in, txVars>>

\* Mutant: the last descriptor is not re-armed.
rearm_not_last ==
  /\ poll = "input" /\ out = "none" /\ poll' = "idle"
  /\ rx_flags' = IF rxnum < RXSIZE - 1 THEN [rx_flags EXCEPT ![rxnum] = RxFlags(1, 0)]
                                       ELSE rx_flags
  /\ rxnum' = IF rxnum < RXSIZE - 1 THEN rxnum + 1 ELSE 0
  /\ UNCHANGED <<rx_buf, mac_rx, mac_in, rdar, last_in, txVars>>

\* handle_frame has returned: re-arm the descriptor, restoring its wrap bit.
ether_poll_rearm ==
  /\ poll = "input" /\ out = "none"
  /\ poll' = "idle"
  /\ IF rxnum < RXSIZE - 1
       THEN /\ rx_flags' = [rx_flags EXCEPT ![rxnum] = RxFlags(1, 0)]
            /\ rxnum' = rxnum + 1
       ELSE /\ rx_flags' = [rx_flags EXCEPT ![rxnum] = RxFlags(1, 1)]
            /\ rxnum' = 0
  /\ UNCHANGED <<rx_buf, mac_rx, mac_in, rdar, last_in, txVars>>

\* k66_low_level_output is called: it waits for its descriptor.
low_level_output(f) ==
  /\ out = "none"
  /\ out' = "wait" /\ out_frame' = f
  /\ UNCHANGED <<rxVars, tx_flags, tx_buf, txnum, mac_tx, mac_out, tdar, last_out>>

\* The descriptor is still the MAC's: read its flags again.
low_level_output_spin ==
  /\ out = "wait" /\ tx_flags[txnum].R = 1
  /\ UNCHANGED vars

\* Mutant: no wait for the descriptor.
output_no_wait ==
  /\ out = "wait"
  /\ tx_buf' = [tx_buf EXCEPT ![txnum] = out_frame]
  /\ out' = "ready"
  /\ UNCHANGED <<rxVars, tx_flags, txnum, mac_tx, mac_out, tdar, out_frame, last_out>>

\* The descriptor is free: the pbuf chain is copied into its buffer.
low_level_output_copy ==
  /\ out = "wait" /\ tx_flags[txnum].R = 0
  /\ tx_buf' = [tx_buf EXCEPT ![txnum] = out_frame]
  /\ out' = "ready"
  /\ UNCHANGED <<rxVars, tx_flags, txnum, mac_tx, mac_out, tdar, out_frame, last_out>>

\* buf->flags = flags | 0x8C00: the descriptor is the MAC's.
low_level_output_ready ==
  /\ out = "ready"
  /\ tx_flags' = [tx_flags EXCEPT ![txnum] = TxFlags(1, tx_flags[txnum].W)]
  /\ out' = "kick"
  /\ UNCHANGED <<rxVars, tx_buf, txnum, mac_tx, mac_out, tdar, out_frame, last_out>>

\* Mutant: ENET_TDAR is not written.
kick_no_tdar ==
  /\ out = "kick"
  /\ txnum' = IF txnum < TXSIZE - 1 THEN txnum + 1 ELSE 0
  /\ out' = "none"
  /\ UNCHANGED <<rxVars, tdar, tx_flags, tx_buf, mac_tx, mac_out, out_frame, last_out>>

\* ENET_TDAR is written and txnum advances.
low_level_output_kick ==
  /\ out = "kick"
  /\ tdar' = 1
  /\ txnum' = IF txnum < TXSIZE - 1 THEN txnum + 1 ELSE 0
  /\ out' = "none"
  /\ UNCHANGED <<rxVars, tx_flags, tx_buf, mac_tx, mac_out, out_frame, last_out>>

-----------------------------------------------------------------------------
MacRx == (\E f \in Frame : MacRxStart(f)) \/ MacRxDone \/ MacRxStop
MacTx == MacTxStart \/ MacTxDone \/ MacTxStop
Poll == handle_frame \/ handle_frame_memerr \/ ether_poll_rearm
Output == low_level_output_copy \/ low_level_output_ready \/ low_level_output_kick

Next == MacRx \/ MacTx \/ Poll \/ Output \/ low_level_output_spin
        \/ \E f \in Frame : low_level_output(f)

Spec == Init /\ [][Next]_vars

(* The MAC is hardware and completes what it starts.  The CPU is one       *)
(* thread: the sketch returns to ether_poll for ever, after finitely many   *)
(* outputs each time (hence SF for Poll, which is disabled while an output  *)
(* is in progress), and an output that can proceed does.  Nothing obliges a *)
(* frame to arrive or a caller to send one.                                 *)
Fairness ==
  /\ WF_vars(MacRxDone) /\ WF_vars(MacRxStop) /\ WF_vars(MacTx)
  /\ SF_vars(Poll) /\ WF_vars(Output)

FairSpec == Spec /\ Fairness
-----------------------------------------------------------------------------
(* Properties *)

TypeOK ==
  /\ rx_flags \in [RxSlot -> [E : {0, 1}, W : {0, 1}]]
  /\ tx_flags \in [TxSlot -> [R : {0, 1}, W : {0, 1}]]
  /\ rx_buf \in [RxSlot -> Frame \cup {NoFrame, Torn}]
  /\ tx_buf \in [TxSlot -> Frame \cup {NoFrame, Torn}]
  /\ rxnum \in RxSlot /\ mac_rx \in RxSlot
  /\ txnum \in TxSlot /\ mac_tx \in TxSlot
  /\ rdar \in {0, 1} /\ tdar \in {0, 1}
  /\ mac_in \in Frame \cup {NoFrame}
  /\ mac_out \in Frame \cup {NoFrame, Torn}
  /\ poll \in {"idle", "input"}
  /\ out \in {"none", "wait", "ready", "kick"}
  /\ out_frame \in Frame \cup {NoFrame}
  /\ last_in \in Frame \cup {NoFrame, Torn}
  /\ last_out \in Frame \cup {NoFrame, Torn}

\* i lies on the arc of a ring that starts at a and ends before b, a # b.
OnArc(i, a, b) == IF a < b THEN a <= i /\ i < b ELSE a <= i \/ i < b

(* The descriptors that hold a frame are exactly those from the CPU's cursor *)
(* rxnum up to the MAC's: two cursors that advance by different rules (a      *)
(* counter, a wrap bit in shared memory) never lose each other.  When they    *)
(* meet, the ring is all full or all empty.                                   *)
RxArc ==
  IF rxnum = mac_rx
    THEN \A i, j \in RxSlot : rx_flags[i].E = rx_flags[j].E
    ELSE \A i \in RxSlot : rx_flags[i].E = 0 <=> OnArc(i, rxnum, mac_rx)

\* Where the transmit arc ends: past the descriptor just made ready.
TxEnd == IF out = "kick" THEN (IF txnum < TXSIZE - 1 THEN txnum + 1 ELSE 0) ELSE txnum

(* The descriptors that wait for the MAC are exactly those from its cursor up *)
(* to txnum: a frame is never skipped and a slot never reused too early.      *)
TxArc ==
  IF mac_tx = TxEnd
    THEN \A i, j \in TxSlot : tx_flags[i].R = tx_flags[j].R
    ELSE \A i \in TxSlot : tx_flags[i].R = 1 <=> OnArc(i, mac_tx, TxEnd)

(* In both rings, the cursors delimit what the other side may take.           *)
CursorArcs == RxArc /\ TxArc

(* Neither side ever sees a buffer the other is writing: a frame handed to    *)
(* ethernet_input or put on the wire is whole.                                *)
NoTornFrame == last_in # Torn /\ last_out # Torn

(* A frame the MAC has stored is taken from the ring in the end, and a frame  *)
(* made ready goes out: no descriptor stays with one owner for ever.  The     *)
(* busy wait of k66_low_level_output ("blocks to xmit ring buffer available") *)
(* ends.                                                                      *)
Progress ==
  /\ \A i \in RxSlot : rx_flags[i].E = 0 ~> rx_flags[i].E = 1
  /\ \A i \in TxSlot : tx_flags[i].R = 1 ~> tx_flags[i].R = 0
  /\ out # "none" ~> out = "none"

(* ether_poll is there to "check for new pkts": as long as it is called, the  *)
(* MAC that stopped at a full ring goes on to receive.                        *)
RxResumes == rdar = 0 ~> rdar = 1

-----------------------------------------------------------------------------
(* The rings implement EnetLink: the queued frames are those on the arc from  *)
(* the reader's cursor, going around.                                         *)

ArcLen(a, b, full, n) ==
  IF a < b THEN b - a ELSE IF b < a THEN b - a + n ELSE IF full THEN n ELSE 0
Around(i, n) == IF i < n THEN i ELSE i - n

Window(buf, start, len, n) == [k \in 1 .. len |-> buf[Around(start + k - 1, n)]]

\* The frame being handled has left the queue although its slot is not yet re-armed.
Held == IF poll = "input" THEN 1 ELSE 0
rxq == Window(rx_buf, Around(rxnum + Held, RXSIZE),
              ArcLen(rxnum, mac_rx, rx_flags[rxnum].E = 0, RXSIZE) - Held, RXSIZE)
txq == Window(tx_buf, mac_tx, ArcLen(mac_tx, TxEnd, tx_flags[mac_tx].R = 1, TXSIZE), TXSIZE)

Link == INSTANCE EnetLink

(* Frames pass both rings whole, in order, none twice.                        *)
ImplementsLink == Link!Spec
=============================================================================
