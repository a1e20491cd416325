--------------------------- MODULE EnetRing_proofs ---------------------------
(***************************************************************************)
(* For rings of any size and any set of frames: the cursors of the CPU and *)
(* of the MAC stay in the ring and delimit the frames in it, and neither   *)
(* side sees a buffer that the other is writing.                           *)
(***************************************************************************)
EXTENDS EnetRing, TLAPS

\* The wrap bit is set in the last descriptor of each ring and nowhere else.
WrapBits ==
  /\ \A i \in RxSlot : rx_flags[i].W = IF i = RXSIZE - 1 THEN 1 ELSE 0
  /\ \A i \in TxSlot : tx_flags[i].W = IF i = TXSIZE - 1 THEN 1 ELSE 0

\* Who may touch which receive buffer.
RxOwner ==
  /\ mac_in # NoFrame => rx_flags[mac_rx].E = 1
  /\ poll = "input" => rx_flags[rxnum].E = 0
  /\ \A i \in RxSlot : rx_flags[i].E = 0 => rx_buf[i] \in Frame

\* Who may touch which transmit buffer.
TxOwner ==
  /\ mac_out # NoFrame => tx_flags[mac_tx].R = 1 /\ mac_out = tx_buf[mac_tx]
  /\ out = "wait" => out_frame \in Frame
  /\ out = "ready" => tx_flags[txnum].R = 0 /\ tx_buf[txnum] \in Frame
  /\ \A i \in TxSlot : tx_flags[i].R = 1 => tx_buf[i] \in Frame

RxInv == RxArc /\ RxOwner
TxInv == TxArc /\ TxOwner
IInv == TypeOK /\ WrapBits /\ RxInv /\ TxInv /\ NoTornFrame

USE RingSizes, DistinctFrames

\* The initial state of etherk66_init satisfies the inductive invariant.
LEMMA InitInv == Init => IInv
<1> SUFFICES ASSUME Init PROVE IInv
  OBVIOUS
<1> USE DEF Init, etherk66_init, RxSlot, TxSlot, RxFlags, TxFlags
<1>1. TypeOK
  BY DEF TypeOK
<1>2. WrapBits
  BY DEF WrapBits
<1>3. RxInv
  <2>1. \A i \in RxSlot : rx_flags[i].E = 1
    OBVIOUS
  <2>2. RxArc
    BY <2>1 DEF RxArc
  <2>3. RxOwner
    <3>1. mac_in = NoFrame /\ poll = "idle"
      OBVIOUS
    <3> HIDE DEF Init, etherk66_init, RxSlot
    <3> QED
      BY <2>1, <3>1 DEF RxOwner
  <2> QED
    BY <2>2, <2>3 DEF RxInv
<1>4. TxInv
  BY DEF TxInv, TxArc, TxOwner, TxEnd
<1>5. NoTornFrame
  BY DEF NoTornFrame
<1> QED
  BY <1>1, <1>2, <1>3, <1>4, <1>5 DEF IInv

\* The receive side of the invariant does not depend on the transmit variables.
LEMMA RxFrame == RxInv /\ UNCHANGED rxVars => RxInv'
  BY DEF RxInv, rxVars, RxArc, RxOwner

\* Nor the transmit side on the receive variables.
LEMMA TxFrame == TxInv /\ UNCHANGED txVars => TxInv'
  BY DEF TxInv, txVars, TxArc, TxOwner, TxEnd

\* The MAC's cursor, led by the wrap bits, takes the same path as the counters.
LEMMA MacNextIsRing ==
  ASSUME TypeOK, WrapBits
  PROVE  /\ MacNext(mac_rx, rx_flags[mac_rx].W) =
              IF mac_rx < RXSIZE - 1 THEN mac_rx + 1 ELSE 0
         /\ MacNext(mac_tx, tx_flags[mac_tx].W) =
              IF mac_tx < TXSIZE - 1 THEN mac_tx + 1 ELSE 0
  BY DEF TypeOK, WrapBits, MacNext, RxSlot, TxSlot

\* What each receive action does to the receive side, one lemma per action.
LEMMA RxStartInv ==
  ASSUME IInv, NEW f \in Frame, MacRxStart(f)
  PROVE  TypeOK' /\ WrapBits' /\ RxInv'
<1> USE DEF IInv, MacRxStart, rxVars, txVars
<1>1. TypeOK'
  BY DEF TypeOK
<1>2. WrapBits'
  BY DEF WrapBits
<1>3. RxArc'
  BY DEF RxInv, RxArc
<1>4. RxOwner'
  BY DEF RxInv, RxOwner, TypeOK
<1> QED
  BY <1>1, <1>2, <1>3, <1>4 DEF RxInv

\* MacRxDone, the MAC closing the descriptor it filled, preserves the invariant.
LEMMA RxDoneInv ==
  ASSUME IInv, MacRxDone
  PROVE  TypeOK' /\ WrapBits' /\ RxInv'
<1> USE DEF IInv, MacRxDone, rxVars, txVars, RxFlags, RxSlot
<1>0. /\ rx_flags[mac_rx].E = 1
      /\ mac_rx' = IF mac_rx < RXSIZE - 1 THEN mac_rx + 1 ELSE 0
  BY MacNextIsRing DEF RxInv, RxOwner
<1>1. TypeOK'
  BY <1>0 DEF TypeOK
<1>2. WrapBits'
  BY DEF WrapBits, TypeOK
<1>3. RxArc'
  <2>1. CASE rxnum = mac_rx
    BY <1>0, <2>1 DEF RxInv, RxArc, OnArc, TypeOK
  <2>2. CASE rxnum # mac_rx
    BY <1>0, <2>2 DEF RxInv, RxArc, OnArc, TypeOK
  <2> QED
    BY <2>1, <2>2
<1>4. RxOwner'
  BY DEF RxInv, RxOwner, TypeOK
<1> QED
  BY <1>1, <1>2, <1>3, <1>4 DEF RxInv

\* MacRxStop, the MAC stopping at a full descriptor, preserves the invariant.
LEMMA RxStopInv ==
  ASSUME IInv, MacRxStop
  PROVE  TypeOK' /\ WrapBits' /\ RxInv'
  BY DEF IInv, MacRxStop, rxVars, txVars, TypeOK, WrapBits, RxInv, RxArc, RxOwner

\* handle_frame preserves the invariant: it reads the frame and owns the descriptor.
LEMMA HandleFrameInv ==
  ASSUME IInv, handle_frame \/ handle_frame_memerr
  PROVE  TypeOK' /\ WrapBits' /\ RxInv' /\ last_in' # Torn
<1> USE DEF IInv, handle_frame, handle_frame_memerr, rxVars, txVars
<1>1. TypeOK'
  BY DEF TypeOK
<1>2. WrapBits' /\ RxArc'
  BY DEF WrapBits, RxInv, RxArc
<1>3. RxOwner'
  BY DEF RxInv, RxOwner
<1>4. last_in' # Torn
  BY DEF TypeOK, RxInv, RxOwner, NoTornFrame
<1> QED
  BY <1>1, <1>2, <1>3, <1>4 DEF RxInv

\* The end of ether_poll, which gives a descriptor back, preserves the invariant.
LEMMA RearmInv ==
  ASSUME IInv, ether_poll_rearm
  PROVE  TypeOK' /\ WrapBits' /\ RxInv'
<1> USE DEF IInv, ether_poll_rearm, rxVars, txVars, RxFlags, RxSlot
<1>0. /\ rx_flags[rxnum].E = 0
      /\ rxnum' = IF rxnum < RXSIZE - 1 THEN rxnum + 1 ELSE 0
      /\ rx_flags' = [rx_flags EXCEPT ![rxnum] =
                        RxFlags(1, IF rxnum = RXSIZE - 1 THEN 1 ELSE 0)]
  BY DEF RxInv, RxOwner, TypeOK
<1>1. TypeOK'
  BY <1>0 DEF TypeOK
<1>2. WrapBits'
  BY <1>0 DEF WrapBits, TypeOK
<1>3. RxArc'
  <2>1. CASE rxnum = mac_rx
    BY <1>0, <2>1 DEF RxInv, RxArc, OnArc, TypeOK
  <2>2. CASE rxnum # mac_rx
    BY <1>0, <2>2 DEF RxInv, RxArc, OnArc, TypeOK
  <2> QED
    BY <2>1, <2>2
<1>4. RxOwner'
  BY <1>0 DEF RxInv, RxOwner, TypeOK
<1> QED
  BY <1>1, <1>2, <1>3, <1>4 DEF RxInv

\* The same for the transmit actions.
LEMMA TxStartInv ==
  ASSUME IInv, MacTxStart
  PROVE  TypeOK' /\ WrapBits' /\ TxInv'
<1> USE DEF IInv, MacTxStart, rxVars, txVars
<1>1. TypeOK'
  BY SMTT(60) DEF TypeOK
<1>2. WrapBits' /\ TxArc'
  BY DEF WrapBits, TxInv, TxArc, TxEnd
<1>3. TxOwner'
  BY DEF TxInv, TxOwner
<1> QED
  BY <1>1, <1>2, <1>3 DEF TxInv

\* MacTxDone, the MAC releasing a descriptor it sent, preserves the invariant.
LEMMA TxDoneInv ==
  ASSUME IInv, MacTxDone
  PROVE  TypeOK' /\ WrapBits' /\ TxInv' /\ last_out' # Torn
<1> USE DEF IInv, MacTxDone, rxVars, txVars, TxFlags, TxSlot
<1>0. /\ tx_flags[mac_tx].R = 1 /\ mac_out = tx_buf[mac_tx] /\ mac_out \in Frame
      /\ mac_tx' = IF mac_tx < TXSIZE - 1 THEN mac_tx + 1 ELSE 0
  BY MacNextIsRing DEF TxInv, TxOwner, TypeOK
<1>1. TypeOK'
  BY <1>0 DEF TypeOK
<1>2. WrapBits'
  BY DEF WrapBits, TypeOK
<1>3. TxArc'
  <2>0. TxEnd' = TxEnd /\ TxEnd \in TxSlot
    BY DEF TxEnd, TypeOK
  <2>1. CASE mac_tx = TxEnd
    BY <1>0, <2>0, <2>1 DEF TxInv, TxArc, OnArc, TypeOK
  <2>2. CASE mac_tx # TxEnd
    <3>1. \A i \in TxSlot : tx_flags'[i].R = IF i = mac_tx THEN 0 ELSE tx_flags[i].R
      BY DEF TypeOK
    <3>2. \A i \in TxSlot : tx_flags[i].R = 1 <=> OnArc(i, mac_tx, TxEnd)
      BY <2>2 DEF TxInv, TxArc
    <3>3. mac_tx \in TxSlot /\ \A i \in TxSlot : tx_flags'[i].R \in {0, 1}
      BY <1>1 DEF TypeOK
    <3>4. CASE mac_tx' = TxEnd
      BY <1>0, <2>0, <2>2, <3>1, <3>2, <3>3, <3>4 DEF OnArc, TxArc
    <3>5. CASE mac_tx' # TxEnd
      BY <1>0, <2>0, <2>2, <3>1, <3>2, <3>3, <3>5 DEF OnArc, TxArc
    <3> QED
      BY <3>4, <3>5
  <2> QED
    BY <2>1, <2>2
<1>4. TxOwner'
  BY DEF TxInv, TxOwner, TypeOK
<1>5. last_out' # Torn
  BY <1>0
<1> QED
  BY <1>1, <1>2, <1>3, <1>4, <1>5 DEF TxInv

\* MacTxStop, the MAC finding no ready descriptor, preserves the invariant.
LEMMA TxStopInv ==
  ASSUME IInv, MacTxStop
  PROVE  TypeOK' /\ WrapBits' /\ TxInv'
  BY DEF IInv, MacTxStop, rxVars, txVars, TypeOK, WrapBits, TxInv, TxArc, TxOwner, TxEnd

\* The test of the ready bit in k66_low_level_output preserves the invariant.
LEMMA OutputInv ==
  ASSUME IInv, NEW f \in Frame, low_level_output(f)
  PROVE  TypeOK' /\ WrapBits' /\ TxInv'
<1> USE DEF IInv, low_level_output, rxVars, txVars
<1>1. TypeOK'
  BY SMTT(60) DEF TypeOK
<1>2. WrapBits' /\ TxArc'
  BY DEF WrapBits, TxInv, TxArc, TxEnd
<1>3. TxOwner'
  BY SMTT(60) DEF TxInv, TxOwner
<1> QED
  BY <1>1, <1>2, <1>3 DEF TxInv

\* The copy of a frame into the buffer preserves the invariant.
LEMMA OutputCopyInv ==
  ASSUME IInv, low_level_output_copy
  PROVE  TypeOK' /\ WrapBits' /\ TxInv'
<1> USE DEF IInv, low_level_output_copy, rxVars, txVars
<1>1. TypeOK'
  BY SMTT(60) DEF TypeOK
<1>2. WrapBits' /\ TxArc'
  BY DEF WrapBits, TxInv, TxArc, TxEnd
<1>3. TxOwner'
  BY DEF TxInv, TxOwner, TypeOK
<1> QED
  BY <1>1, <1>2, <1>3 DEF TxInv

\* The store of the ready bit preserves the invariant.
LEMMA OutputReadyInv ==
  ASSUME IInv, low_level_output_ready
  PROVE  TypeOK' /\ WrapBits' /\ TxInv'
<1> USE DEF IInv, low_level_output_ready, rxVars, txVars, TxFlags, TxSlot
<1>0. /\ tx_flags[txnum].R = 0
      /\ TxEnd = txnum /\ TxEnd' = IF txnum < TXSIZE - 1 THEN txnum + 1 ELSE 0
  BY DEF TxInv, TxOwner, TxEnd
<1>1. TypeOK'
  BY DEF TypeOK
<1>2. WrapBits'
  BY DEF WrapBits, TypeOK
<1>3. TxArc'
  <2>1. CASE mac_tx = txnum
    BY <1>0, <2>1 DEF TxInv, TxArc, OnArc, TypeOK
  <2>2. CASE mac_tx # txnum
    BY <1>0, <2>2 DEF TxInv, TxArc, OnArc, TypeOK
  <2> QED
    BY <2>1, <2>2
<1>4. TxOwner'
  BY <1>0 DEF TxInv, TxOwner, TypeOK
<1> QED
  BY <1>1, <1>2, <1>3, <1>4 DEF TxInv

\* The write of TDAR preserves the invariant.
LEMMA OutputKickInv ==
  ASSUME IInv, low_level_output_kick
  PROVE  TypeOK' /\ WrapBits' /\ TxInv'
<1> USE DEF IInv, low_level_output_kick, rxVars, txVars, TxSlot
<1>1. TypeOK'
  BY SMTT(60) DEF TypeOK
<1>2. WrapBits'
  BY DEF WrapBits
<1>3. TxArc'
  <2>1. TxEnd' = TxEnd
    BY DEF TxEnd
  <2> QED
    BY <2>1 DEF TxInv, TxArc
<1>4. TxOwner'
  BY DEF TxInv, TxOwner
<1> QED
  BY <1>1, <1>2, <1>3, <1>4 DEF TxInv

\* Every step of the CPU and of the MAC preserves the inductive invariant.
LEMMA NextInv == IInv /\ [Next]_vars => IInv'
<1> SUFFICES ASSUME IInv, [Next]_vars PROVE IInv'
  OBVIOUS
<1>1. CASE MacRx
  <2>1. UNCHANGED <<txVars, last_in>>
    BY <1>1 DEF MacRx, MacRxStart, MacRxDone, MacRxStop, txVars
  <2>2. TypeOK' /\ WrapBits' /\ RxInv'
    BY <1>1, RxStartInv, RxDoneInv, RxStopInv DEF MacRx
  <2> QED
    BY <2>1, <2>2, TxFrame DEF IInv, NoTornFrame, txVars
<1>2. CASE MacTx
  <2>1. UNCHANGED rxVars
    BY <1>2 DEF MacTx, MacTxStart, MacTxDone, MacTxStop
  <2>2. TypeOK' /\ WrapBits' /\ TxInv' /\ last_out' # Torn
    BY <1>2, TxStartInv, TxDoneInv, TxStopInv
    DEF MacTx, MacTxStart, MacTxStop, IInv, NoTornFrame
  <2> QED
    BY <2>1, <2>2, RxFrame, SMTT(60) DEF IInv, NoTornFrame, rxVars
<1>3. CASE Poll
  <2>1. UNCHANGED txVars
    BY <1>3 DEF Poll, handle_frame, handle_frame_memerr, ether_poll_rearm
  <2>2. TypeOK' /\ WrapBits' /\ RxInv' /\ last_in' # Torn
    BY <1>3, HandleFrameInv, RearmInv DEF Poll, ether_poll_rearm, IInv, NoTornFrame
  <2> QED
    BY <2>1, <2>2, TxFrame DEF IInv, NoTornFrame, txVars
<1>4. CASE Output \/ \E f \in Frame : low_level_output(f)
  <2>1. UNCHANGED <<rxVars, last_out>>
    BY <1>4 DEF Output, low_level_output, low_level_output_copy, low_level_output_ready,
                low_level_output_kick
  <2>2. TypeOK' /\ WrapBits' /\ TxInv'
    BY <1>4, OutputInv, OutputCopyInv, OutputReadyInv, OutputKickInv DEF Output
  <2> QED
    BY <2>1, <2>2, RxFrame DEF IInv, NoTornFrame, rxVars
<1>5. CASE low_level_output_spin \/ UNCHANGED vars
  <2>1. UNCHANGED rxVars /\ UNCHANGED txVars
    BY <1>5 DEF vars, low_level_output_spin
  <2>2. TypeOK' /\ WrapBits' /\ NoTornFrame'
    BY <2>1 DEF rxVars, txVars, IInv, TypeOK, WrapBits, NoTornFrame
  <2> QED
    BY <2>1, <2>2, RxFrame, TxFrame DEF IInv
<1> QED
  BY <1>1, <1>2, <1>3, <1>4, <1>5 DEF Next

\* The inductive invariant holds in every behaviour.
THEOREM RingInvariant == Spec => []IInv
  BY InitInv, NextInv, PTL DEF Spec

(* Type correctness.  That mac_rx and mac_tx stay in the ring is the point: *)
(* it says that ether_poll never loses the wrap bit the MAC depends on.     *)
THEOREM RingTypes == Spec => []TypeOK
  BY RingInvariant, PTL DEF IInv

(* The frames in each ring are always exactly those between the cursors of  *)
(* the CPU and of the MAC.                                                  *)
THEOREM CursorsAgree == Spec => []CursorArcs
  BY RingInvariant, PTL DEF IInv, RxInv, TxInv, CursorArcs

(* No frame is handed to ethernet_input, and none goes out, that the other  *)
(* side was still writing.                                                  *)
THEOREM FramesAreWhole == Spec => []NoTornFrame
  BY RingInvariant, PTL DEF IInv
=============================================================================
