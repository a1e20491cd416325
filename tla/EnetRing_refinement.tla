------------------------ MODULE EnetRing_refinement ------------------------
(***************************************************************************)
(* For rings of any size, EnetRing implements EnetLink: every step of the  *)
(* driver or of the MAC is a step of two FIFO links, or changes nothing.   *)
(***************************************************************************)
EXTENDS EnetRing_proofs, SequenceTheorems

Content == Frame \cup {NoFrame, Torn}

\* A window into a ring is a sequence of the given length.
LEMMA WindowSeq ==
  ASSUME NEW n \in Nat \ {0}, NEW buf \in [0 .. n - 1 -> Content],
         NEW start \in 0 .. n - 1, NEW len \in 0 .. n
  PROVE  /\ Window(buf, start, len, n) \in Seq(Content)
         /\ Len(Window(buf, start, len, n)) = len
         /\ \A k \in 1 .. len : Window(buf, start, len, n)[k] = buf[Around(start + k - 1, n)]
<1>1. \A k \in 1 .. len : Around(start + k - 1, n) \in 0 .. n - 1
  BY DEF Around
<1>2. Window(buf, start, len, n) \in [1 .. len -> Content]
  BY <1>1, ZenonT(60) DEF Window
<1> QED
  BY <1>2, SeqDef DEF Window

\* Storing a frame in the slot after the window's last appends it.
LEMMA WindowAppend ==
  ASSUME NEW n \in Nat \ {0}, NEW buf \in [0 .. n - 1 -> Content],
         NEW start \in 0 .. n - 1, NEW len \in 0 .. n - 1, NEW e \in Content
  PROVE  Window([buf EXCEPT ![Around(start + len, n)] = e], start, len + 1, n) =
           Append(Window(buf, start, len, n), e)
<1> DEFINE nbuf == [buf EXCEPT ![Around(start + len, n)] = e]
           s == Window(nbuf, start, len + 1, n)
           w == Window(buf, start, len, n)
<1>1. nbuf \in [0 .. n - 1 -> Content]
  BY ZenonT(60)
<1>2. /\ s \in Seq(Content) /\ Len(s) = len + 1
      /\ \A k \in 1 .. len + 1 : s[k] = nbuf[Around(start + k - 1, n)]
  <2>1. len + 1 \in 0 .. n
    OBVIOUS
  <2> HIDE DEF nbuf
  <2> QED
    BY <1>1, <2>1, WindowSeq, ZenonT(60)
<1>3. /\ w \in Seq(Content) /\ Len(w) = len
      /\ \A k \in 1 .. len : w[k] = buf[Around(start + k - 1, n)]
  <2>1. len \in 0 .. n
    OBVIOUS
  <2> QED
    BY <2>1, WindowSeq, ZenonT(60)
<1>4. \A k \in 1 .. len + 1 : s[k] = Append(w, e)[k]
  <2> TAKE k \in 1 .. len + 1
  <2>1. CASE k = len + 1
    <3>1. Around(start + k - 1, n) = Around(start + len, n) /\ Around(start + len, n) \in 0 .. n - 1
      BY <2>1 DEF Around
    <3>2. nbuf[Around(start + len, n)] = e
      BY <3>1
    <3>3. Append(w, e)[k] = e
      BY <1>3, <2>1, AppendProperties
    <3> HIDE DEF nbuf, s, w
    <3> QED
      BY <1>2, <3>1, <3>2, <3>3
  <2>2. CASE k # len + 1
    <3>1. k \in 1 .. len
      BY <2>2
    <3>2. /\ Around(start + k - 1, n) \in 0 .. n - 1
          /\ Around(start + k - 1, n) # Around(start + len, n)
      BY <3>1 DEF Around
    <3>3. nbuf[Around(start + k - 1, n)] = buf[Around(start + k - 1, n)]
      BY <3>2
    <3>4. Append(w, e)[k] = w[k]
      BY <1>3, <3>1, AppendProperties
    <3> HIDE DEF nbuf, s, w
    <3> QED
      BY <1>2, <1>3, <3>1, <3>3, <3>4
  <2> QED
    BY <2>1, <2>2, ZenonT(60)
<1>5. Append(w, e) \in Seq(Content) /\ Len(Append(w, e)) = len + 1
  BY <1>3, AppendProperties
<1> HIDE DEF s, w
<1>6. s = Append(w, e)
  BY <1>2, <1>4, <1>5, SeqEqual
<1> QED
  BY <1>6, ZenonT(60) DEF s, w

\* The window without its first frame starts one slot later.
LEMMA WindowTail ==
  ASSUME NEW n \in Nat \ {0}, NEW buf \in [0 .. n - 1 -> Content],
         NEW start \in 0 .. n - 1, NEW len \in 1 .. n
  PROVE  /\ Window(buf, start, len, n) # << >>
         /\ Head(Window(buf, start, len, n)) = buf[start]
         /\ Tail(Window(buf, start, len, n)) =
              Window(buf, Around(start + 1, n), len - 1, n)
<1> DEFINE w == Window(buf, start, len, n)
           t == Window(buf, Around(start + 1, n), len - 1, n)
<1>1. /\ w \in Seq(Content) /\ Len(w) = len
      /\ \A k \in 1 .. len : w[k] = buf[Around(start + k - 1, n)]
  <2>1. len \in 0 .. n
    OBVIOUS
  <2> QED
    BY <2>1, WindowSeq, ZenonT(60)
<1>2. /\ t \in Seq(Content) /\ Len(t) = len - 1
      /\ \A k \in 1 .. len - 1 : t[k] = buf[Around(Around(start + 1, n) + k - 1, n)]
  <2>1. len - 1 \in 0 .. n /\ Around(start + 1, n) \in 0 .. n - 1
    BY DEF Around
  <2> QED
    BY <2>1, WindowSeq, ZenonT(60)
<1>3. w # << >> /\ Head(w) = w[1] /\ Tail(w) \in Seq(Content) /\ Len(Tail(w)) = len - 1
      /\ \A k \in 1 .. len - 1 : Tail(w)[k] = w[k + 1]
  BY <1>1, HeadTailProperties, EmptySeq
<1>4. \A k \in 1 .. len - 1 : Tail(w)[k] = t[k]
  <2> TAKE k \in 1 .. len - 1
  <2>1. Around(start + (k + 1) - 1, n) = Around(Around(start + 1, n) + k - 1, n)
    BY DEF Around
  <2> HIDE DEF w, t
  <2> QED
    BY <1>1, <1>2, <1>3, <2>1
<1>5. w[1] = buf[start]
  <2>1. Around(start + 1 - 1, n) = start
    BY DEF Around
  <2> QED
    BY <1>1, <2>1
<1> HIDE DEF w, t
<1>6. Tail(w) = t
  BY <1>2, <1>3, <1>4, SeqEqual
<1> QED
  BY <1>3, <1>5, <1>6 DEF w, t

\* Writing the slot after the window's last does not disturb the window.
LEMMA WindowOutside ==
  ASSUME NEW n \in Nat \ {0}, NEW buf \in [0 .. n - 1 -> Content],
         NEW start \in 0 .. n - 1, NEW len \in 0 .. n - 1, NEW e \in Content
  PROVE  Window([buf EXCEPT ![Around(start + len, n)] = e], start, len, n) =
           Window(buf, start, len, n)
<1>1. \A k \in 1 .. len : /\ Around(start + k - 1, n) \in 0 .. n - 1
                         /\ Around(start + k - 1, n) # Around(start + len, n)
  BY DEF Around
<1>2. \A k \in 1 .. len :
        [buf EXCEPT ![Around(start + len, n)] = e][Around(start + k - 1, n)] =
          buf[Around(start + k - 1, n)]
  BY <1>1
<1> QED
  BY <1>2, ZenonT(60) DEF Window

-----------------------------------------------------------------------------
(* The receive queue *)

USE RingSizes, DistinctFrames

rxLen == ArcLen(rxnum, mac_rx, rx_flags[rxnum].E = 0, RXSIZE)

\* Where the receive queue starts and ends.
LEMMA RxQueue ==
  ASSUME IInv
  PROVE  /\ rx_buf \in [0 .. RXSIZE - 1 -> Content]
         /\ Around(rxnum + Held, RXSIZE) \in 0 .. RXSIZE - 1
         /\ rxLen \in Held .. RXSIZE /\ Held \in {0, 1} /\ rxLen - Held \in 0 .. RXSIZE
         /\ rx_flags[mac_rx].E = 1 =>
              /\ rxLen < RXSIZE
              /\ Around(Around(rxnum + Held, RXSIZE) + (rxLen - Held), RXSIZE) = mac_rx
         /\ rx_flags[rxnum].E = 0 => rxLen > 0
<1> USE DEF IInv, TypeOK, RxSlot, Held
<1>1. rx_buf \in [0 .. RXSIZE - 1 -> Content] /\ Held \in {0, 1}
  BY DEF Content
<1>2. Around(rxnum + Held, RXSIZE) \in 0 .. RXSIZE - 1
  BY DEF Around
<1>3. rx_flags[rxnum].E = 0 => rxLen > 0
  BY DEF rxLen, ArcLen
<1>4. rxLen \in Held .. RXSIZE
  BY <1>3 DEF rxLen, ArcLen, RxInv, RxOwner
<1>5. ASSUME rx_flags[mac_rx].E = 1
      PROVE  /\ rxLen < RXSIZE
             /\ Around(Around(rxnum + Held, RXSIZE) + (rxLen - Held), RXSIZE) = mac_rx
  <2>1. rxnum = mac_rx => rx_flags[rxnum].E = 1 /\ Held = 0
    BY <1>5 DEF RxInv, RxOwner
  <2> QED
    BY <1>4, <1>5, <2>1 DEF rxLen, ArcLen, Around
<1>6. rxLen - Held \in 0 .. RXSIZE
  BY <1>1, <1>4
<1> QED
  BY <1>1, <1>2, <1>3, <1>4, <1>5, <1>6

\* The MAC starting on a descriptor is a stutter of the receive queue.
LEMMA RxqStart ==
  ASSUME IInv, NEW f \in Frame, MacRxStart(f)
  PROVE  rxq' = rxq
<1>1. rxLen < RXSIZE /\ Around(Around(rxnum + Held, RXSIZE) + (rxLen - Held), RXSIZE) = mac_rx
  BY RxQueue DEF MacRxStart
<1>2. rxLen - Held \in 0 .. RXSIZE - 1
  BY RxQueue, <1>1
<1>3. Window([rx_buf EXCEPT ![mac_rx] = Torn], Around(rxnum + Held, RXSIZE), rxLen - Held, RXSIZE)
        = Window(rx_buf, Around(rxnum + Held, RXSIZE), rxLen - Held, RXSIZE)
  BY RxQueue, <1>1, <1>2, WindowOutside, ZenonT(60) DEF Content
<1> QED
  BY <1>3 DEF rxq, rxLen, Held, MacRxStart

\* The MAC closing a descriptor appends its frame to the receive queue.
LEMMA RxqArrive ==
  ASSUME IInv, MacRxDone
  PROVE  Len(rxq) < RXSIZE /\ rxq' = Append(rxq, mac_in) /\ mac_in \in Frame
<1> DEFINE start == Around(rxnum + Held, RXSIZE)
           len == rxLen - Held
<1>1. /\ rxLen < RXSIZE /\ Around(start + len, RXSIZE) = mac_rx
      /\ mac_in \in Frame
  BY RxQueue DEF MacRxDone, IInv, RxInv, RxOwner, TypeOK
<1>2. len \in 0 .. RXSIZE - 1
  BY RxQueue, <1>1
<1>3. Window([rx_buf EXCEPT ![mac_rx] = mac_in], start, len + 1, RXSIZE)
        = Append(Window(rx_buf, start, len, RXSIZE), mac_in)
  <2> HIDE DEF start, len
  <2>1. mac_in \in Content
    BY <1>1 DEF Content
  <2>2. start \in 0 .. RXSIZE - 1
    BY RxQueue DEF start
  <2> QED
    BY RxQueue, <1>1, <1>2, <2>1, <2>2, WindowAppend, ZenonT(60)
<1>4. rxLen' = rxLen + 1
  <2>1. mac_rx' = IF mac_rx < RXSIZE - 1 THEN mac_rx + 1 ELSE 0
    BY MacNextIsRing DEF MacRxDone, IInv
  <2>2. rx_flags'[rxnum].E = 0 <=> (rx_flags[rxnum].E = 0 \/ rxnum = mac_rx)
    BY DEF MacRxDone, IInv, TypeOK, RxFlags
  <2>3. rxnum = mac_rx => rx_flags[rxnum].E = 1
    BY DEF MacRxDone, IInv, RxInv, RxOwner
  <2>4. rxnum # mac_rx => rx_flags[rxnum].E = 0
    BY DEF IInv, RxInv, RxArc, OnArc, TypeOK, RxSlot
  <2> QED
    BY <2>1, <2>2, <2>3, <2>4 DEF rxLen, ArcLen, MacRxDone, IInv, TypeOK, RxSlot
<1>5. rxq' = Window([rx_buf EXCEPT ![mac_rx] = mac_in], start, len + 1, RXSIZE)
  <2>1. rxLen' - Held' = len + 1 /\ Held' = Held /\ rxnum' = rxnum
    BY <1>4, RxQueue DEF MacRxDone, Held
  <2>2. rxq' = Window(rx_buf', Around(rxnum' + Held', RXSIZE), rxLen' - Held', RXSIZE)
    BY DEF rxq, rxLen
  <2> QED
    BY <2>1, <2>2 DEF MacRxDone
<1>6. rxq = Window(rx_buf, start, len, RXSIZE)
  BY DEF rxq, rxLen
<1>7. Len(rxq) = len
  BY RxQueue, WindowSeq, <1>6
<1>8. Len(rxq) < RXSIZE
  BY <1>2, <1>7
<1>9. rxq' = Append(rxq, mac_in)
  BY <1>3, <1>5, <1>6, Zenon
<1> QED
  BY <1>1, <1>8, <1>9

\* handle_frame takes the head of the receive queue.
LEMMA RxqDeliver ==
  ASSUME IInv, handle_frame \/ handle_frame_memerr
  PROVE  rxq # << >> /\ rx_buf[rxnum] = Head(rxq) /\ rxq' = Tail(rxq)
<1>1. /\ poll = "idle" /\ poll' = "input" /\ rx_flags[rxnum].E = 0
      /\ UNCHANGED <<rxnum, mac_rx, rx_flags, rx_buf>>
  BY DEF handle_frame, handle_frame_memerr
<1>2. Held = 0 /\ Held' = 1 /\ rxLen' = rxLen /\ rxLen \in 1 .. RXSIZE
  BY <1>1, RxQueue DEF Held, rxLen
<1>3. Around(rxnum + 0, RXSIZE) = rxnum /\ rxnum \in 0 .. RXSIZE - 1
  BY DEF Around, IInv, TypeOK, RxSlot
<1>4. rxq = Window(rx_buf, rxnum, rxLen, RXSIZE)
  BY <1>2, <1>3 DEF rxq, rxLen
<1>5. rxq' = Window(rx_buf, Around(rxnum + 1, RXSIZE), rxLen - 1, RXSIZE)
  BY <1>1, <1>2 DEF rxq, rxLen
<1>6. /\ Window(rx_buf, rxnum, rxLen, RXSIZE) # << >>
      /\ Head(Window(rx_buf, rxnum, rxLen, RXSIZE)) = rx_buf[rxnum]
      /\ Tail(Window(rx_buf, rxnum, rxLen, RXSIZE)) =
           Window(rx_buf, Around(rxnum + 1, RXSIZE), rxLen - 1, RXSIZE)
  <2>1. rx_buf \in [0 .. RXSIZE - 1 -> Content] /\ RXSIZE \in Nat \ {0}
    BY RxQueue
  <2> QED
    BY <1>2, <1>3, <2>1, WindowTail, ZenonT(60)
<1> QED
  BY <1>4, <1>5, <1>6, Zenon

\* Giving a descriptor back is a stutter of the receive queue.
LEMMA RxqRearm ==
  ASSUME IInv, ether_poll_rearm
  PROVE  rxq' = rxq
<1> USE DEF IInv, TypeOK, RxSlot
<1>1. /\ Held = 1 /\ Held' = 0 /\ rx_flags[rxnum].E = 0
      /\ rxnum' = IF rxnum < RXSIZE - 1 THEN rxnum + 1 ELSE 0
      /\ UNCHANGED <<rx_buf, mac_rx>>
  BY DEF ether_poll_rearm, Held, RxInv, RxOwner
<1>2. Around(rxnum' + 0, RXSIZE) = Around(rxnum + 1, RXSIZE)
  BY <1>1 DEF Around
<1>3. rxLen' - 0 = rxLen - 1
  <2>1. rxnum' # rxnum => (rx_flags'[rxnum'].E = rx_flags[rxnum'].E)
    BY <1>1 DEF ether_poll_rearm
  <2>2. rx_flags'[rxnum].E = 1
    BY DEF ether_poll_rearm, RxFlags
  <2>3. rxnum = mac_rx => rx_flags[rxnum'].E = 0
    BY <1>1 DEF RxInv, RxArc
  <2>4. rxnum # mac_rx /\ rxnum' = mac_rx => rx_flags[rxnum'].E = 1
    BY <1>1 DEF RxInv, RxArc, OnArc
  <2> QED
    BY <1>1, <2>1, <2>2, <2>3, <2>4, SMTT(60) DEF rxLen, ArcLen
<1>4. rxq' = Window(rx_buf', Around(rxnum' + Held', RXSIZE), rxLen' - Held', RXSIZE)
  BY DEF rxq, rxLen
<1>5. rxq = Window(rx_buf, Around(rxnum + Held, RXSIZE), rxLen - Held, RXSIZE)
  BY DEF rxq, rxLen
<1> QED
  BY <1>1, <1>2, <1>3, <1>4, <1>5

-----------------------------------------------------------------------------
(* The transmit queue *)

txLen == ArcLen(mac_tx, TxEnd, tx_flags[mac_tx].R = 1, TXSIZE)

\* Where the transmit queue starts and ends.
LEMMA TxQueue ==
  ASSUME IInv
  PROVE  /\ tx_buf \in [0 .. TXSIZE - 1 -> Content]
         /\ mac_tx \in 0 .. TXSIZE - 1
         /\ txLen \in 0 .. TXSIZE
         /\ tx_flags[mac_tx].R = 1 => txLen > 0
         /\ TxEnd \in TxSlot
         /\ tx_flags[TxEnd].R = 0 =>
              txLen < TXSIZE /\ Around(mac_tx + txLen, TXSIZE) = TxEnd
<1> USE DEF IInv, TypeOK, TxSlot
<1>1. tx_buf \in [0 .. TXSIZE - 1 -> Content]
  BY DEF Content
<1>2. TxEnd \in TxSlot
  BY DEF TxEnd
<1>3. txLen \in 0 .. TXSIZE /\ (tx_flags[mac_tx].R = 1 => txLen > 0)
  BY <1>2 DEF txLen, ArcLen
<1>4. tx_flags[TxEnd].R = 0 => txLen < TXSIZE /\ Around(mac_tx + txLen, TXSIZE) = TxEnd
  BY <1>2 DEF txLen, ArcLen, Around
<1> QED
  BY <1>1, <1>2, <1>3, <1>4, SMTT(60)

\* The MAC sending a descriptor takes the head of the transmit queue.
LEMMA TxqTransmit ==
  ASSUME IInv, MacTxDone
  PROVE  txq # << >> /\ last_out' = Head(txq) /\ txq' = Tail(txq)
<1>1. /\ tx_flags[mac_tx].R = 1 /\ last_out' = tx_buf[mac_tx] /\ UNCHANGED tx_buf
      /\ mac_tx' = IF mac_tx < TXSIZE - 1 THEN mac_tx + 1 ELSE 0
      /\ TxEnd' = TxEnd
  BY MacNextIsRing DEF MacTxDone, IInv, TxInv, TxOwner, TxEnd
<1>2. txLen \in 1 .. TXSIZE /\ mac_tx \in 0 .. TXSIZE - 1 /\ TXSIZE \in Nat \ {0}
      /\ tx_buf \in [0 .. TXSIZE - 1 -> Content]
  BY <1>1, TxQueue
<1>3. mac_tx' = Around(mac_tx + 1, TXSIZE)
  BY <1>1, <1>2, SMTT(60) DEF Around
<1>4. txLen' = txLen - 1
  <2>1. mac_tx' # mac_tx => tx_flags'[mac_tx'].R = tx_flags[mac_tx'].R
    BY <1>1 DEF MacTxDone, IInv, TypeOK
  <2>2. tx_flags'[mac_tx].R = 0
    BY DEF MacTxDone, TxFlags, IInv, TypeOK
  <2>3. mac_tx = TxEnd => tx_flags[mac_tx'].R = 1
    BY <1>1, <1>2, SMTT(60) DEF IInv, TypeOK, TxInv, TxArc, TxSlot
  <2>4. mac_tx # TxEnd /\ mac_tx' = TxEnd => tx_flags[mac_tx'].R # 1
    BY <1>1, <1>2 DEF IInv, TypeOK, TxInv, TxArc, OnArc, TxSlot
  <2>5. txLen' = ArcLen(mac_tx', TxEnd, tx_flags'[mac_tx'].R = 1, TXSIZE)
    BY <1>1 DEF txLen
  <2> QED
    BY <1>1, <1>2, <2>1, <2>2, <2>3, <2>4, <2>5, TxQueue, SMTT(60) DEF txLen, ArcLen, TxSlot
<1>5. txq = Window(tx_buf, mac_tx, txLen, TXSIZE)
  BY DEF txq, txLen
<1>6. txq' = Window(tx_buf, Around(mac_tx + 1, TXSIZE), txLen - 1, TXSIZE)
  <2>1. txq' = Window(tx_buf', mac_tx', txLen', TXSIZE)
    BY DEF txq, txLen
  <2> QED
    BY <1>1, <1>3, <1>4, <2>1
<1>7. /\ Window(tx_buf, mac_tx, txLen, TXSIZE) # << >>
      /\ Head(Window(tx_buf, mac_tx, txLen, TXSIZE)) = tx_buf[mac_tx]
      /\ Tail(Window(tx_buf, mac_tx, txLen, TXSIZE)) =
           Window(tx_buf, Around(mac_tx + 1, TXSIZE), txLen - 1, TXSIZE)
  BY <1>2, WindowTail, ZenonT(60)
<1> QED
  BY <1>1, <1>5, <1>6, <1>7, ZenonT(60)

\* The copy of a frame, not yet marked ready, is a stutter of the transmit queue.
LEMMA TxqCopy ==
  ASSUME IInv, low_level_output_copy
  PROVE  txq' = txq
<1>1. TxEnd = txnum /\ TxEnd' = txnum /\ tx_flags[txnum].R = 0 /\ out_frame \in Content
  BY DEF low_level_output_copy, TxEnd, IInv, TypeOK, Content
<1>2. txLen \in 0 .. TXSIZE - 1 /\ Around(mac_tx + txLen, TXSIZE) = txnum
  BY <1>1, TxQueue
<1>3. Window([tx_buf EXCEPT ![txnum] = out_frame], mac_tx, txLen, TXSIZE)
        = Window(tx_buf, mac_tx, txLen, TXSIZE)
  <2>1. /\ TXSIZE \in Nat \ {0} /\ tx_buf \in [0 .. TXSIZE - 1 -> Content]
        /\ mac_tx \in 0 .. TXSIZE - 1
    BY TxQueue
  <2>2. Window([tx_buf EXCEPT ![Around(mac_tx + txLen, TXSIZE)] = out_frame],
               mac_tx, txLen, TXSIZE)
          = Window(tx_buf, mac_tx, txLen, TXSIZE)
    <3>1. txLen \in 0 .. TXSIZE - 1 /\ out_frame \in Content
      BY <1>1, <1>2
    <3> QED
      BY <2>1, <3>1, WindowOutside, ZenonT(60)
  <2> QED
    BY <1>2, <2>2, Zenon
<1>4. txq' = Window(tx_buf', mac_tx', txLen', TXSIZE) /\ txq = Window(tx_buf, mac_tx, txLen, TXSIZE)
  BY DEF txq, txLen
<1>5. txLen' = txLen
  BY <1>1 DEF txLen, low_level_output_copy
<1> QED
  BY <1>3, <1>4, <1>5 DEF low_level_output_copy

\* The store of the ready bit appends the frame to the transmit queue.
LEMMA TxqSubmit ==
  ASSUME IInv, low_level_output_ready
  PROVE  Len(txq) < TXSIZE /\ txq' = Append(txq, tx_buf[txnum]) /\ tx_buf[txnum] \in Frame
<1> USE DEF low_level_output_ready
<1>1. /\ TxEnd = txnum /\ TxEnd' = IF txnum < TXSIZE - 1 THEN txnum + 1 ELSE 0
      /\ tx_flags[txnum].R = 0 /\ tx_buf[txnum] \in Frame /\ txnum \in 0 .. TXSIZE - 1
  BY DEF TxEnd, IInv, TxInv, TxOwner, TypeOK, TxSlot
<1>2. txLen \in 0 .. TXSIZE - 1 /\ Around(mac_tx + txLen, TXSIZE) = txnum
  BY <1>1, TxQueue
<1>3. txLen' = txLen + 1
  <2>1. /\ mac_tx' = mac_tx
        /\ tx_flags'[mac_tx].R = 1 <=> (mac_tx = txnum \/ tx_flags[mac_tx].R = 1)
    BY DEF TxFlags, IInv, TypeOK
  <2>2. mac_tx # txnum => tx_flags[mac_tx].R = 1
    BY <1>1 DEF IInv, TypeOK, TxInv, TxArc, OnArc, TxSlot
  <2>3. txLen' = IF mac_tx < TxEnd' THEN TxEnd' - mac_tx
                 ELSE IF TxEnd' < mac_tx THEN TxEnd' - mac_tx + TXSIZE
                 ELSE IF tx_flags'[mac_tx].R = 1 THEN TXSIZE ELSE 0
    BY <2>1 DEF txLen, ArcLen
  <2>4. CASE mac_tx = txnum
    <3>1. txLen = 0
      BY <1>1, <2>4 DEF txLen, ArcLen
    <3>2. tx_flags'[mac_tx].R = 1
      BY <2>1, <2>4
    <3> QED
      BY <1>1, <2>3, <2>4, <3>1, <3>2
  <2>5. CASE mac_tx # txnum
    <3>1. tx_flags'[mac_tx].R = 1 /\ mac_tx \in 0 .. TXSIZE - 1
      BY <2>1, <2>2, <2>5, TxQueue
    <3>2. txLen = IF mac_tx < txnum THEN txnum - mac_tx ELSE txnum - mac_tx + TXSIZE
      BY <1>1, <2>5, <3>1 DEF txLen, ArcLen
    <3> QED
      BY <1>1, <2>3, <2>5, <3>1, <3>2
  <2> QED
    BY <2>4, <2>5
<1>4. [tx_buf EXCEPT ![txnum] = tx_buf[txnum]] = tx_buf
  BY TxQueue
<1>5. Window(tx_buf, mac_tx, txLen + 1, TXSIZE)
        = Append(Window(tx_buf, mac_tx, txLen, TXSIZE), tx_buf[txnum])
  <2>1. tx_buf[txnum] \in Content
    BY <1>1 DEF Content
  <2>2. /\ TXSIZE \in Nat \ {0} /\ tx_buf \in [0 .. TXSIZE - 1 -> Content]
        /\ mac_tx \in 0 .. TXSIZE - 1
    BY TxQueue
  <2>3. Window([tx_buf EXCEPT ![Around(mac_tx + txLen, TXSIZE)] = tx_buf[txnum]],
               mac_tx, txLen + 1, TXSIZE)
          = Append(Window(tx_buf, mac_tx, txLen, TXSIZE), tx_buf[txnum])
    <3>1. txLen \in 0 .. TXSIZE - 1
      BY <1>2
    <3> QED
      BY <2>1, <2>2, <3>1, WindowAppend, ZenonT(60)
  <2> QED
    BY <1>2, <1>4, <2>3, Zenon
<1>6. txq' = Window(tx_buf', mac_tx', txLen', TXSIZE) /\ txq = Window(tx_buf, mac_tx, txLen, TXSIZE)
  BY DEF txq, txLen
<1>7. txq' = Append(txq, tx_buf[txnum])
  BY <1>3, <1>5, <1>6
<1>8. Len(txq) = txLen
  BY <1>6, TxQueue, WindowSeq
<1> QED
  BY <1>1, <1>2, <1>7, <1>8

\* The write of TDAR is a stutter of the transmit queue.
LEMMA TxqKick ==
  ASSUME IInv, low_level_output_kick
  PROVE  txq' = txq
<1>1. TxEnd' = TxEnd
  BY DEF TxEnd, low_level_output_kick
<1> QED
  BY <1>1 DEF txq, low_level_output_kick

-----------------------------------------------------------------------------
\* The initial rings are empty links.
LEMMA InitLink == Init => Link!Init
<1> SUFFICES ASSUME Init PROVE Link!Init
  OBVIOUS
<1>1. rxLen - Held = 0 /\ txLen = 0
  BY DEF rxLen, txLen, ArcLen, Held, TxEnd, Init, etherk66_init, RxSlot, TxSlot, RxFlags, TxFlags
<1>2. IInv
  BY InitInv, SMTT(60)
<1>3. rxq \in Seq(Content) /\ Len(rxq) = 0
  BY <1>1, <1>2, RxQueue, WindowSeq, SMTT(60) DEF rxq, rxLen
<1>4. txq \in Seq(Content) /\ Len(txq) = 0
  BY <1>1, <1>2, TxQueue, WindowSeq DEF txq, txLen
<1>5. rxq = << >> /\ txq = << >>
  BY <1>3, <1>4, EmptySeq
<1> QED
  BY <1>5 DEF Link!Init, Init

\* Every step is a step of the links or leaves them unchanged.
LEMMA NextLink == IInv /\ [Next]_vars => [Link!Next]_(Link!linkVars)
<1> SUFFICES ASSUME IInv, [Next]_vars PROVE [Link!Next]_(Link!linkVars)
  OBVIOUS
<1> USE DEF Link!Next, Link!linkVars
<1>1. ASSUME UNCHANGED txVars PROVE txq' = txq /\ last_out' = last_out
  BY <1>1 DEF txVars, txq, TxEnd
<1>2. ASSUME UNCHANGED rxVars PROVE rxq' = rxq /\ last_in' = last_in
  BY <1>2 DEF rxVars, rxq, Held
<1>3. CASE MacRx
  <2>1. UNCHANGED txVars /\ UNCHANGED last_in
    BY <1>3 DEF MacRx, MacRxStart, MacRxDone, MacRxStop
  <2>2. CASE \E f \in Frame : MacRxStart(f)
    BY <1>1, <2>1, <2>2, RxqStart
  <2>3. CASE MacRxDone
    BY <1>1, <2>1, <2>3, RxqArrive, SMTT(60) DEF Link!Arrive
  <2>4. CASE MacRxStop
    BY <1>1, <2>1, <2>4 DEF MacRxStop, rxq, Held
  <2> QED
    BY <1>3, <2>2, <2>3, <2>4 DEF MacRx
<1>4. CASE MacTx
  <2>1. UNCHANGED rxVars
    BY <1>4 DEF MacTx, MacTxStart, MacTxDone, MacTxStop
  <2>2. CASE MacTxDone
    BY <1>2, <2>1, <2>2, TxqTransmit, SMTT(60) DEF Link!Transmit
  <2>3. CASE MacTxStart \/ MacTxStop
    BY <1>2, <2>1, <2>3 DEF MacTxStart, MacTxStop, txq, TxEnd
  <2> QED
    BY <1>4, <2>2, <2>3 DEF MacTx
<1>5. CASE Poll
  <2>1. UNCHANGED txVars
    BY <1>5 DEF Poll, handle_frame, handle_frame_memerr, ether_poll_rearm
  <2>2. CASE handle_frame
    BY <1>1, <2>1, <2>2, RxqDeliver, SMTT(60) DEF handle_frame, Link!Deliver
  <2>3. CASE handle_frame_memerr
    BY <1>1, <2>1, <2>3, RxqDeliver, SMTT(60) DEF handle_frame_memerr, Link!Skip
  <2>4. CASE ether_poll_rearm
    BY <1>1, <2>1, <2>4, RxqRearm, SMTT(60) DEF ether_poll_rearm
  <2> QED
    BY <1>5, <2>2, <2>3, <2>4 DEF Poll
<1>6. CASE Output
  <2>1. UNCHANGED rxVars /\ UNCHANGED last_out
    BY <1>6 DEF Output, low_level_output_copy, low_level_output_ready, low_level_output_kick
  <2>2. CASE low_level_output_copy
    BY <1>2, <2>1, <2>2, TxqCopy
  <2>3. CASE low_level_output_ready
    BY <1>2, <2>1, <2>3, TxqSubmit, SMTT(60) DEF Link!Submit
  <2>4. CASE low_level_output_kick
    BY <1>2, <2>1, <2>4, TxqKick
  <2> QED
    BY <1>6, <2>2, <2>3, <2>4 DEF Output
<1>7. CASE \E f \in Frame : low_level_output(f)
  BY <1>2, <1>7 DEF low_level_output, txq, TxEnd
<1>8. CASE low_level_output_spin \/ UNCHANGED vars
  BY <1>1, <1>2, <1>8 DEF vars, low_level_output_spin
<1> QED
  BY <1>3, <1>4, <1>5, <1>6, <1>7, <1>8 DEF Next

(* For every ring size and every set of frames, the driver and the MAC       *)
(* together behave as two FIFO links: no frame is reordered, duplicated or   *)
(* torn on its way through the rings, and none is lost once accepted.        *)
THEOREM RingsImplementLink == Spec => ImplementsLink
  BY RingInvariant, InitLink, NextLink, PTL DEF Spec, ImplementsLink, Link!Spec
=============================================================================
