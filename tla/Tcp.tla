-------------------------------- MODULE Tcp --------------------------------
(***************************************************************************)
(* TCP of lwIP (tcp.c, tcp_in.c, tcp_out.c): two ends that both run this    *)
(* code, one connection between fixed ports, and a network that loses,      *)
(* duplicates and reorders segments.  A call of the application, a segment  *)
(* passed to tcp_input and a timer are one step each (one thread).          *)
(*                                                                         *)
(* Sequence numbers are MOD numbers with wraparound instead of 2^32.  The   *)
(* bytes an application writes are numbered 0, 1, ...; the data of a        *)
(* segment is the interval off .. off+len-1 of them, whatever its sequence  *)
(* number says.  Time is abstract: a running timer may expire at any slow   *)
(* tick (no RTT estimate, no rto, no counting of ticks).  As in lwipopts.h  *)
(* there is no queue of out-of-sequence segments.  The MSS is fixed.        *)
(***************************************************************************)
EXTENDS Integers, Sequences, FiniteSets, FiniteSetsExt

CONSTANTS MOD,              \* size of the sequence space
          TCP_MSS, TCP_WND, TCP_SND_BUF, TCP_SND_QUEUELEN,
          TCP_MAXRTX,       \* retransmissions before giving up (SYN or data)
          ISS,              \* first initial sequence number of each end
          ISS_STEP,         \* what tcp_next_iss adds between two connections
          PLANS,            \* what the applications and the network may do, see Plan
          NETMAX            \* bound: segments in flight per direction, the rest is lost

Ends == {"client", "server"}
Peer(e) == IF e = "client" THEN "server" ELSE "client"

(* A plan bounds a behaviour: the bytes each application may write, the ends *)
(* that may shut down only their sending side, the ends that close only      *)
(* when they are told of the end of the stream, the ends that write early    *)
(* (before they are connected) and without tcp_output, and the faults:      *)
(* losses, duplicates, overtakings, refusals of data, early timers, aborts. *)
Plan == [writes : [Ends -> Nat], half : SUBSET Ends, passive : SUBSET Ends,
         early : SUBSET Ends, faults : Nat]

ASSUME TcpAssumption ==
    /\ {MOD, TCP_MSS, TCP_WND, TCP_SND_BUF, TCP_SND_QUEUELEN, TCP_MAXRTX, ISS_STEP} \subseteq Nat \ {0}
    /\ MOD > 2 * (TCP_SND_BUF + TCP_WND)
    /\ \A e \in Ends : ISS[e] \in 0 .. MOD - 1
    /\ PLANS \subseteq Plan
    /\ NETMAX \in Nat

VARIABLES pcb,       \* the protocol control block of each end
          net,       \* the segments on their way to each end
          listening, \* the server's listening PCB exists; the server closes it when it accepts
          iss,       \* the static variable of tcp_next_iss
          app,       \* what each application did and was told
          plan,      \* one of PLANS
          faults     \* faults that may still happen

vars == <<pcb, net, listening, iss, app, plan, faults>>
-----------------------------------------------------------------------------
(* Sequence numbers (tcp_impl.h).                                           *)

Add(a, n) == (a + n) % MOD
Sub(a, b) == (a - b) % MOD
TCP_SEQ_LT(a, b)  == Sub(a, b) >= MOD \div 2
TCP_SEQ_LEQ(a, b) == a = b \/ TCP_SEQ_LT(a, b)
TCP_SEQ_BETWEEN(a, b, c) == ~TCP_SEQ_LT(a, b) /\ TCP_SEQ_LEQ(a, c)

LWIP_MIN(a, b) == IF a < b THEN a ELSE b
LWIP_MAX(a, b) == IF a > b THEN a ELSE b
Has(x, f) == f \in x.flags
TCP_TCPLEN(s) == s.len + (IF Has(s, "SYN") \/ Has(s, "FIN") THEN 1 ELSE 0)

\* A congestion window beyond the largest window of the peer makes no difference.
CWND_MAX == TCP_WND + TCP_MSS
Cwnd(n) == LWIP_MIN(n, CWND_MAX)

Synchronized == {"ESTABLISHED", "FIN_WAIT_1", "FIN_WAIT_2", "CLOSE_WAIT", "CLOSING", "LAST_ACK"}
Active == Synchronized \cup {"SYN_SENT", "SYN_RCVD"}
States == Active \cup {"CLOSED", "TIME_WAIT"}

(* tcp_alloc.  `isn' and `irs' record both initial sequence numbers for the *)
(* properties.  A freed PCB is NoPcb.                                       *)
tcp_alloc(i) ==
    [state |-> "CLOSED", flags |-> {}, isn |-> i, irs |-> 0,
     rcv_nxt |-> 0, rcv_wnd |-> TCP_WND, rcv_ann_wnd |-> TCP_WND, rcv_ann_right_edge |-> 0,
     snd_nxt |-> i, snd_lbb |-> i, lastack |-> i, snd_wl1 |-> 0, snd_wl2 |-> i,
     snd_wnd |-> 0, snd_buf |-> TCP_SND_BUF, snd_queuelen |-> 0, acked |-> 0,
     unsent |-> <<>>, unacked |-> <<>>, refused_data |-> <<>>,
     rtime |-> FALSE, nrtx |-> 0, persist |-> FALSE,
     cwnd |-> 1, ssthresh |-> 0, dupacks |-> 0]
NoPcb == tcp_alloc(0)
-----------------------------------------------------------------------------
(* Output (tcp_out.c).  A step works on w: the PCB p, the segments out it    *)
(* sends, and what tcp_process leaves for tcp_input.                        *)

Work(p) == [p |-> p, out |-> <<>>, recv |-> <<>>, result |-> "OK", got_fin |-> FALSE, accept |-> FALSE]

Wire(seq, ack, wnd, flags, off, len) ==
    [seq |-> seq, ack |-> ack, wnd |-> wnd, flags |-> flags, off |-> off, len |-> len]

Emit(w, s) == [w EXCEPT !.out = Append(@, s)]
tcp_rst(w, seq, ack) == Emit(w, Wire(seq, ack, TCP_WND, {"RST", "ACK"}, 0, 0))

\* Every header sent announces the window and moves its right edge.
Announce(p) == [p EXCEPT !.rcv_ann_right_edge = Add(p.rcv_nxt, p.rcv_ann_wnd)]
Header(p, seq, flags, off, len) == Wire(seq, p.rcv_nxt, p.rcv_ann_wnd, flags, off, len)

tcp_send_empty_ack(w) ==
    Emit([w EXCEPT !.p = [Announce(w.p) EXCEPT !.flags = @ \ {"ACK_DELAY", "ACK_NOW"}]],
         Header(w.p, w.p.snd_nxt, {"ACK"}, 0, 0))

\* Where a segment ends, seen from lastack: what is compared with a window.
Extent_alone(p, s) == s.len
Extent(p, s) == (s.seq - p.lastack + s.len) % MOD

\* The list of segments kept sorted by sequence number.
Sorted(S) ==
    LET rank(s) == Cardinality({t \in S : TCP_SEQ_LT(t.seq, s.seq)})
    IN  [i \in 1 .. Cardinality(S) |-> CHOOSE s \in S : rank(s) = i - 1]
Segs(q) == {q[i] : i \in 1 .. Len(q)}

(* tcp_output, where tcp_input is not at work on this PCB.  The loop sends  *)
(* the longest prefix of unsent that the window and Nagle's rule allow.     *)
tcp_output(w) ==
    LET p == w.p
        q == p.unsent
        wnd == LWIP_MIN(p.snd_wnd, p.cwnd)
        nagle(i) == \/ p.unacked = <<>> /\ i = 1
                    \/ {"INFR", "NAGLEMEMERR", "FIN"} \cap p.flags # {}
                    \/ i < Len(q)
                    \/ q[i].len >= TCP_MSS
        n == CHOOSE k \in 0 .. Len(q) :
                /\ \A i \in 1 .. k : Extent(p, q[i]) <= wnd /\ nagle(i)
                /\ k < Len(q) => ~(Extent(p, q[k + 1]) <= wnd /\ nagle(k + 1))
        sent == SubSeq(q, 1, n)
        ackd == IF p.state = "SYN_SENT" THEN {} ELSE {"ACK"}
        seg(i) == Header(p, q[i].seq, q[i].flags \cup ackd, q[i].off, q[i].len)
        end == Add(sent[n].seq, TCP_TCPLEN(sent[n]))
        p1 == IF n = 0 THEN p
              ELSE [Announce(p) EXCEPT
                      !.unsent = SubSeq(q, n + 1, Len(q)),
                      !.unacked = Sorted(Segs(p.unacked) \cup Segs(sent)),
                      !.rtime = TRUE,
                      !.snd_nxt = IF TCP_SEQ_LT(@, end) THEN end ELSE @,
                      !.flags = IF ackd = {} THEN @ ELSE @ \ {"ACK_DELAY", "ACK_NOW"}]
        p2 == [p1 EXCEPT
                 !.persist = @ \/ (n < Len(q) /\ Extent(p, q[n + 1]) > p.snd_wnd),
                 !.flags = @ \ {"NAGLEMEMERR"}]
    IN  IF Has(p, "ACK_NOW") /\ (q = <<>> \/ Extent(p, q[1]) > wnd)
        THEN tcp_send_empty_ack(w)
        ELSE [w EXCEPT !.p = p2, !.out = @ \o [i \in 1 .. n |-> seg(i)]]

Seg(seq, off, len, flags) == [seq |-> seq, off |-> off, len |-> len, flags |-> flags, clen |-> 1]

CanEnqueue(p) == p.snd_queuelen < TCP_SND_QUEUELEN /\ p.snd_buf > 0

tcp_enqueue_flags(p, flags) ==
    [p EXCEPT !.unsent = Append(@, Seg(p.snd_lbb, 0, 0, flags)),
              !.snd_lbb = Add(@, 1), !.snd_buf = @ - 1, !.snd_queuelen = @ + 1,
              !.flags = @ \cup (flags \cap {"FIN"})]

\* The FIN goes into the last unsent segment if that carries neither SYN nor FIN.
FinFits(p) == p.unsent # <<>> /\ p.unsent[Len(p.unsent)].flags \cap {"SYN", "FIN"} = {}

CanFin(p) == FinFits(p) \/ CanEnqueue(p)

tcp_send_fin(p) ==
    IF FinFits(p) THEN [p EXCEPT !.unsent[Len(p.unsent)].flags = @ \cup {"FIN"}]
    ELSE IF CanEnqueue(p) THEN tcp_enqueue_flags(p, {"FIN"})
    ELSE IF p.snd_queuelen >= TCP_SND_QUEUELEN THEN [p EXCEPT !.flags = @ \cup {"NAGLEMEMERR"}]
    ELSE p

(* tcp_write of n bytes from offset off: fill the last unsent segment, then *)
(* make new ones.  It changes only TF_NAGLEMEMERR when it fails.            *)
tcp_write(p, off, n) ==
    LET k == Len(p.unsent)
        fill == IF k > 0 /\ p.unsent[k].len > 0
                THEN LWIP_MIN(n, TCP_MSS - p.unsent[k].len) ELSE 0
        count == (n - fill + TCP_MSS - 1) \div TCP_MSS
        pos(i) == fill + (i - 1) * TCP_MSS
        new == [i \in 1 .. count |->
                  Seg(Add(p.snd_lbb, pos(i)), off + pos(i), LWIP_MIN(TCP_MSS, n - pos(i)), {})]
        old == IF fill = 0 THEN p.unsent
               ELSE [p.unsent EXCEPT ![k].len = @ + fill, ![k].clen = @ + 1]
        queuelen == p.snd_queuelen + count + (IF fill = 0 THEN 0 ELSE 1)
    IN  IF n > p.snd_buf \/ p.snd_queuelen >= TCP_SND_QUEUELEN
           \/ (count > 0 /\ queuelen > TCP_SND_QUEUELEN)
        THEN [p EXCEPT !.flags = @ \cup {"NAGLEMEMERR"}]
        ELSE [p EXCEPT !.unsent = old \o new, !.snd_lbb = Add(@, n),
                       !.snd_buf = @ - n, !.snd_queuelen = queuelen]

\* nrtx is compared with TCP_MAXRTX for equality: beyond it all values are alike.
Retried(n) == LWIP_MIN(n + 1, TCP_MAXRTX + 1)

tcp_rexmit_rto(w) ==
    tcp_output([w EXCEPT !.p = [@ EXCEPT !.unsent = w.p.unacked \o @, !.unacked = <<>>,
                                         !.nrtx = Retried(@)]])

tcp_rexmit(p) ==
    IF p.unacked = <<>> THEN p
    ELSE [p EXCEPT !.unsent = Sorted(Segs(@) \cup {p.unacked[1]}),
                   !.unacked = Tail(@), !.nrtx = Retried(@)]

tcp_rexmit_fast(p) ==
    LET half == LWIP_MAX(LWIP_MIN(p.cwnd, p.snd_wnd) \div 2, 2 * TCP_MSS)
    IN  IF p.unacked = <<>> \/ Has(p, "INFR") THEN p
        ELSE [tcp_rexmit(p) EXCEPT !.ssthresh = Cwnd(half), !.cwnd = Cwnd(half + 3 * TCP_MSS),
                                   !.flags = @ \cup {"INFR"}]

\* One byte, or the FIN, of the first segment that is not acknowledged.
tcp_zero_window_probe(w) ==
    LET q == w.p.unacked \o w.p.unsent
        s == q[1]
        is_fin == Has(s, "FIN") /\ s.len = 0
    IN  IF q = <<>> THEN w
        ELSE Emit([w EXCEPT !.p = Announce(@)],
                  Header(w.p, s.seq, IF is_fin THEN {"ACK", "FIN"} ELSE {"ACK"},
                         s.off, IF is_fin THEN 0 ELSE 1))
-----------------------------------------------------------------------------
(* Input (tcp_in.c).                                                        *)

tcp_ack_now(p) == [p EXCEPT !.flags = @ \cup {"ACK_NOW"}]
tcp_ack(p) == [p EXCEPT !.flags = IF "ACK_DELAY" \in @ THEN (@ \ {"ACK_DELAY"}) \cup {"ACK_NOW"}
                                  ELSE @ \cup {"ACK_DELAY"}]

tcp_pcb_purge(p) == [p EXCEPT !.refused_data = <<>>, !.rtime = FALSE,
                              !.unsent = <<>>, !.unacked = <<>>]

\* Is the window so much larger than announced that it is worth announcing?
WorthAnnouncing(p) == ~TCP_SEQ_LT(Add(p.rcv_nxt, p.rcv_wnd),
                                  Add(p.rcv_ann_right_edge, LWIP_MIN(TCP_WND \div 2, TCP_MSS)))
Inflation(p) == IF WorthAnnouncing(p)
                THEN Sub(Add(p.rcv_nxt, p.rcv_wnd), p.rcv_ann_right_edge) ELSE 0
tcp_update_rcv_ann_wnd(p) ==
    [p EXCEPT !.rcv_ann_wnd =
        IF WorthAnnouncing(p) THEN p.rcv_wnd
        ELSE IF TCP_SEQ_LEQ(p.rcv_nxt, p.rcv_ann_right_edge)
             THEN Sub(p.rcv_ann_right_edge, p.rcv_nxt) ELSE 0]

\* How many segments at the head of q an acknowledgement covers, and their pbufs.
Covered_start(q, ack) == CHOOSE k \in 0 .. Len(q) :
    LET old(i) == TCP_SEQ_LT(q[i].seq, ack)
    IN  (\A i \in 1 .. k : old(i)) /\ (k < Len(q) => ~old(k + 1))
Covered(q, ack) == CHOOSE k \in 0 .. Len(q) :
    LET old(i) == ~TCP_SEQ_LT(ack, Add(q[i].seq, TCP_TCPLEN(q[i])))
    IN  (\A i \in 1 .. k : old(i)) /\ (k < Len(q) => ~old(k + 1))
Pbufs(q, k) == MapThenSumSet(LAMBDA i : q[i].clen, 1 .. k)

\* Segments leave a queue; the byte of a FIN among them is not reported as sent.
Freed(p, q, k) ==
    LET fin == \E i \in 1 .. k : Has(q[i], "FIN")
    IN  [p EXCEPT !.snd_queuelen = @ - Pbufs(q, k),
                  !.acked = IF fin /\ @ > 0 THEN @ - 1 ELSE @]

UpdateWindow(p, s) ==
    IF \/ TCP_SEQ_LT(p.snd_wl1, s.seq)
       \/ p.snd_wl1 = s.seq /\ TCP_SEQ_LT(p.snd_wl2, s.ack)
       \/ p.snd_wl2 = s.ack /\ s.wnd > p.snd_wnd
    THEN [p EXCEPT !.snd_wnd = s.wnd, !.snd_wl1 = s.seq, !.snd_wl2 = s.ack,
                   !.persist = @ /\ s.wnd = 0]
    ELSE p

(* An old acknowledgement: the third duplicate in a row starts the fast     *)
(* retransmit, later ones inflate the congestion window (dupacks stays 4).  *)
DupAck(p, s, edge) ==
    LET dup == /\ TCP_TCPLEN(s) = 0
               /\ Add(p.snd_wl2, p.snd_wnd) = edge
               /\ p.rtime
               /\ p.lastack = s.ack
        n == LWIP_MIN(p.dupacks + 1, 4)
        p1 == [p EXCEPT !.acked = 0, !.dupacks = IF dup THEN n ELSE 0]
    IN  CASE dup /\ n = 3 -> tcp_rexmit_fast(p1)
          [] dup /\ n = 4 -> [p1 EXCEPT !.cwnd = Cwnd(@ + TCP_MSS)]
          [] OTHER        -> p1

NewAck(p, s) ==
    LET acked == Sub(s.ack, p.lastack)
        k == Covered(p.unacked, s.ack)
        cwnd == IF Has(p, "INFR") THEN p.ssthresh ELSE p.cwnd
        more == IF cwnd < p.ssthresh THEN TCP_MSS ELSE (TCP_MSS * TCP_MSS) \div cwnd
        p1 == [p EXCEPT !.flags = @ \ {"INFR"}, !.nrtx = 0, !.acked = acked,
                        !.snd_buf = @ + acked, !.dupacks = 0, !.lastack = s.ack,
                        !.cwnd = Cwnd(cwnd + more),
                        !.unacked = SubSeq(@, k + 1, Len(@)),
                        !.rtime = k < Len(p.unacked)]
    IN  Freed(p1, p.unacked, k)

\* After a timeout segments that were sent are on the unsent queue again.
AckUnsent(p, s) ==
    LET k == IF TCP_SEQ_LEQ(s.ack, p.snd_nxt) THEN Covered(p.unsent, s.ack) ELSE 0
    IN  Freed([p EXCEPT !.unsent = SubSeq(@, k + 1, Len(@))], p.unsent, k)

ReceiveAck(p, s) ==
    LET p1 == UpdateWindow(p, s)
    IN  AckUnsent(IF TCP_SEQ_LEQ(s.ack, p.lastack) THEN DupAck(p1, s, Add(p.snd_wl2, p.snd_wnd))
                  ELSE IF TCP_SEQ_BETWEEN(s.ack, Add(p.lastack, 1), p.snd_nxt) THEN NewAck(p1, s)
                  ELSE [p1 EXCEPT !.acked = 0], s)

\* What was received before is cut off the front, what does not fit off the end.
TrimLeft_header(s, rcv_nxt) ==
    IF TCP_SEQ_BETWEEN(rcv_nxt, Add(s.seq, 1), Add(s.seq, TCP_TCPLEN(s) - 1))
    THEN [s EXCEPT !.seq = rcv_nxt, !.len = @ - Sub(rcv_nxt, s.seq)] ELSE s
TrimLeft(s, rcv_nxt) ==
    LET trim == TCP_SEQ_BETWEEN(rcv_nxt, Add(s.seq, 1), Add(s.seq, TCP_TCPLEN(s) - 1))
        d == IF trim THEN Sub(rcv_nxt, s.seq) ELSE 0
    IN  [s EXCEPT !.seq = Add(@, d), !.off = @ + d, !.len = @ - d]
TrimRight(s, wnd) ==
    IF TCP_TCPLEN(s) > wnd THEN [s EXCEPT !.flags = @ \ {"FIN"}, !.len = wnd] ELSE s

(* The data and the FIN of a segment: trim what was received before, take   *)
(* the next bytes in sequence as far as the window reaches.                 *)
ReceiveData(w, s) ==
    LET p == w.p
        t == TrimLeft(s, p.rcv_nxt)
        p1 == IF TCP_SEQ_LT(t.seq, p.rcv_nxt) THEN tcp_ack_now(p) ELSE p
        u == TrimRight(t, p.rcv_wnd)
        n == TCP_TCPLEN(u)
        p2 == [p1 EXCEPT !.rcv_nxt = Add(@, n), !.rcv_wnd = @ - n]
    IN  IF t.seq = p.rcv_nxt /\ p.rcv_wnd > 0
        THEN [w EXCEPT !.p = tcp_ack(tcp_update_rcv_ann_wnd(p2)),
                       !.recv = IF u.len > 0 THEN <<[off |-> u.off, len |-> u.len]>> ELSE <<>>,
                       !.got_fin = Has(u, "FIN")]
        ELSE tcp_send_empty_ack([w EXCEPT !.p = p1])

ReceiveRest(w, s) ==
    IF TCP_TCPLEN(s) > 0 THEN ReceiveData(w, s)
    ELSE IF TCP_SEQ_BETWEEN(s.seq, w.p.rcv_nxt, Add(w.p.rcv_nxt, w.p.rcv_wnd - 1)) THEN w
    ELSE [w EXCEPT !.p = tcp_ack_now(@)]

tcp_receive(w, s) ==
    ReceiveRest(IF Has(s, "ACK") THEN [w EXCEPT !.p = ReceiveAck(@, s)] ELSE w, s)

(* The state machine, one operator per state; from opened on they continue    *)
(* after tcp_receive.                                                       *)
AcksAll(w, s) == Has(s, "ACK") /\ s.ack = w.p.snd_nxt
Enter(w, state) == [w EXCEPT !.p.state = state]
AckFin(w, state) == [w EXCEPT !.p = [tcp_ack_now(@) EXCEPT !.state = state]]
TimeWait(w) == [w EXCEPT !.p = [tcp_pcb_purge(@) EXCEPT !.state = "TIME_WAIT"]]
FirstCwnd(cwnd) == Cwnd(IF cwnd = 1 THEN 2 * TCP_MSS ELSE TCP_MSS)

reset_segment(w, s) ==
    LET p == w.p
    IN  IF \/ p.state = "SYN_SENT" /\ s.ack = p.snd_nxt
           \/ p.state # "SYN_SENT" /\ TCP_SEQ_BETWEEN(s.seq, p.rcv_nxt, Add(p.rcv_nxt, p.rcv_wnd))
        THEN [w EXCEPT !.result = "RESET"] ELSE w

syn_sent(w, s) ==
    LET p == w.p
        p1 == [p EXCEPT !.snd_buf = @ + 1, !.irs = s.seq, !.rcv_nxt = Add(s.seq, 1),
                        !.rcv_ann_right_edge = Add(s.seq, 1), !.lastack = s.ack,
                        !.snd_wnd = s.wnd, !.snd_wl1 = Sub(s.seq, 1), !.state = "ESTABLISHED",
                        !.ssthresh = Cwnd(10 * TCP_MSS), !.cwnd = FirstCwnd(@),
                        !.snd_queuelen = @ - 1, !.unacked = Tail(@),
                        !.rtime = Len(p.unacked) > 1,
                        !.nrtx = IF Len(p.unacked) > 1 THEN 0 ELSE @]
    IN  IF Has(s, "ACK") /\ Has(s, "SYN") /\ s.ack = Add(p.unacked[1].seq, 1)
        THEN [w EXCEPT !.p = tcp_ack_now(p1)]
        ELSE IF Has(s, "ACK") THEN tcp_rst(w, s.ack, Add(s.seq, TCP_TCPLEN(s)))
        ELSE w

opened(w, cwnd) ==
    LET w1 == [w EXCEPT !.p.acked = LWIP_MAX(@ - 1, 0), !.p.cwnd = FirstCwnd(cwnd)]
    IN  IF w.got_fin THEN AckFin(w1, "CLOSE_WAIT") ELSE w1

syn_rcvd(w, s) ==
    LET p == w.p
    IN  IF Has(s, "ACK")
        THEN IF TCP_SEQ_BETWEEN(s.ack, Add(p.lastack, 1), p.snd_nxt)
             THEN opened(tcp_receive([Enter(w, "ESTABLISHED") EXCEPT !.accept = TRUE], s), p.cwnd)
             ELSE tcp_rst(w, s.ack, Add(s.seq, TCP_TCPLEN(s)))
        ELSE IF Has(s, "SYN") /\ s.seq = Sub(p.rcv_nxt, 1) THEN [w EXCEPT !.p = tcp_rexmit(@)]
        ELSE w

established(w, s) == IF w.got_fin THEN AckFin(w, "CLOSE_WAIT") ELSE w

fin_wait_1(w, s) ==
    CASE w.got_fin /\ AcksAll(w, s)  -> TimeWait(AckFin(w, "TIME_WAIT"))
      [] w.got_fin /\ ~AcksAll(w, s) -> AckFin(w, "CLOSING")
      [] ~w.got_fin /\ AcksAll(w, s) -> Enter(w, "FIN_WAIT_2")
      [] OTHER -> w

fin_wait_2(w, s) == IF w.got_fin THEN TimeWait(AckFin(w, "TIME_WAIT")) ELSE w

closing(w, s) == IF AcksAll(w, s) THEN TimeWait(w) ELSE w

last_ack(w, s) == IF AcksAll(w, s) THEN [w EXCEPT !.result = "CLOSED"] ELSE w

received(w, s) ==
    CASE w.p.state = "FIN_WAIT_1" -> fin_wait_1(w, s)
      [] w.p.state = "FIN_WAIT_2" -> fin_wait_2(w, s)
      [] w.p.state = "CLOSING"    -> closing(w, s)
      [] w.p.state = "LAST_ACK"   -> last_ack(w, s)
      [] OTHER                    -> established(w, s)

tcp_process(w, s) ==
    IF Has(s, "RST") THEN reset_segment(w, s)
    ELSE IF w.p.state = "SYN_SENT" THEN syn_sent(w, s)
    ELSE IF w.p.state = "SYN_RCVD" THEN syn_rcvd(w, s)
    ELSE IF Has(s, "SYN") THEN [w EXCEPT !.p = tcp_ack_now(@)]
    ELSE received(tcp_receive(w, s), s)
-----------------------------------------------------------------------------
(* Calls of the application (tcp.c).                                        *)

(* tcp_close_shutdown without its final tcp_output.                         *)
tcp_close_shutdown(w, rst_on_unacked_data) ==
    LET p == w.p
        next == [SYN_RCVD |-> "FIN_WAIT_1", ESTABLISHED |-> "FIN_WAIT_1", CLOSE_WAIT |-> "LAST_ACK"]
    IN  CASE rst_on_unacked_data /\ (p.refused_data # <<>> \/ p.rcv_wnd # TCP_WND) ->
                TimeWait(tcp_rst(w, p.snd_nxt, p.rcv_nxt))
          [] OTHER ->
                CASE p.state = "SYN_SENT" -> [w EXCEPT !.p = NoPcb]
                  [] p.state \in DOMAIN next ->
                        [w EXCEPT !.p = [tcp_send_fin(@) EXCEPT
                                           !.state = IF CanFin(p) THEN next[@] ELSE @]]
                  [] OTHER -> w

tcp_close(w) == tcp_close_shutdown([w EXCEPT !.p.flags = @ \cup {"RXCLOSED"}], TRUE)
tcp_shutdown(w) == tcp_close_shutdown(w, FALSE)

\* The application keeps its PCB only when the FIN could not be queued.
ClosedBy(p, w) == ~(p.state \in {"SYN_RCVD", "ESTABLISHED", "CLOSE_WAIT"} /\ w.p.state = p.state)

(* In TIME_WAIT a tcp_close that finds unread data puts the PCB on the       *)
(* TIME-WAIT list a second time; such calls are left out.                   *)
Tidy(p) == p.state = "TIME_WAIT" => p.rcv_wnd = TCP_WND

(* tcp_abandon with a reset; a delayed ACK goes out first, unless tcp_input *)
(* is at work on the PCB.                                                   *)
tcp_abort(w, in_input) ==
    LET p == w.p
        w1 == IF Has(p, "ACK_DELAY") /\ ~in_input THEN tcp_send_empty_ack(w) ELSE w
    IN  [(IF p.state = "TIME_WAIT" THEN w ELSE tcp_rst(w1, p.snd_nxt, p.rcv_nxt)) EXCEPT !.p = NoPcb]
-----------------------------------------------------------------------------
(* Steps.  `conn' is the application's view of its PCB: none yet, open,      *)
(* shut (tcp_shutdown of the sending side), gone (closed, aborted, freed).  *)

NoApp == [conn |-> "none", wrote |-> 0, got |-> <<>>, unread |-> 0, eof |-> FALSE, err |-> FALSE]
Owned(a) == a.conn \in {"open", "shut"}
Gone(a) == IF Owned(a) THEN [a EXCEPT !.conn = "gone", !.unread = 0] ELSE a
Failed(a) == IF Owned(a) THEN [Gone(a) EXCEPT !.err = TRUE] ELSE a
recv_event(a, data) ==
    [a EXCEPT !.got = @ \o [i \in 1 .. data.len |-> data.off + i - 1], !.unread = @ + data.len]

Init ==
    /\ pcb = [e \in Ends |-> NoPcb]
    /\ net = [e \in Ends |-> <<>>]
    /\ listening = TRUE
    /\ iss = ISS
    /\ app = [e \in Ends |-> NoApp]
    /\ plan \in PLANS
    /\ faults = plan.faults

Pay(n) == n <= faults /\ faults' = faults - n
Cost(b) == IF b THEN 1 ELSE 0
Quiet == \A e \in Ends : net[e] = <<>>
Without(q, i) == SubSeq(q, 1, i - 1) \o SubSeq(q, i + 1, Len(q))

\* The step leaves the PCB and the answers of w and the application's record a.
Done(e, w, a, inbox) ==
    LET sent == net[Peer(e)] \o w.out
    IN  /\ pcb' = [pcb EXCEPT ![e] = w.p]
        /\ net' = [net EXCEPT ![e] = inbox, ![Peer(e)] = SubSeq(sent, 1, LWIP_MIN(Len(sent), NETMAX))]
        /\ app' = [app EXCEPT ![e] = a]
Call(e, w, a) == Done(e, w, a, net[e]) /\ UNCHANGED <<listening, iss, plan, faults>>

(* The end of tcp_input: data and the end of the stream go to the            *)
(* application, then tcp_output.                                            *)
callbacks(e, w, a, ok, inbox) ==
    LET take == w.recv # <<>> /\ ok
        w1 == IF ok THEN w ELSE [w EXCEPT !.p.refused_data = w.recv]
        a1 == IF take THEN recv_event(a, w.recv[1]) ELSE a
        w2 == IF w.got_fin THEN [w1 EXCEPT !.p.rcv_wnd = IF @ # TCP_WND THEN @ + 1 ELSE @] ELSE w1
        a2 == [a1 EXCEPT !.eof = @ \/ w.got_fin]
        w3 == tcp_close(w2)
    IN  \/ Done(e, tcp_output(w2), a2, inbox)
        \/ /\ w.got_fin /\ Owned(a2) /\ Tidy(w2.p)
           /\ Done(e, tcp_output(w3), IF ClosedBy(w2.p, w3) THEN Gone(a2) ELSE a2, inbox)

\* What tcp_input does with the outcome of tcp_process.
processed(e, w, a, inbox, late) ==
    CASE w.result = "RESET" -> Pay(late) /\ Done(e, [w EXCEPT !.p = NoPcb], Failed(a), inbox)
      [] w.result = "CLOSED" -> Pay(late) /\ Done(e, [w EXCEPT !.p = NoPcb], Gone(a), inbox)
      [] w.result = "OK" /\ w.recv # <<>> /\ Has(w.p, "RXCLOSED") ->
            Pay(late) /\ Done(e, tcp_abort(w, TRUE), Failed(a), inbox)
      [] OTHER -> \E ok \in IF w.recv # <<>> THEN BOOLEAN ELSE {TRUE} :
                     Pay(late + Cost(~ok)) /\ callbacks(e, w, a, ok, inbox)

(* tcp_input for a connection.  The application takes the data it refused    *)
(* before (again) and new data (ok) or refuses, and may close its           *)
(* connection when it is told of the end.                                   *)
tcp_input(e, i, again) ==
    LET s == net[e][i]
        p0 == pcb[e]
        offered == p0.refused_data # <<>>
        full == offered /\ ~again /\ TCP_TCPLEN(s) > 0
        p1 == IF offered /\ again THEN [p0 EXCEPT !.refused_data = <<>>] ELSE p0
        a1 == IF offered /\ again THEN recv_event(app[e], p0.refused_data[1]) ELSE app[e]
        inbox == Without(net[e], i)
        late == Cost(i > 1) + Cost(~again)
    IN  /\ p0.state \in Active
        /\ ~again => offered
        /\ IF full THEN Pay(late) /\ Done(e, Work(p0), app[e], inbox) /\ UNCHANGED listening
           ELSE \E w \in {tcp_process(Work(p1), s)} :
                    /\ processed(e, w, IF w.accept THEN [a1 EXCEPT !.conn = "open"] ELSE a1, inbox, late)
                    /\ listening' = (listening /\ ~w.accept)
        /\ UNCHANGED <<iss, plan>>

(* A segment that starts a connection, or for a connection that is over.    *)
tcp_listen_input(e, s) ==
    LET i == iss[e]
        p == [tcp_alloc(i) EXCEPT !.state = "SYN_RCVD", !.irs = s.seq, !.rcv_nxt = Add(s.seq, 1),
                 !.rcv_ann_right_edge = Add(s.seq, 1), !.snd_wnd = s.wnd, !.ssthresh = s.wnd,
                 !.snd_wl1 = Sub(s.seq, 1)]
    IN  IF Has(s, "ACK") THEN tcp_rst(Work(NoPcb), Add(s.ack, 1), Add(s.seq, TCP_TCPLEN(s)))
        ELSE IF Has(s, "SYN") THEN tcp_output(Work(tcp_enqueue_flags(p, {"SYN", "ACK"})))
        ELSE Work(NoPcb)

tcp_timewait_input(p, s) ==
    IF Has(s, "RST") THEN Work(p)
    ELSE IF Has(s, "SYN") /\ TCP_SEQ_BETWEEN(s.seq, p.rcv_nxt, Add(p.rcv_nxt, p.rcv_wnd))
         THEN tcp_rst(Work(p), s.ack, Add(s.seq, TCP_TCPLEN(s)))
    ELSE IF TCP_TCPLEN(s) > 0 THEN tcp_output(Work(tcp_ack_now(p)))
    ELSE Work(p)

no_pcb_input(s) ==
    IF Has(s, "RST") THEN Work(NoPcb)
    ELSE tcp_rst(Work(NoPcb), s.ack, Add(s.seq, TCP_TCPLEN(s)))

tcp_input_other(e, i) ==
    LET s == net[e][i]
        p == pcb[e]
        w == IF p.state = "TIME_WAIT" THEN tcp_timewait_input(p, s)
             ELSE IF e = "server" /\ listening THEN tcp_listen_input(e, s)
             ELSE no_pcb_input(s)
    IN  /\ p.state \in {"CLOSED", "TIME_WAIT"}
        /\ Pay(Cost(i > 1))
        /\ Done(e, w, app[e], Without(net[e], i))
        /\ iss' = IF w.p.state = "SYN_RCVD" THEN [iss EXCEPT ![e] = Add(@, ISS_STEP)] ELSE iss
        /\ UNCHANGED <<listening, plan>>

(* The timers run when the network is quiet; a tick while segments are under *)
(* way is a fault.  A slow tick may bring a retransmission or a probe (fire) *)
(* and the timeout of FIN_WAIT_2, SYN_RCVD or LAST_ACK (elapsed).           *)
retransmit(w) ==
    LET half == LWIP_MAX(LWIP_MIN(w.p.cwnd, w.p.snd_wnd) \div 2, 2 * TCP_MSS)
    IN  tcp_rexmit_rto([w EXCEPT !.p.ssthresh = Cwnd(half), !.p.cwnd = TCP_MSS])

Timeouts_opening == {"SYN_RCVD", "LAST_ACK"}
Timeouts == {"FIN_WAIT_2", "SYN_RCVD", "LAST_ACK"}

tcp_slowtmr(e, fire, elapsed) ==
    LET p == pcb[e]
        tired == p.nrtx = TCP_MAXRTX
        w == CASE fire /\ p.persist -> tcp_zero_window_probe(Work(p))
               [] fire /\ ~p.persist -> retransmit(Work(p))
               [] OTHER -> Work(p)
        remove == tired \/ elapsed
    IN  /\ p.state \in Active
        /\ fire => ~tired /\ (p.persist \/ (p.rtime /\ p.unacked # <<>>))
        /\ elapsed => w.p.state \in Timeouts
        /\ Pay(Cost(~Quiet))
        /\ IF remove THEN Done(e, [w EXCEPT !.p = NoPcb], Failed(app[e]), net[e])
                     ELSE Done(e, tcp_output(w), app[e], net[e])
        /\ UNCHANGED <<listening, iss, plan>>

timewait_over(e) ==
    /\ pcb[e].state = "TIME_WAIT"
    /\ Pay(Cost(~Quiet))
    /\ Done(e, Work(NoPcb), Gone(app[e]), net[e])
    /\ UNCHANGED <<listening, iss, plan>>

tcp_fasttmr(e, again) ==
    LET p == pcb[e]
        offered == p.refused_data # <<>>
        take == offered /\ again
        p1 == IF take THEN [p EXCEPT !.refused_data = <<>>] ELSE p
        w == IF Has(p, "ACK_DELAY") THEN tcp_output(Work(tcp_ack_now(p1))) ELSE Work(p1)
        w1 == IF Has(p, "ACK_DELAY") THEN [w EXCEPT !.p.flags = @ \ {"ACK_DELAY", "ACK_NOW"}] ELSE w
    IN  /\ p.state \in Active
        /\ offered \/ Has(p, "ACK_DELAY")
        /\ ~again => offered
        /\ Pay(Cost(~again) + Cost(~Quiet))
        /\ Done(e, w1, IF take THEN recv_event(app[e], p.refused_data[1]) ELSE app[e], net[e])
        /\ UNCHANGED <<listening, iss, plan>>

(* The applications.                                                        *)
tcp_connect ==
    LET i == ISS["client"]
        p == [tcp_alloc(i) EXCEPT !.state = "SYN_SENT", !.isn = Sub(i, 1), !.lastack = Sub(i, 1),
                 !.snd_lbb = Sub(i, 1), !.snd_wnd = TCP_WND, !.ssthresh = Cwnd(10 * TCP_MSS)]
    IN  /\ app["client"].conn = "none"
        /\ Call("client", tcp_output(Work(tcp_enqueue_flags(p, {"SYN"}))), [NoApp EXCEPT !.conn = "open"])

Write(e, n, push) ==
    LET p == pcb[e]
        p1 == tcp_write(p, app[e].wrote, n)
        ok == p1.snd_lbb # p.snd_lbb
    IN  /\ app[e].conn = "open"
        /\ app[e].wrote + n <= plan.writes[e]
        /\ p.state \in {"ESTABLISHED", "CLOSE_WAIT"} \cup (IF e \in plan.early THEN {"SYN_SENT"} ELSE {})
        /\ push \/ e \in plan.early
        /\ Call(e, IF push THEN tcp_output(Work(p1)) ELSE Work(p1),
                IF ok THEN [app[e] EXCEPT !.wrote = @ + n] ELSE app[e])

tcp_recved(e) ==
    LET p == pcb[e]
        p1 == [p EXCEPT !.rcv_wnd = LWIP_MIN(@ + app[e].unread, TCP_WND)]
        p2 == tcp_update_rcv_ann_wnd(p1)
    IN  /\ Owned(app[e])
        /\ app[e].unread > 0
        /\ Call(e, IF Inflation(p1) >= TCP_WND \div 4 THEN tcp_output(Work(tcp_ack_now(p2))) ELSE Work(p2),
                [app[e] EXCEPT !.unread = 0])

MayClose(e) == e \in plan.passive => app[e].eof

Close(e) ==
    LET p == pcb[e]
        w == tcp_close(Work(p))
        moved == w.p.state # p.state /\ w.p.state \in Active
    IN  /\ Owned(app[e])
        /\ MayClose(e) /\ Tidy(p)
        /\ Call(e, IF moved THEN tcp_output(w) ELSE w, IF ClosedBy(p, w) THEN Gone(app[e]) ELSE app[e])

Shutdown(e) ==
    LET p == pcb[e]
        w == tcp_shutdown(Work(p))
    IN  /\ e \in plan.half
        /\ app[e].conn = "open"
        /\ p.state \in {"SYN_RCVD", "ESTABLISHED", "CLOSE_WAIT"}
        /\ w.p.state # p.state
        /\ Call(e, tcp_output(w), [app[e] EXCEPT !.conn = "shut"])

Abort(e) ==
    /\ Owned(app[e])
    /\ Pay(1)
    /\ Done(e, tcp_abort(Work(pcb[e]), FALSE), Failed(app[e]), net[e])
    /\ UNCHANGED <<listening, iss, plan>>

(* The network.                                                             *)
Lose(e) ==
    /\ \E i \in 1 .. Len(net[e]) : net' = [net EXCEPT ![e] = Without(@, i)]
    /\ Pay(1)
    /\ UNCHANGED <<pcb, listening, iss, app, plan>>

Duplicate(e) ==
    /\ Len(net[e]) < NETMAX
    /\ \E i \in 1 .. Len(net[e]) : net' = [net EXCEPT ![e] = Append(@, net[e][i])]
    /\ Pay(1)
    /\ UNCHANGED <<pcb, listening, iss, app, plan>>

Deliver(e) ==
    \E i \in 1 .. Len(net[e]) :
        \/ \E again \in BOOLEAN : tcp_input(e, i, again)
        \/ tcp_input_other(e, i)

Timers(e) ==
    \/ \E fire, elapsed \in BOOLEAN : tcp_slowtmr(e, fire, elapsed)
    \/ timewait_over(e)
    \/ \E again \in BOOLEAN : tcp_fasttmr(e, again)

Application(e) ==
    \/ \E n \in 1 .. plan.writes[e], push \in BOOLEAN : Write(e, n, push)
    \/ tcp_recved(e)
    \/ Close(e)
    \/ Shutdown(e)
    \/ Abort(e)

Next ==
    \/ tcp_connect
    \/ \E e \in Ends : Deliver(e) \/ Timers(e) \/ Application(e) \/ Lose(e) \/ Duplicate(e)

(* Weak fairness of delivery and of the applications' reading and closing,   *)
(* strong fairness of the timers (they tick whether or not the network is    *)
(* quiet), with the condition of each action written out (TLC takes          *)
(* very long to compute ENABLED of these actions).  A step that shortens     *)
(* net[e] is a delivery, or one of finitely many losses; a step of e that    *)
(* takes no segment is a timer's, or one of finitely many calls.            *)
Deliverable(e) == net[e] # <<>>
Delivery(e) == Len(net'[e]) < Len(net[e])
TimerDue(e) ==
    LET p == pcb[e]
    IN  /\ Quiet
        /\ \/ p.state \in Timeouts \cup {"TIME_WAIT"}
           \/ p.nrtx = TCP_MAXRTX \/ p.persist \/ (p.rtime /\ p.unacked # <<>>)
           \/ p.refused_data # <<>> \/ Has(p, "ACK_DELAY")
TimerStep(e) == net'[e] = net[e] /\ pcb'[Peer(e)] = pcb[Peer(e)] /\ faults' = faults
CanRead(e) == Owned(app[e]) /\ app[e].unread > 0
CanClose(e) == Owned(app[e]) /\ MayClose(e) /\ Tidy(pcb[e]) /\ CanFin(pcb[e])

Fairness == \A e \in Ends :
    /\ []<>~Deliverable(e) \/ []<><<Delivery(e)>>_vars
    /\ <>[]~TimerDue(e) \/ []<><<TimerStep(e)>>_vars
    /\ []<>~CanRead(e)
    /\ []<>~CanClose(e)

Spec == Init /\ [][Next]_vars /\ Fairness
-----------------------------------------------------------------------------
(* Every field in its range: no counter of tcp_pcb wraps or grows, the       *)
(* receive window never exceeds TCP_WND nor snd_buf TCP_SND_BUF.            *)
Seqno == 0 .. MOD - 1
TypeOK ==
    /\ \A e \in Ends :
         LET p == pcb[e]
         IN  /\ p.state \in States
             /\ {p.isn, p.irs, p.rcv_nxt, p.rcv_ann_right_edge, p.snd_nxt, p.snd_lbb, p.lastack,
                 p.snd_wl1, p.snd_wl2} \subseteq Seqno
             /\ {p.rcv_wnd, p.rcv_ann_wnd, p.snd_wnd} \subseteq 0 .. TCP_WND
             /\ p.snd_buf \in 0 .. TCP_SND_BUF + 1
             /\ p.snd_queuelen \in 0 .. TCP_SND_QUEUELEN
             /\ p.acked \in 0 .. TCP_SND_BUF + 1
             /\ p.nrtx \in 0 .. TCP_MAXRTX + 1
             /\ p.cwnd \in 1 .. CWND_MAX /\ p.ssthresh \in 0 .. CWND_MAX
             /\ app[e].wrote \in 0 .. plan.writes[e]
             /\ app[e].unread \in 0 .. TCP_WND
    /\ faults \in 0 .. plan.faults

Connected(e) == /\ pcb[e].state \in Synchronized /\ pcb[Peer(e)].state \in Synchronized
                /\ pcb[e].irs = pcb[Peer(e)].isn /\ pcb[e].isn = pcb[Peer(e)].irs
Refused(e) == IF pcb[e].refused_data = <<>> THEN 0 ELSE pcb[e].refused_data[1].len
\* The number of the byte with this sequence number.
Byte(p, seq) == Sub(seq, Add(p.isn, 1))

(* Each application is given exactly the bytes that the other one wrote, in  *)
(* order, none twice: trimming, probes and retransmissions of merged         *)
(* segments never repeat or skip a byte.  It is told of the end of the       *)
(* stream only when it was given all that the other one wrote, or the rest   *)
(* is kept for it (refused_data).                                           *)
StreamIntegrity ==
    \A e \in Ends :
        /\ Len(app[e].got) <= app[Peer(e)].wrote
        /\ \A i \in 1 .. Len(app[e].got) : app[e].got[i] = i - 1
        /\ app[e].eof /\ Owned(app[e]) => Len(app[e].got) + Refused(e) = app[Peer(e)].wrote

(* The two queues hold every byte that is not acknowledged, in one piece and *)
(* with its sequence number, through merging, retransmission and partial     *)
(* acknowledgement; snd_queuelen counts their pbufs.                        *)
QueuesComplete ==
    \A e \in Ends :
        LET p == pcb[e]
            q == Sorted(Segs(p.unacked) \cup Segs(p.unsent))
            end(i) == Add(q[i].seq, TCP_TCPLEN(q[i]))
        IN  p.state \in Synchronized =>
              /\ Pbufs(q, Len(q)) = p.snd_queuelen
              /\ \A i \in 1 .. Len(q) : q[i].len > 0 => Byte(p, q[i].seq) = q[i].off
              /\ \A i \in 1 .. Len(q) - 1 : end(i) = q[i + 1].seq
              /\ IF q = <<>> THEN TCP_SEQ_LEQ(p.snd_lbb, p.lastack)
                 ELSE TCP_SEQ_LEQ(q[1].seq, p.lastack) /\ TCP_SEQ_LEQ(p.snd_lbb, end(Len(q)))

(* The ends of a connection agree: what a sender takes as acknowledged       *)
(* (lastack) its peer has received, and apart from probes no data is sent    *)
(* beyond the window the peer announced last, so that edge never moves left. *)
(* Their fields keep their types throughout.                                 *)
EndsAgree ==
    TypeOK /\ \A e \in Ends : Connected(e) =>
        LET p == pcb[e]
            q == pcb[Peer(e)]
        IN  /\ TCP_SEQ_LEQ(p.lastack, q.rcv_nxt)
            /\ TCP_SEQ_LEQ(p.lastack, p.snd_nxt)
            /\ \A s \in Segs(p.unacked) : TCP_SEQ_LEQ(Add(s.seq, s.len), q.rcv_ann_right_edge)

(* A connection that no application holds any more is freed: whatever was    *)
(* lost, a PCB never waits for ever in a closing state, for a window, or for *)
(* an acknowledgement.                                                      *)
AllFreed == \A e \in Ends : []<>(pcb[e].state = "CLOSED" \/ Owned(app[e]))

=============================================================================
