------------------------------ MODULE Netconn ------------------------------
(* api/api_msg.c: what tcpip_thread does to a netconn, for the messages of  *)
(* the application threads and for the callbacks of TCP and UDP.            *)
(*                                                                          *)
(* The operators take and return a world w: w.c the netconns in their       *)
(* memory blocks, w.p the pcbs, w.s the sockets and w.e[t] the error given  *)
(* back in thread t's api_msg.  A handler runs to its end before another    *)
(* thread sees what it did.  A recvmbox holds segment numbers, with 0 for   *)
(* the NULL message; every segment is SEG bytes long.  mem is the number of *)
(* allocations that succeed in a handler, which needs two at most.          *)
EXTENDS Integers, Sequences, SequencesExt, FiniteSets, FiniteSetsExt

CONSTANTS Threads,           \* application threads, positive integers
          Blocks,            \* memory for netconns, positive integers
          Pcbs,              \* memory for pcbs, positive integers
          NUM_SOCKETS,
          TCPIP_MBOX_SIZE, RECVMBOX_SIZE, ACCEPTMBOX_SIZE,
          TCP_SND_BUF, TCP_SNDLOWAT,
          MaxRx              \* segments a peer sends on a connection

NULL == 0
SEG == 2
Socks == 0..(NUM_SOCKETS - 1)

(* ERR_IS_FATAL *)
Fatal(err) == err \in {"ABRT", "RST", "CLSD", "CONN", "ARG", "IF"}

NoMsg == [t |-> NULL, len |-> 0, dontblock |-> FALSE, shut |-> "NONE"]
Msg(t, len, dontblock, shut) == [t |-> t, len |-> len, dontblock |-> dontblock, shut |-> shut]

(* netconn_alloc: the netconn a block holds once it is set up. *)
NewConn(type) ==
  [alive |-> TRUE, type |-> type, pcb |-> NULL, state |-> "NONE", last_err |-> "OK",
   recvok |-> TRUE, recvbox |-> <<>>, acceptok |-> FALSE, acceptbox |-> <<>>, op |-> 0,
   msg |-> NoMsg, woff |-> 0, socket |-> -1,
   nonblock |-> FALSE, nbconn |-> FALSE, chkspace |-> FALSE]
FreeConn == [NewConn("NONE") EXCEPT !.alive = FALSE, !.recvok = FALSE]

(* A pcb: cbs are the callbacks set, unread the bytes handed to recv and not *)
(* yet given back by tcp_recved, snd the bytes in the send buffer.           *)
NewPcb == [st |-> "CLOSED", arg |-> NULL, cbs |-> {}, rx |-> 0, refused |-> 0,
           fin |-> FALSE, unread |-> 0, snd |-> 0]
FreePcb == [NewPcb EXCEPT !.st = "FREE"]

NewSock(c, sendevent) ==
  [conn |-> c, lastdata |-> 0, lastoffset |-> 0, rcvevent |-> 0,
   sendevent |-> sendevent, errevent |-> FALSE]
FreeSock == NewSock(NULL, FALSE)

FreeBlocks(w) == {c \in Blocks : ~w.c[c].alive}
FreePcbs(w) == {p \in Pcbs : w.p[p].st = "FREE"}

-----------------------------------------------------------------------------
(* sockets.c: event_callback, its effect on the socket.  Events of an       *)
(* accepted netconn without a socket yet are counted down in conn->socket.  *)
SockEvent(w, c, evt) ==
  IF w.c[c].socket < 0
    THEN IF evt = "RCVPLUS" THEN [w EXCEPT !.c[c].socket = @ - 1] ELSE w
  ELSE IF w.s[w.c[c].socket].conn = NULL THEN w
  ELSE CASE evt = "RCVPLUS"   -> [w EXCEPT !.s[w.c[c].socket].rcvevent = @ + 1]
         [] evt = "RCVMINUS"  -> [w EXCEPT !.s[w.c[c].socket].rcvevent = @ - 1]
         [] evt = "SENDPLUS"  -> [w EXCEPT !.s[w.c[c].socket].sendevent = TRUE]
         [] evt = "SENDMINUS" -> [w EXCEPT !.s[w.c[c].socket].sendevent = FALSE]
         [] evt = "ERROR"     -> [w EXCEPT !.s[w.c[c].socket].errevent = TRUE]
RECURSIVE API_EVENTS(_, _, _)
API_EVENTS(w, c, evts) ==
  IF evts = <<>> THEN w ELSE API_EVENTS(SockEvent(w, c, Head(evts)), c, Tail(evts))

NETCONN_SET_SAFE_ERR(w, c, err) ==
  IF Fatal(w.c[c].last_err) THEN w ELSE [w EXCEPT !.c[c].last_err = err]
Signal(w, c) == [w EXCEPT !.c[c].op = @ + 1]
Ack(w, t, c, err) == Signal([w EXCEPT !.e[t] = err], c)

(* tcp_recved: n bytes of window given back, never more than the window. *)
tcp_recved(w, p, n) == [w EXCEPT !.p[p].unread = Max({0, @ - n})]

setup_tcp(w, c) ==
  [w EXCEPT !.p[w.c[c].pcb].arg = c,
            !.p[w.c[c].pcb].cbs = @ \cup {"recv", "sent", "poll", "err"}]

-----------------------------------------------------------------------------
(* The callbacks. *)

(* recv_tcp: whether the message was taken, and the world then. *)
recv_tcp(w, c, p, seg) ==
  IF ~w.c[c].recvok
    THEN [ok |-> TRUE, w |-> IF seg = NULL THEN w ELSE tcp_recved(w, p, SEG)]
  ELSE IF Len(w.c[c].recvbox) = RECVMBOX_SIZE
    THEN [ok |-> FALSE, w |-> NETCONN_SET_SAFE_ERR(w, c, "OK")]
  ELSE [ok |-> TRUE,
        w |-> SockEvent(
                [NETCONN_SET_SAFE_ERR(w, c, "OK") EXCEPT !.c[c].recvbox = Append(@, seg)],
                c, "RCVPLUS")]

(* recv_udp: a datagram that does not fit is dropped. *)
recv_udp(w, c, seg) ==
  IF ~w.c[c].recvok \/ Len(w.c[c].recvbox) = RECVMBOX_SIZE THEN w
  ELSE SockEvent([w EXCEPT !.c[c].recvbox = Append(@, seg)], c, "RCVPLUS")

(* A NULL message for a mailbox, if it is there and has room. *)
Null(q, ok, size) == IF ok /\ Len(q) < size THEN Append(q, NULL) ELSE q

ReleaseWaiter_open(w, c, old, err) ==
  IF old \notin {"WRITE", "CONNECT"} THEN w
  ELSE IF w.c[c].nbconn THEN [w EXCEPT !.c[c].nbconn = FALSE]
  ELSE Ack([w EXCEPT !.c[c].msg = NoMsg], w.c[c].msg.t, c, err)
ReleaseWaiter(w, c, old, err) ==
  IF old \notin {"WRITE", "CLOSE", "CONNECT"} THEN w
  ELSE IF w.c[c].nbconn THEN [w EXCEPT !.c[c].nbconn = FALSE]
  ELSE Ack([w EXCEPT !.c[c].msg = NoMsg], w.c[c].msg.t, c, err)
err_tcp(w, c, err) ==
  ReleaseWaiter(
    [API_EVENTS([w EXCEPT !.c[c].pcb = NULL, !.c[c].last_err = err, !.c[c].state = "NONE"],
                c, <<"ERROR", "RCVPLUS", "SENDPLUS">>)
       EXCEPT !.c[c].recvbox = Null(@, w.c[c].recvok, RECVMBOX_SIZE),
              !.c[c].acceptbox = Null(@, w.c[c].acceptok, ACCEPTMBOX_SIZE)],
    c, w.c[c].state, err)

(* tcp_abort and a connection that ends: the pcb goes, its error callback   *)
(* is called with the argument it had.                                      *)
EndPcb(w, p, err) ==
  IF "err" \in w.p[p].cbs THEN err_tcp([w EXCEPT !.p[p] = FreePcb], w.p[p].arg, err)
  ELSE [w EXCEPT !.p[p] = FreePcb]

(* accept_function on a new pcb.  No memory or a full acceptmbox: the       *)
(* netconn is freed again, and tcp_process aborts the pcb.                  *)
accept_function(w, c, p, new) ==
  IF ~w.c[c].acceptok THEN EndPcb(w, p, "ABRT")
  ELSE IF new = NULL THEN EndPcb(w, p, "ABRT")
  ELSE IF Len(w.c[c].acceptbox) = ACCEPTMBOX_SIZE
    THEN EndPcb([setup_tcp([w EXCEPT !.c[new] = [NewConn("TCP") EXCEPT !.pcb = p]], new)
                   EXCEPT !.c[new] = FreeConn], p, "ABRT")
  ELSE SockEvent(
         [setup_tcp([w EXCEPT !.c[new] = [NewConn("TCP") EXCEPT !.pcb = p]], new)
            EXCEPT !.c[c].acceptbox = Append(@, new)], c, "RCVPLUS")

-----------------------------------------------------------------------------
(* netconn_drain: what is left in the mailboxes is given back. *)
DrainRecv(w, c) ==
  LET n == Len(SelectSeq(w.c[c].recvbox, LAMBDA m : m # NULL)) IN
  [(IF w.c[c].pcb # NULL /\ w.c[c].type = "TCP" THEN tcp_recved(w, w.c[c].pcb, n * SEG) ELSE w)
     EXCEPT !.c[c].recvbox = <<>>, !.c[c].recvok = FALSE]
Dropped(w, new) ==
  [(IF w.c[new].pcb # NULL THEN EndPcb(w, w.c[new].pcb, "ABRT") ELSE w) EXCEPT !.c[new] = FreeConn]
RECURSIVE DrainAccept(_, _)
DrainAccept(w, q) == IF q = <<>> THEN w ELSE DrainAccept(Dropped(DrainRecv(w, Head(q)), Head(q)), Tail(q))
netconn_drain(w, c) ==
  [DrainAccept(DrainRecv(w, c), w.c[c].acceptbox) EXCEPT !.c[c].acceptbox = <<>>, !.c[c].acceptok = FALSE]

(* tcp_close and tcp_shutdown: a FIN needs memory, the reset that tcp_close *)
(* sends when data was not read does not.  A closed pcb is TCP's own from   *)
(* then on (Tcp); here it leaves at once.                                   *)
NeedsFin(pcb, shut) ==
  /\ pcb.st = "ESTABLISHED"
  /\ shut = "WR" \/ (shut = "RDWR" /\ pcb.unread = 0)
Closed(w, p, shut) ==
  CASE shut = "RDWR" -> [w EXCEPT !.p[p] = FreePcb]
    [] shut = "WR"   -> [w EXCEPT !.p[p].cbs = @ \ {"sent"},
                                  !.p[p].st = IF @ = "ESTABLISHED" THEN "FIN_WAIT" ELSE @]
    [] shut = "RD"   -> [w EXCEPT !.p[p].cbs = @ \ {"recv"}, !.p[p].refused = 0]
CloseEvents(shut) ==
  CASE shut = "RDWR" -> <<"ERROR", "RCVPLUS", "SENDPLUS">>
    [] shut = "WR"   -> <<"SENDPLUS">>
    [] shut = "RD"   -> <<"RCVPLUS">>

(* do_close_internal: closed, or (no memory) to be tried again by poll_tcp. *)
CloseDone(w, c, t, shut) ==
  Ack(API_EVENTS([Closed(w, w.c[c].pcb, shut)
                    EXCEPT !.c[c].msg = NoMsg, !.c[c].state = "NONE", !.c[c].pcb = NULL],
                 c, CloseEvents(shut)), t, c, "OK")
CloseRetry(w, c, shut) ==
  [w EXCEPT !.p[w.c[c].pcb].cbs =
     (IF shut = "WR" THEN @ ELSE @ \ {"recv"}) \cup {"sent", "poll", "err"}]
do_close_internal(w, c, mem) ==
  IF mem > 0 \/ ~NeedsFin(w.p[w.c[c].pcb], w.c[c].msg.shut)
    THEN CloseDone(w, c, w.c[c].msg.t, w.c[c].msg.shut)
    ELSE CloseRetry(w, c, w.c[c].msg.shut)

StartClose(w, t, c, shut, mem) ==
  do_close_internal([w EXCEPT !.c[c].state = "CLOSE", !.c[c].msg = Msg(t, 0, FALSE, shut)], c, mem)

DelPcb_again(w, t, c, mem) ==
  IF w.c[c].pcb # NULL /\ w.c[c].type = "TCP" THEN Ack(StartClose(w, t, c, "RDWR", mem), t, c, "OK")
  ELSE Ack(w, t, c, "OK")
DelPcb(w, t, c, mem) ==
  IF w.c[c].pcb # NULL /\ w.c[c].type = "TCP" THEN StartClose(w, t, c, "RDWR", mem)
  ELSE Ack(API_EVENTS(
             IF w.c[c].pcb = NULL THEN w
             ELSE [w EXCEPT !.p[w.c[c].pcb] = FreePcb, !.c[c].pcb = NULL],
             c, <<"RCVPLUS", "SENDPLUS">>), t, c, "OK")
do_delconn(w, t, c, mem) ==
  IF w.c[c].state \notin {"NONE", "LISTEN", "CONNECT"} THEN Ack(w, t, c, "INPROGRESS")
  ELSE DelPcb(netconn_drain(w, c), t, c, mem)

do_close(w, t, c, shut, mem) ==
  IF w.c[c].state \notin {"NONE", "LISTEN"} THEN Ack(w, t, c, "INPROGRESS")
  ELSE IF w.c[c].pcb = NULL \/ w.c[c].type # "TCP" THEN Ack(w, t, c, "VAL")
  ELSE IF shut # "RDWR" /\ w.c[c].state = "LISTEN" THEN Ack(w, t, c, "CONN")
  ELSE StartClose(IF shut = "WR" THEN w ELSE netconn_drain(w, c), t, c, shut, mem)

-----------------------------------------------------------------------------
(* Writing. *)
Space(w, c) == TCP_SND_BUF - w.p[w.c[c].pcb].snd
Writable(w, c) == w.c[c].pcb # NULL /\ Space(w, c) > TCP_SNDLOWAT

WriteEnd(w, c, err) ==
  Ack([w EXCEPT !.c[c].msg = NoMsg, !.c[c].state = "NONE"], w.c[c].msg.t, c, err)
LowEvent(w, c) == IF Writable(w, c) THEN w ELSE SockEvent(w, c, "SENDMINUS")
Written(w, c, len, total) ==
  IF w.c[c].woff + len = total
    THEN WriteEnd(LowEvent([w EXCEPT !.c[c].woff = 0, !.p[w.c[c].pcb].snd = @ + len], c), c, "OK")
    ELSE LowEvent([w EXCEPT !.c[c].woff = @ + len, !.p[w.c[c].pcb].snd = @ + len], c)
WriteMore(w, c, m, len, mem) ==
  IF w.p[w.c[c].pcb].st \notin {"ESTABLISHED", "SYN_SENT"} /\ ~(m.dontblock /\ len < m.len)
    THEN WriteEnd(w, c, "CONN")
  ELSE IF m.dontblock /\ (len < m.len \/ mem = 0)
    THEN WriteEnd(SockEvent([w EXCEPT !.c[c].chkspace = TRUE], c, "SENDMINUS"), c, "WOULDBLOCK")
  ELSE IF mem = 0 THEN LowEvent(w, c)
  ELSE Written(w, c, len, m.len)
do_writemore(w, c, mem) ==
  WriteMore(w, c, [w.c[c].msg EXCEPT !.dontblock = @ \/ w.c[c].nonblock],
            Min({w.c[c].msg.len - w.c[c].woff, Space(w, c)}), mem)
do_write(w, t, c, len, dontblock, mem) ==
  IF Fatal(w.c[c].last_err) THEN Ack(w, t, c, w.c[c].last_err)
  ELSE IF w.c[c].type # "TCP" THEN Ack(w, t, c, "VAL")
  ELSE IF w.c[c].state # "NONE" THEN Ack(w, t, c, "INPROGRESS")
  ELSE IF w.c[c].pcb = NULL THEN Ack(w, t, c, "CONN")
  ELSE do_writemore([w EXCEPT !.c[c].state = "WRITE", !.c[c].woff = 0,
                              !.c[c].msg = Msg(t, len, dontblock, "NONE")], c, mem)

Continue(w, c, mem) ==
  CASE w.c[c].state = "WRITE" -> do_writemore(w, c, mem)
    [] w.c[c].state = "CLOSE" -> do_close_internal(w, c, mem)
    [] OTHER -> w
SendPlus(w, c) == SockEvent([w EXCEPT !.c[c].chkspace = FALSE], c, "SENDPLUS")
Polled(w, c) == IF w.c[c].chkspace /\ Writable(w, c) THEN SendPlus(w, c) ELSE w
poll_tcp(w, c, mem) == Polled(Continue(w, c, mem), c)
Sent_(w, c) == IF Writable(w, c) THEN SendPlus(w, c) ELSE w
sent_tcp(w, c, mem) == Sent_(Continue(w, c, mem), c)

-----------------------------------------------------------------------------
(* The other messages. *)
do_newconn(w, t, c, mem) ==
  IF FreePcbs(w) = {} \/ mem = 0 THEN Ack(w, t, c, "MEM")
  ELSE LET p == Min(FreePcbs(w)) IN
       Ack(IF w.c[c].type = "TCP"
             THEN setup_tcp([w EXCEPT !.p[p] = NewPcb, !.c[c].pcb = p], c)
             ELSE [w EXCEPT !.p[p] = [NewPcb EXCEPT !.arg = c, !.cbs = {"recv"}],
                            !.c[c].pcb = p], t, c, "OK")

(* udp_bind, udp_connect and udp_sendto: datagrams reach a pcb with a port. *)
Bound(w, c) == IF w.c[c].type = "TCP" THEN w ELSE [w EXCEPT !.p[w.c[c].pcb].st = "BOUND"]
do_bind(w, t, c) ==
  IF Fatal(w.c[c].last_err) THEN Ack(w, t, c, w.c[c].last_err)
  ELSE IF w.c[c].pcb = NULL THEN Ack(w, t, c, "VAL")
  ELSE Ack(Bound(w, c), t, c, "OK")

do_connect(w, t, c, mem) ==
  IF w.c[c].pcb = NULL THEN Ack(w, t, c, "CLSD")
  ELSE IF w.c[c].type # "TCP" THEN Ack(Bound(w, c), t, c, "OK")
  ELSE IF w.c[c].state # "NONE" THEN Ack(w, t, c, "ISCONN")
  ELSE IF w.p[w.c[c].pcb].st # "CLOSED" THEN Ack(setup_tcp(w, c), t, c, "ISCONN")
  ELSE IF mem = 0 THEN Ack(setup_tcp(w, c), t, c, "MEM")
  ELSE LET v == [setup_tcp(w, c) EXCEPT !.p[w.c[c].pcb].st = "SYN_SENT", !.c[c].state = "CONNECT",
                                        !.c[c].nbconn = w.c[c].nonblock]
       IN  IF w.c[c].nonblock THEN Ack(v, t, c, "INPROGRESS")
           ELSE [v EXCEPT !.c[c].msg = Msg(t, 0, FALSE, "NONE")]
do_connected(w, c) ==
  LET v == API_EVENTS([setup_tcp(w, c) EXCEPT !.c[c].msg = NoMsg, !.c[c].state = "NONE",
                                              !.c[c].nbconn = FALSE], c, <<"SENDPLUS">>)
  IN  IF w.c[c].nbconn THEN NETCONN_SET_SAFE_ERR(v, c, "OK")
      ELSE Ack(v, w.c[c].msg.t, c, "OK")

do_listen(w, t, c, mem) ==
  IF Fatal(w.c[c].last_err) THEN Ack(w, t, c, w.c[c].last_err)
  ELSE IF w.c[c].pcb = NULL \/ w.c[c].type # "TCP" \/ w.c[c].state # "NONE"
    THEN Ack(w, t, c, "CONN")
  ELSE IF w.p[w.c[c].pcb].st # "CLOSED" \/ mem = 0 THEN Ack(w, t, c, "MEM")
  ELSE IF mem = 1
    THEN Ack([w EXCEPT !.p[w.c[c].pcb] = FreePcb, !.c[c].pcb = NULL,
                       !.c[c].recvok = FALSE, !.c[c].recvbox = <<>>], t, c, "MEM")
  ELSE Ack([w EXCEPT !.p[w.c[c].pcb] = [NewPcb EXCEPT !.st = "LISTEN", !.arg = c, !.cbs = {"accept"}],
                     !.c[c].state = "LISTEN", !.c[c].acceptok = TRUE,
                     !.c[c].recvok = FALSE, !.c[c].recvbox = <<>>], t, c, "OK")

do_send(w, t, c) ==
  IF Fatal(w.c[c].last_err) THEN Ack(w, t, c, w.c[c].last_err)
  ELSE IF w.c[c].pcb = NULL \/ w.c[c].type = "TCP" THEN Ack(w, t, c, "CONN")
  ELSE Ack(Bound(w, c), t, c, "OK")
do_getaddr(w, t, c) == Ack(w, t, c, IF w.c[c].pcb # NULL THEN "OK" ELSE "CONN")
do_recv(w, t, c, len) ==
  Ack(IF w.c[c].pcb # NULL /\ w.c[c].type = "TCP" THEN tcp_recved(w, w.c[c].pcb, len) ELSE w,
      t, c, "OK")
=============================================================================
