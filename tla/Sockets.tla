------------------------------ MODULE Sockets ------------------------------
(* The socket calls (api/sockets.c) of application threads over the netconn *)
(* calls (api/api_lib.c) and tcpip_thread (api/tcpip.c).  A call posts an   *)
(* api_msg to the mailbox of tcpip_thread and waits on the netconn's        *)
(* semaphore op_completed; recv and accept wait on the netconn's mailboxes. *)
(* tcpip_thread takes the messages and, between them, runs the callbacks of *)
(* TCP and UDP (Netconn).  A socket is used by one thread at a time.        *)
EXTENDS Netconn

CONSTANTS Role,              \* an application: its threads, the calls it makes and how many
          Shuts, Flags,      \* arguments of lwip_shutdown and lwip_recv
          WriteLens, ReadLens,
          MaxAccepts,        \* connections that reach a listener
          MaxFaults          \* allocations that fail

VARIABLES role, conns, pcbs, sockets, errs,
          mbox,              \* tcpip_thread's mailbox
          thr,               \* where each application thread is
          calls, accepts, faults
vars_Sockets == <<role, conns, pcbs, sockets, errs, mbox, thr, calls, accepts, faults>>

World == [c |-> conns, p |-> pcbs, s |-> sockets, e |-> errs]
Becomes(w) == conns' = w.c /\ pcbs' = w.p /\ sockets' = w.s /\ errs' = w.e

Idle == [at |-> "idle", call |-> "none", fn |-> "none", sock |-> -1, conn |-> NULL,
         arg |-> 0, shut |-> "NONE", wait |-> TRUE, off |-> 0, len |-> 0, buf |-> 0]

Init_Sockets ==
  /\ role \in DOMAIN Role
  /\ conns = [c \in Blocks |-> FreeConn] /\ pcbs = [p \in Pcbs |-> FreePcb]
  /\ sockets = [s \in Socks |-> FreeSock] /\ errs = [t \in Threads |-> "OK"]
  /\ mbox = <<>> /\ thr = [t \in Threads |-> Idle]
  /\ calls = 0 /\ accepts = 0 /\ faults = 0

-----------------------------------------------------------------------------
(* The steps of a thread. *)
AppOnly == UNCHANGED <<role, mbox, calls, accepts, faults>>
Go(t, r) == thr' = [thr EXCEPT ![t] = r]
Do(w, t, r) == Becomes(w) /\ Go(t, r) /\ AppOnly

(* About to post fn for netconn c. *)
Post(r, fn, c, arg) == [r EXCEPT !.at = "post", !.fn = fn, !.conn = c, !.arg = arg]

(* The end of a netconn_recv that failed, or of the loop in lwip_recvfrom:  *)
(* netconn_recved for what was read.                                        *)
Recved_wait(r) ==
  IF r.off > 0 /\ r.wait /\ conns[r.conn].type = "TCP"
    THEN Post([r EXCEPT !.buf = 1], "recv", r.conn, r.off) ELSE Idle
Recved(r) ==
  IF r.off > 0 /\ conns[r.conn].type = "TCP" THEN Post([r EXCEPT !.buf = 1], "recv", r.conn, r.off)
  ELSE Idle

Unused(s) == \A t \in Threads : thr[t].sock # s /\ (thr[t].at = "link" => thr[t].buf # s)
FreeSocks == {s \in Socks : sockets[s].conn = NULL}

(* netconn_alloc, for lwip_socket. *)
Socket(t, type) ==
  /\ thr[t].at = "idle" /\ calls < Role[role].max /\ FreeBlocks(World) # {}
  /\ \E c \in {Min(FreeBlocks(World))} :
       /\ Becomes([World EXCEPT !.c[c] = NewConn(type)])
       /\ Go(t, Post([Idle EXCEPT !.call = "socket"], "newconn", c, 0))
  /\ calls' = calls + 1 /\ UNCHANGED <<role, mbox, accepts, faults>>

(* The do_ function whose message the netconn call posts. *)
Function(call, type) ==
  CASE call = "close" -> "delconn"
    [] call = "shutdown" -> "close"
    [] call = "send" /\ type = "TCP" -> "write"
    [] OTHER -> call

(* A call on a socket that is passed on to one netconn call. *)
Simple(t, s, call, arg, shut, wait) ==
  /\ thr[t].at = "idle" /\ calls < Role[role].max /\ sockets[s].conn # NULL /\ Unused(s)
  /\ call = "send" => ((~wait \/ conns[sockets[s].conn].nonblock) => arg <= TCP_SND_BUF)
  /\ Go(t, Post([Idle EXCEPT !.call = call, !.sock = s, !.shut = shut, !.wait = wait],
                Function(call, conns[sockets[s].conn].type), sockets[s].conn, arg))
  /\ calls' = calls + 1
  /\ UNCHANGED <<role, conns, pcbs, sockets, errs, mbox, accepts, faults>>

lwip_shutdown(t, s) == \E how \in Shuts : Simple(t, s, "shutdown", 0, how, TRUE)

(* lwip_fcntl and lwip_ioctl(FIONBIO) *)
Nonblocking(t, s) ==
  /\ thr[t].at = "idle" /\ calls < Role[role].max /\ sockets[s].conn # NULL /\ Unused(s)
  /\ conns' = [conns EXCEPT ![sockets[s].conn].nonblock = ~@]
  /\ calls' = calls + 1
  /\ UNCHANGED <<role, pcbs, sockets, errs, mbox, thr, accepts, faults>>

Start(t, s, call, len, wait, peek) ==
  /\ thr[t].at = "idle" /\ calls < Role[role].max /\ sockets[s].conn # NULL /\ Unused(s)
  /\ Go(t, [Idle EXCEPT !.at = "top", !.call = call, !.sock = s, !.conn = sockets[s].conn,
                        !.len = len, !.wait = wait, !.shut = IF peek THEN "PEEK" ELSE "NONE"])
  /\ calls' = calls + 1
  /\ UNCHANGED <<role, conns, pcbs, sockets, errs, mbox, accepts, faults>>

-----------------------------------------------------------------------------
(* tcpip_apimsg: the message is posted, then the semaphore is waited for. *)
PostMsg(t) ==
  /\ thr[t].at = "post" /\ Len(mbox) < TCPIP_MBOX_SIZE
  /\ mbox' = Append(mbox, t) /\ Go(t, [thr[t] EXCEPT !.at = "wait"])
  /\ UNCHANGED <<role, conns, pcbs, sockets, errs, calls, accepts, faults>>

(* lwip_socket after do_newconn *)
NewSocket(t, r, w) ==
  IF errs[t] # "OK" THEN Do([w EXCEPT !.c[r.conn] = FreeConn], t, Idle)
  ELSE IF FreeSocks = {} THEN Do(w, t, Post(r, "delconn", r.conn, 0))
  ELSE \E s \in {Min(FreeSocks)} :
         Do([w EXCEPT !.s[s] = NewSock(r.conn, w.c[r.conn].type # "TCP"), !.c[r.conn].socket = s],
            t, Idle)

(* lwip_accept after netconn_peer; the new socket is linked in a later step *)
PeerKnown(t, r, w) ==
  IF errs[t] # "OK" \/ FreeSocks = {} THEN Do(w, t, Post(r, "delconn", r.conn, 0))
  ELSE \E s \in {Min(FreeSocks)} :
         Do([w EXCEPT !.s[s] = NewSock(r.conn, TRUE)], t, [r EXCEPT !.at = "link", !.buf = s])

(* netconn_recv_data after do_recv for the NULL message *)
EndOfFile(t, r, w) ==
  Do(NETCONN_SET_SAFE_ERR(SockEvent(w, r.conn, "RCVMINUS"), r.conn, "CLSD"), t, Recved(r))

Returned(t, r, w) ==
  CASE r.fn = "newconn" -> NewSocket(t, r, w)
    [] r.fn = "getaddr" -> PeerKnown(t, r, NETCONN_SET_SAFE_ERR(w, r.conn, errs[t]))
    [] r.fn = "delconn" -> Do([w EXCEPT !.c[r.conn].alive = FALSE], t,
                              IF r.call = "close" THEN [r EXCEPT !.at = "freesock"] ELSE Idle)
    [] r.fn = "recv" -> IF r.buf = NULL THEN EndOfFile(t, r, w) ELSE Do(w, t, Idle)
    [] OTHER -> Do(NETCONN_SET_SAFE_ERR(w, r.conn, errs[t]), t, Idle)
Answer(t) ==
  /\ thr[t].at = "wait" /\ conns[thr[t].conn].op > 0
  /\ Returned(t, thr[t], [World EXCEPT !.c[thr[t].conn].op = @ - 1])

(* lwip_close after netconn_delete *)
free_socket(t) ==
  /\ thr[t].at = "freesock"
  /\ Do([World EXCEPT !.s[thr[t].sock].conn = NULL, !.s[thr[t].sock].lastdata = 0,
                      !.s[thr[t].sock].lastoffset = 0], t, Idle)

Link(t) ==
  /\ thr[t].at = "link"
  /\ Do([World EXCEPT !.s[thr[t].buf].rcvevent = @ + (-1 - conns[thr[t].conn].socket),
                      !.c[thr[t].conn].socket = thr[t].buf], t, Idle)

-----------------------------------------------------------------------------
(* lwip_accept and lwip_recvfrom, up to the wait for the mailbox *)
Ready(r) == sockets[r.sock].rcvevent > 0 \/ (r.wait /\ ~conns[r.conn].nonblock)
Usable(r) ==
  /\ IF r.call = "accept" THEN conns[r.conn].acceptok ELSE conns[r.conn].recvok
  /\ ~Fatal(conns[r.conn].last_err)
Top(t) ==
  LET r == thr[t] IN
  /\ r.at = "top"
  /\ Do(World, t, IF r.call = "recv" /\ sockets[r.sock].lastdata # 0 THEN [r EXCEPT !.at = "copy"]
                  ELSE IF Ready(r) /\ Usable(r) THEN [r EXCEPT !.at = "fetch"]
                  ELSE IF r.call = "recv" THEN Recved(r) ELSE Idle)

(* netconn_accept: a connection, or the NULL message *)
FetchConn(t) ==
  LET r == thr[t] IN
  /\ r.at = "fetch" /\ r.call = "accept" /\ conns[r.conn].acceptbox # <<>>
  /\ Do([World EXCEPT !.c[r.conn].acceptbox = Tail(@)], t,
        [r EXCEPT !.at = "minus", !.buf = Head(conns[r.conn].acceptbox)])
GotConn(t) ==
  LET r == thr[t] IN
  /\ r.at = "minus" /\ r.call = "accept"
  /\ IF r.buf = NULL
       THEN Do(NETCONN_SET_SAFE_ERR(SockEvent(World, r.conn, "RCVMINUS"), r.conn, "ABRT"), t, Idle)
       ELSE Do(SockEvent(World, r.conn, "RCVMINUS"), t, Post(r, "getaddr", r.buf, 0))

(* netconn_recv_data *)
FetchData(t) ==
  LET r == thr[t] IN
  /\ r.at = "fetch" /\ r.call = "recv" /\ conns[r.conn].recvbox # <<>>
  /\ Do([World EXCEPT !.c[r.conn].recvbox = Tail(@)], t,
        IF Head(conns[r.conn].recvbox) = NULL THEN Post([r EXCEPT !.buf = NULL], "recv", r.conn, 1)
        ELSE [r EXCEPT !.at = "minus", !.buf = Head(conns[r.conn].recvbox)])
GotData(t) ==
  LET r == thr[t] IN
  /\ r.at = "minus" /\ r.call = "recv"
  /\ Do([SockEvent(World, r.conn, "RCVMINUS") EXCEPT !.s[r.sock].lastdata = r.buf], t,
        [r EXCEPT !.at = "copy", !.buf = 0])

(* One buffer copied: all of it, or what the caller has room for.  A peek   *)
(* leaves it where it is.                                                   *)
CopyLen(r) == Min({r.len, SEG - sockets[r.sock].lastoffset})
Kept(r, n) ==
  IF r.shut = "PEEK" THEN World
  ELSE IF conns[r.conn].type = "TCP" /\ sockets[r.sock].lastoffset + n < SEG
    THEN [World EXCEPT !.s[r.sock].lastoffset = @ + n]
    ELSE [World EXCEPT !.s[r.sock].lastoffset = 0, !.s[r.sock].lastdata = 0]
Done(r, n, push) ==
  \/ conns[r.conn].type # "TCP" \/ r.len = n \/ push
  \/ sockets[r.sock].rcvevent <= 0 \/ r.shut = "PEEK"
Copied(t, r, n, push) ==
  Do(Kept(r, n), t,
     IF Done(r, n, push) THEN Recved([r EXCEPT !.off = @ + n, !.len = @ - n])
     ELSE [r EXCEPT !.at = "top", !.off = @ + n, !.len = @ - n])
Copy(t) ==
  /\ thr[t].at = "copy"
  /\ \E push \in BOOLEAN : Copied(t, thr[t], CopyLen(thr[t]), push)

-----------------------------------------------------------------------------
(* tcpip_thread *)
Stack == UNCHANGED <<role, thr, calls>>
Mem(m) == (m < 2 => faults < MaxFaults) /\ faults' = IF m < 2 THEN faults + 1 ELSE faults

Handle(w, t, r, m) ==
  CASE r.fn = "newconn" -> do_newconn(w, t, r.conn, m)
    [] r.fn = "delconn" -> do_delconn(w, t, r.conn, m)
    [] r.fn = "bind"    -> do_bind(w, t, r.conn)
    [] r.fn = "connect" -> do_connect(w, t, r.conn, m)
    [] r.fn = "listen"  -> do_listen(w, t, r.conn, m)
    [] r.fn = "write"   -> do_write(w, t, r.conn, r.arg, ~r.wait, m)
    [] r.fn = "send"    -> do_send(w, t, r.conn)
    [] r.fn = "recv"    -> do_recv(w, t, r.conn, r.arg)
    [] r.fn = "getaddr" -> do_getaddr(w, t, r.conn)
    [] r.fn = "close"   -> do_close(w, t, r.conn, r.shut, m)
Allocating(m) ==
  IF m = 0 THEN {"newconn", "delconn", "connect", "listen", "write", "close"} ELSE {"listen"}
ApiMsg ==
  /\ mbox # <<>> /\ mbox' = Tail(mbox)
  /\ \E m \in 0..2 :
       /\ m < 2 => thr[Head(mbox)].fn \in Allocating(m)
       /\ Mem(m) /\ Becomes(Handle(World, Head(mbox), thr[Head(mbox)], m))
  /\ Stack /\ UNCHANGED accepts

(* A new connection for the listening pcb l *)
Accept(l) ==
  /\ pcbs[l].st = "LISTEN" /\ "accept" \in pcbs[l].cbs
  /\ accepts < MaxAccepts /\ accepts' = accepts + 1 /\ FreePcbs(World) # {}
  /\ \E m \in {0, 2}, p \in {Min(FreePcbs(World))} :
       /\ Mem(m)
       /\ Becomes(accept_function([World EXCEPT !.p[p] = [NewPcb EXCEPT !.st = "ESTABLISHED", !.arg = pcbs[l].arg]],
                                  pcbs[l].arg, p,
                                  IF m = 0 \/ FreeBlocks(World) = {} THEN NULL ELSE Min(FreeBlocks(World))))
  /\ Stack /\ UNCHANGED mbox

Quiet == Stack /\ UNCHANGED <<mbox, accepts, faults>>

Connected(p) ==
  /\ pcbs[p].st = "SYN_SENT"
  /\ Becomes(do_connected([World EXCEPT !.p[p].st = "ESTABLISHED"], pcbs[p].arg))
  /\ Quiet

(* A reset, or a connection given up by tcp_slowtmr *)
Reset(p) ==
  /\ pcbs[p].st \in {"SYN_SENT", "ESTABLISHED", "FIN_WAIT"}
  /\ Becomes(EndPcb(World, p, "RST")) /\ Quiet

Sent(p) ==
  /\ pcbs[p].snd > 0
  /\ \E m \in {0, 2}, n \in 1..pcbs[p].snd :
       /\ m = 0 => conns[pcbs[p].arg].state \in {"WRITE", "CLOSE"}
       /\ Mem(m)
       /\ Becomes(IF "sent" \in pcbs[p].cbs
                    THEN sent_tcp([World EXCEPT !.p[p].snd = @ - n], pcbs[p].arg, m)
                    ELSE [World EXCEPT !.p[p].snd = @ - n])
  /\ Stack /\ UNCHANGED <<mbox, accepts>>

Poll(p) ==
  /\ pcbs[p].st \in {"SYN_SENT", "ESTABLISHED", "FIN_WAIT"} /\ "poll" \in pcbs[p].cbs
  /\ \E m \in {0, 2} :
       /\ m = 0 => conns[pcbs[p].arg].state \in {"WRITE", "CLOSE"}
       /\ Mem(m) /\ Becomes(poll_tcp(World, pcbs[p].arg, m))
  /\ Stack /\ UNCHANGED <<mbox, accepts>>

(* tcp_input and tcp_fasttmr: TCP keeps a segment that recv_tcp refused.    *)
Took(r, p, seg) == IF r.ok THEN [r.w EXCEPT !.p[p].refused = 0] ELSE [r.w EXCEPT !.p[p].refused = seg]
Present(w, p, seg) ==
  IF "recv" \notin w.p[p].cbs THEN [tcp_recved(w, p, SEG) EXCEPT !.p[p].refused = 0]
  ELSE Took(recv_tcp(w, w.p[p].arg, p, seg), p, seg)
Again(w, p) == IF w.p[p].refused = 0 THEN w ELSE Present(w, p, w.p[p].refused)

FastTmr(p) == pcbs[p].refused # 0 /\ Becomes(Again(World, p)) /\ Quiet

Arrive(w, p) ==
  IF w.p[p].refused # 0 THEN w
  ELSE IF "recv" \notin w.p[p].cbs THEN EndPcb(w, p, "ABRT")
  ELSE Present([w EXCEPT !.p[p].rx = @ + 1, !.p[p].unread = @ + SEG], p, w.p[p].rx + 1)
Data(p) ==
  /\ pcbs[p].st \in {"ESTABLISHED", "FIN_WAIT"} /\ ~pcbs[p].fin /\ pcbs[p].rx < MaxRx
  /\ Becomes(Arrive(Again(World, p), p)) /\ Quiet

(* The end of the stream: what recv_tcp returns for it is not looked at.    *)
Ended(w, p) ==
  IF w.p[p].refused # 0 THEN w
  ELSE IF "recv" \notin w.p[p].cbs THEN [w EXCEPT !.p[p].fin = TRUE]
  ELSE recv_tcp([w EXCEPT !.p[p].fin = TRUE], w.p[p].arg, p, NULL).w
Fin(p) ==
  /\ pcbs[p].st \in {"ESTABLISHED", "FIN_WAIT"} /\ ~pcbs[p].fin
  /\ Becomes(Ended(Again(World, p), p)) /\ Quiet

Datagram(p) ==
  /\ pcbs[p].st = "BOUND" /\ pcbs[p].rx < MaxRx
  /\ Becomes(recv_udp([World EXCEPT !.p[p].rx = @ + 1], pcbs[p].arg, pcbs[p].rx + 1)) /\ Quiet

-----------------------------------------------------------------------------
Has(call) == call \in Role[role].calls
Call(t) ==
  \/ Has("socket") /\ Socket(t, Role[role].type)
  \/ \E s \in Socks :
       \/ \E call \in {"bind", "connect", "listen", "close"} : Has(call) /\ Simple(t, s, call, 0, "RDWR", TRUE)
       \/ Has("shutdown") /\ lwip_shutdown(t, s)
       \/ Has("send") /\ \E n \in WriteLens, wait \in BOOLEAN : Simple(t, s, "send", n, "NONE", wait)
       \/ Has("accept") /\ Start(t, s, "accept", 0, TRUE, FALSE)
       \/ Has("recv") /\ \E n \in ReadLens, wait \in BOOLEAN, peek \in Flags : Start(t, s, "recv", n, wait, peek)
       \/ Has("fcntl") /\ Nonblocking(t, s)
Step(t) ==
  \/ PostMsg(t) \/ Answer(t) \/ free_socket(t) \/ Link(t) \/ Top(t)
  \/ FetchConn(t) \/ GotConn(t) \/ FetchData(t) \/ GotData(t) \/ Copy(t)
Network(p) ==
  \/ Accept(p) \/ Connected(p) \/ Reset(p) \/ Sent(p) \/ Data(p) \/ Fin(p) \/ Datagram(p)
Timers_(p) == Poll(p) \/ FastTmr(p)

Next_Sockets ==
  \/ \E t \in Role[role].threads : Call(t)
  \/ \E t \in Threads : Step(t)
  \/ ApiMsg
  \/ \E p \in Pcbs : Network(p) \/ Timers_(p)

(* The threads run, tcpip_thread takes its messages and runs its timers, a  *)
(* peer acknowledges what was sent and answers a connection request; memory *)
(* that ran out comes back (MaxFaults).  Nothing makes a peer send or end.  *)
Progress_Sockets ==
  \/ ApiMsg
  \/ \E t \in Threads : Step(t)
  \/ \E p \in Pcbs : Poll(p) \/ Sent(p) \/ Connected(p)
Runs(t) ==
  \/ thr[t].at \in {"top", "minus", "copy", "link", "freesock"}
  \/ thr[t].at = "post" /\ Len(mbox) < TCPIP_MBOX_SIZE
  \/ thr[t].at = "wait" /\ conns[thr[t].conn].op > 0
  \/ thr[t].at = "fetch" /\ (IF thr[t].call = "accept" THEN conns[thr[t].conn].acceptbox # <<>>
                              ELSE conns[thr[t].conn].recvbox # <<>>)
Serves(p) ==
  \/ pcbs[p].snd > 0 \/ pcbs[p].st = "SYN_SENT"
  \/ /\ "poll" \in pcbs[p].cbs /\ pcbs[p].st \in {"ESTABLISHED", "FIN_WAIT"}
     /\ \/ conns[pcbs[p].arg].state \in {"WRITE", "CLOSE"}
        \/ conns[pcbs[p].arg].chkspace /\ Writable(World, pcbs[p].arg)
(* ENABLED <<Progress_Sockets>>_vars_Sockets *)
Busy == mbox # <<>> \/ (\E t \in Threads : Runs(t)) \/ (\E p \in Pcbs : Serves(p))
Fair_Sockets == []<>~Busy \/ []<><<Progress_Sockets>>_vars_Sockets
Spec_Sockets == Init_Sockets /\ [][Next_Sockets]_vars_Sockets /\ Fair_Sockets

-----------------------------------------------------------------------------
Waits(t, c) == thr[t].at = "wait" /\ thr[t].conn = c
Pieces_(q) == Len(SelectSeq(q, LAMBDA m : m # NULL))

(* Every thread in tcpip_apimsg is owed exactly one signal of its netconn's *)
(* semaphore: it is there already, or the message is still queued, or it is *)
(* the current_msg that do_writemore, do_close_internal, do_connected or    *)
(* err_tcp will answer.  A second signal would release the next call before *)
(* it ran; a missing one blocks the thread for ever.                        *)
CallsAnswered ==
  \A c \in Blocks :
    conns[c].op + Cardinality({i \in DOMAIN mbox : thr[mbox[i]].conn = c})
      + (IF conns[c].msg.t # NULL THEN 1 ELSE 0)
      = Cardinality({t \in Threads : Waits(t, c)})

(* rcvevent, by which select and the non-blocking calls judge a socket, is  *)
(* the number of messages its netconn has for it: those queued and those a  *)
(* thread has fetched and not yet reported.  Before lwip_accept has linked  *)
(* the new socket, conn->socket counts them below -1.                       *)
Fetched(c) ==
  Cardinality({t \in Threads :
    /\ thr[t].sock >= 0 /\ sockets[thr[t].sock].conn = c
    /\ \/ thr[t].at = "minus"
       \/ thr[t].call = "recv" /\ thr[t].fn = "recv" /\ thr[t].buf = NULL})

(* The receive window is short by exactly the bytes the application has not *)
(* read: those TCP keeps, those in recvmbox, the rest of lastdata, and what *)
(* a running lwip_recvfrom has copied and not yet given back.               *)
Left(s) == IF sockets[s].lastdata = 0 THEN 0 ELSE SEG - sockets[s].lastoffset
InCall(t) ==
  (IF thr[t].at = "minus" THEN SEG ELSE 0)
    + (IF thr[t].at = "wait" /\ (conns[thr[t].conn].op > 0) /\ thr[t].fn = "recv" THEN 0 ELSE thr[t].off)
HeldBy(c) ==
  SEG * Pieces_(conns[c].recvbox)
    + MapThenSumSet(Left, {s \in Socks : sockets[s].conn = c})
    + MapThenSumSet(InCall, {t \in Threads : thr[t].call = "recv" /\ thr[t].conn = c})
WindowAccurate ==
  \A p \in Pcbs :
    (pcbs[p].st = "ESTABLISHED" /\ "recv" \in pcbs[p].cbs /\ ~pcbs[p].fin) =>
      pcbs[p].unread = HeldBy(pcbs[p].arg) + (IF pcbs[p].refused = 0 THEN 0 ELSE SEG)

(* What recv_tcp asserts of its argument ("recv for wrong pcb!").           *)
RecvForItsPcb ==
  \A p \in Pcbs :
    (pcbs[p].st \in {"ESTABLISHED", "FIN_WAIT"} /\ "recv" \in pcbs[p].cbs) => conns[pcbs[p].arg].pcb = p

(* Every call that waits for tcpip_thread returns: a write once the peer    *)
(* has made room, a close once there is memory for the FIN, a connect once  *)
(* it is answered, all of them when the connection is reset.                *)
CallsReturn == \A t \in Threads : (thr[t].at = "wait") ~> (thr[t].at # "wait")
=============================================================================
