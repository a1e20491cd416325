-------------------------------- MODULE Dhcp --------------------------------
(***************************************************************************)
(* The DHCP client of lwIP (core/dhcp.c) on the one interface of the       *)
(* program, as compiled here: no ARP check of the offered address, no      *)
(* AutoIP.  Its handlers are the two timers, the reception of a reply and  *)
(* the calls of the application and of the driver; each runs to its end    *)
(* before another starts.  dhcp_inform, which serves addresses configured  *)
(* by hand, is left out.                                                   *)
(*                                                                         *)
(* A server is identified with the one address it leases.  Requests and    *)
(* replies are lost, duplicated and delayed: a reply to a request that was *)
(* sent may arrive at any later time, any number of times.  A reply of an  *)
(* earlier transaction is told apart by its transaction number only.       *)
(*                                                                         *)
(* Abstractions.  request_timeout counts fine ticks; here it is only       *)
(* running (armed) or not, so it may expire at any fine tick.  The numbers *)
(* of transactions are not kept: sent holds the requests that carry the    *)
(* current one, late the replies that those of earlier ones drew.          *)
(***************************************************************************)
EXTENDS Integers, FiniteSets

CONSTANTS
  Server,                   \* the DHCP servers, each named by the address it leases
  Any,                      \* IP_ADDR_ANY
  NotGiven,                 \* an option the reply does not carry
  Options,                  \* what an ACK may say of the lease
  SERVER_ID,                \* whether offers always carry the server identifier
  ERR_MEM,                  \* bound of the allocations that fail
  Calls,                    \* what the application and the driver call
  DHCP_COARSE_TIMER_SECS,
  TIMER_MAX,                \* the largest u16_t
  SECS_MAX,                 \* the largest u32_t, an infinite lease
  TRIES_MAX,                \* the largest u8_t
  SELECT_TRIES,             \* 5: the requests sent for an offer
  REBIND_TRIES,             \* 8: the rebinding requests sent
  REBOOT_TRIES,
  AGE_MAX                   \* bound of the ghost that measures the lease

Secs == 0 .. SECS_MAX
AckOptions == [lease : Secs \cup {NotGiven}, renew : Secs \cup {NotGiven},
               rebind : Secs \cup {NotGiven}, mask : BOOLEAN, router : BOOLEAN]

ASSUME DhcpConstants ==
  /\ Any \notin Server /\ NotGiven \notin Secs
  /\ Options \subseteq AckOptions
  /\ SERVER_ID \in BOOLEAN /\ ERR_MEM \in Nat
  /\ Calls \subseteq {"start", "restart", "stop", "release", "renew", "link_up"}
  /\ DHCP_COARSE_TIMER_SECS \in Nat \ {0} /\ TIMER_MAX \in Nat \ {0}
  /\ SECS_MAX \in Nat \ {0} /\ TRIES_MAX \in Nat \ {0} /\ AGE_MAX \in Nat
  /\ SELECT_TRIES \in 0 .. TRIES_MAX - 1 /\ REBIND_TRIES \in 0 .. TRIES_MAX - 1
  /\ REBOOT_TRIES \in 0 .. TRIES_MAX - 1

VARIABLES
  dhcp,     \* the struct dhcp of the interface
  netif,    \* its address, mask, gateway and the flag NETIF_FLAG_UP
  sent,     \* the requests sent under the current transaction number
  late,     \* replies to requests of earlier transactions
  nomem,    \* the allocations that may still fail
  leased,   \* the servers that hold their address leased to this client
  age       \* coarse ticks since the lease was last bound

client == <<dhcp, netif, sent, late, nomem>>
vars == <<client, leased, age>>

DhcpState == {"OFF", "SELECTING", "REQUESTING", "BOUND", "RENEWING",
              "REBINDING", "REBOOTING", "BACKING_OFF"}

\* The structure after the memset of dhcp_start, which attaches it.
Cleared ==
  [attached |-> TRUE, state |-> "OFF", tries |-> 0, armed |-> FALSE, pcb |-> FALSE,
   t1_timeout |-> 0, t2_timeout |-> 0, server_ip |-> Any, offered_ip |-> Any,
   mask |-> Any, gw |-> Any, mask_given |-> FALSE,
   t0_lease |-> 0, t1_renew |-> 0, t2_rebind |-> 0]

NoAddress == [ip |-> Any, mask |-> Any, gw |-> Any, up |-> FALSE]

Init ==
  /\ dhcp = [Cleared EXCEPT !.attached = FALSE] /\ netif = NoAddress
  /\ sent = {} /\ late = {} /\ nomem = ERR_MEM /\ leased = {} /\ age = 0

(***************************************************************************)
(* A handler is a chain of calls on the structure, the interface and the   *)
(* wire; w is the state the chain has reached.                             *)
(***************************************************************************)
Now == [d |-> dhcp, n |-> netif, sent |-> sent, late |-> late, nomem |-> nomem]

Become(w) ==
  /\ dhcp' = w.d /\ netif' = w.n /\ sent' = w.sent /\ late' = w.late
  /\ w.nomem >= 0 /\ nomem' = w.nomem

\* dhcp_set_state without its test.
dhcp_set_state_always(w, new_state) ==
  [w EXCEPT !.d.state = new_state, !.d.tries = 0, !.d.armed = FALSE]

dhcp_set_state(w, new_state) ==
  IF new_state = w.d.state THEN w
  ELSE [w EXCEPT !.d.state = new_state, !.d.tries = 0, !.d.armed = FALSE]

\* The replies a server may send to request m.
Replies(m) ==
  CASE m.type = "DISCOVER" -> [type : {"OFFER"}, from : Server]
    [] m.type = "RELEASE"  -> {}
    [] OTHER -> [type : {"NAK"}, from : IF m.to = Any THEN Server ELSE {m.to}]
                  \cup [type : {"ACK"}, from : IF m.to = Any THEN Server \cap {m.ip}
                                               ELSE {m.to} \cap {m.ip}]

\* One allocation that fails.
NoMem(w) == [w EXCEPT !.nomem = @ - 1]

\* A request without the number of its own leaves the late replies current.
dhcp_create_msg(w, m, ok) ==
  IF ~ok THEN NoMem(w)
  ELSE IF w.d.tries = 0
         THEN [w EXCEPT !.sent = {m},
                        !.late = @ \cup UNION {Replies(q) : q \in w.sent}]
         ELSE [w EXCEPT !.sent = @ \cup {m}]

\* u8_t tries++, then the time to wait for the answer, in seconds.
next_try(w, backoff) ==
  LET tries == (w.d.tries + 1) % (TRIES_MAX + 1)
  IN  [w EXCEPT !.d.tries = tries, !.d.armed = (backoff[tries] > 0)]

DoublingTo60 == [tries \in 0 .. TRIES_MAX |-> IF tries < 6 THEN 2^tries ELSE 60]
LinearTo20 == [tries \in 0 .. TRIES_MAX |-> IF tries < 10 THEN 2 * tries ELSE 20]
LinearTo10 == [tries \in 0 .. TRIES_MAX |-> IF tries < 10 THEN tries ELSE 10]

dhcp_discover(w, ok) ==
  LET v == dhcp_set_state([w EXCEPT !.d.offered_ip = Any], "SELECTING")
  IN  next_try(dhcp_create_msg(v, [type |-> "DISCOVER", ip |-> Any, to |-> Any], ok),
               DoublingTo60)

dhcp_select(w, ok) ==
  LET v == dhcp_set_state(w, "REQUESTING")
      m == [type |-> "SELECT", ip |-> w.d.offered_ip, to |-> w.d.server_ip]
  IN  next_try(dhcp_create_msg(v, m, ok), DoublingTo60)

dhcp_renew(w, ok) ==
  LET v == dhcp_set_state(w, "RENEWING")
      m == [type |-> "RENEW", ip |-> w.n.ip, to |-> w.d.server_ip]
  IN  next_try(dhcp_create_msg(v, m, ok), LinearTo20)

dhcp_rebind(w, ok) ==
  LET v == dhcp_set_state(w, "REBINDING")
      m == [type |-> "REBIND", ip |-> w.n.ip, to |-> Any]
  IN  next_try(dhcp_create_msg(v, m, ok), LinearTo10)

dhcp_reboot(w, ok) ==
  LET v == dhcp_set_state(w, "REBOOTING")
      m == [type |-> "REBOOT", ip |-> w.d.offered_ip, to |-> Any]
  IN  next_try(dhcp_create_msg(v, m, ok), LinearTo10)

dhcp_release(w, ok) ==
  LET o == dhcp_set_state(w, "OFF")
      v == [o EXCEPT !.d.server_ip = Any, !.d.offered_ip = Any, !.d.mask = Any,
                     !.d.gw = Any, !.d.t0_lease = 0, !.d.t1_renew = 0,
                     !.d.t2_rebind = 0]
      m == [type |-> "RELEASE", ip |-> Any, to |-> v.d.server_ip]
  IN  [next_try(dhcp_create_msg(v, m, ok), LinearTo10) EXCEPT !.n = NoAddress]

dhcp_handle_nak(w, ok) ==
  dhcp_discover(dhcp_set_state([w EXCEPT !.n = NoAddress], "BACKING_OFF"), ok)

dhcp_handle_offer(w, s, server_id, ok) ==
  IF server_id
    THEN dhcp_select([w EXCEPT !.d.server_ip = s, !.d.offered_ip = s], ok)
    ELSE w

dhcp_handle_ack(w, s, o) ==
  LET t0 == IF o.lease = NotGiven THEN w.d.t0_lease ELSE o.lease
  IN  [w EXCEPT !.d.t0_lease = t0,
                !.d.t1_renew = IF o.renew = NotGiven THEN t0 \div 2 ELSE o.renew,
                !.d.t2_rebind = IF o.rebind = NotGiven THEN t0 ELSE o.rebind,
                !.d.offered_ip = s,
                !.d.mask = IF o.mask THEN s ELSE Any, !.d.mask_given = o.mask,
                !.d.gw = IF o.router THEN s ELSE Any]

\* A period in seconds as coarse ticks: rounded, capped, and never zero.
Ticks(secs) ==
  LET t == (secs + DHCP_COARSE_TIMER_SECS \div 2) \div DHCP_COARSE_TIMER_SECS
  IN  IF t > TIMER_MAX THEN TIMER_MAX ELSE IF t = 0 THEN 1 ELSE t

\* An infinite period leaves its timer alone.
TimerFor(secs, timer) == IF secs = SECS_MAX THEN timer ELSE Ticks(secs)

\* The mask and the gateway, given or derived from the address.
dhcp_bind(w) ==
  dhcp_set_state(
    [w EXCEPT
       !.d.t1_timeout = TimerFor(w.d.t1_renew, @),
       !.d.t2_timeout = TimerFor(w.d.t2_rebind, @),
       !.n = [ip |-> w.d.offered_ip,
              mask |-> IF w.d.mask_given THEN w.d.mask ELSE w.d.offered_ip,
              gw |-> IF w.d.gw = Any THEN w.d.offered_ip ELSE w.d.gw,
              up |-> TRUE]],
    "BOUND")

(***************************************************************************)
(* The timers.                                                             *)
(***************************************************************************)
\* Whether the message of the next request could be allocated.
Alloc == IF nomem > 0 THEN BOOLEAN ELSE {TRUE}

dhcp_timeout(w, ok, ok2) ==
  CASE w.d.state \in {"BACKING_OFF", "SELECTING"} -> dhcp_discover(w, ok)
    [] w.d.state = "REQUESTING" ->
         IF w.d.tries <= SELECT_TRIES THEN dhcp_select(w, ok)
         ELSE dhcp_discover(dhcp_release(w, ok), ok2)
    [] w.d.state = "RENEWING" -> dhcp_renew(w, ok)
    [] w.d.state = "REBINDING" ->
         IF w.d.tries <= REBIND_TRIES THEN dhcp_rebind(w, ok)
         ELSE dhcp_discover(dhcp_release(w, ok), ok2)
    [] w.d.state = "REBOOTING" ->
         IF w.d.tries < REBOOT_TRIES THEN dhcp_reboot(w, ok) ELSE dhcp_discover(w, ok)
    [] OTHER -> w

dhcp_fine_tmr ==
  /\ dhcp.armed
  /\ \E ok, ok2 \in Alloc : Become(dhcp_timeout([Now EXCEPT !.d.armed = FALSE], ok, ok2))
  /\ UNCHANGED <<leased, age>>

\* u16_t timer--
Down(timer) == IF timer = 0 THEN TIMER_MAX ELSE timer - 1

InLease == {"REQUESTING", "BOUND", "RENEWING"}

dhcp_t1_timeout(w, ok) == IF w.d.state \in InLease THEN dhcp_renew(w, ok) ELSE w
dhcp_t2_timeout(w, ok) == IF w.d.state \in InLease THEN dhcp_rebind(w, ok) ELSE w

\* The renewal looked at first: the rebind timer then misses a tick.
coarse_t1_first(w, ok) ==
  LET one == [w EXCEPT !.d.t1_timeout = Down(@)]
      two == [one EXCEPT !.d.t2_timeout = Down(@)]
  IN  CASE w.d.t1_timeout = 1 -> dhcp_t1_timeout(one, ok)
        [] w.d.t1_timeout # 1 /\ w.d.t2_timeout = 1 -> dhcp_t2_timeout(two, ok)
        [] OTHER -> two

coarse(w, ok) ==
  LET one == [w EXCEPT !.d.t2_timeout = Down(@)]
      two == [one EXCEPT !.d.t1_timeout = Down(@)]
  IN  CASE w.d.t2_timeout = 1 -> dhcp_t2_timeout(one, ok)
        [] w.d.t2_timeout # 1 /\ w.d.t1_timeout = 1 -> dhcp_t1_timeout(two, ok)
        [] OTHER -> two

dhcp_coarse_tmr ==
  /\ dhcp.attached
  /\ \E ok \in Alloc : Become(coarse(Now, ok))
  /\ age' = IF age < AGE_MAX THEN age + 1 ELSE age
  /\ UNCHANGED leased

(***************************************************************************)
(* The replies.  r is the message type and the server it comes from, o the *)
(* options of an ACK, server_id whether an OFFER names its server.         *)
(***************************************************************************)
Current == UNION {Replies(m) : m \in sent}

XidAny(r) == r \in Current \cup late
XidMatches(r) == r \in Current

dhcp_recv_ack(r, o) ==
  /\ r.type = "ACK"
  /\ \/ /\ dhcp.state = "REQUESTING"
        /\ Become(dhcp_bind(dhcp_handle_ack(Now, r.from, o)))
        /\ age' = 0
     \/ /\ dhcp.state \in {"REBOOTING", "REBINDING", "RENEWING"}
        /\ Become(dhcp_bind(Now))
        /\ age' = 0
     \/ /\ dhcp.state \in {"OFF", "SELECTING", "BOUND"}
        /\ UNCHANGED <<client, age>>

dhcp_recv_nak(r, ok) ==
  /\ r.type = "NAK"
  /\ \/ /\ dhcp.state \in {"REBOOTING", "REQUESTING", "REBINDING", "RENEWING"}
        /\ Become(dhcp_handle_nak(Now, ok))
     \/ /\ dhcp.state \in {"OFF", "SELECTING", "BOUND"}
        /\ UNCHANGED client
  /\ UNCHANGED age

dhcp_recv_offer(r, server_id, ok) ==
  /\ r.type = "OFFER"
  /\ \/ /\ dhcp.state = "SELECTING"
        /\ Become(dhcp_handle_offer([Now EXCEPT !.d.armed = FALSE], r.from, server_id, ok))
     \/ /\ dhcp.state # "SELECTING"
        /\ UNCHANGED client
  /\ UNCHANGED age

\* A server that acknowledges holds the lease from then on; one that refuses
\* does not, and none refuses the request it has just granted.  A late reply
\* changes nothing at its server any more.
Serve(r) ==
  /\ r.type = "NAK" /\ r.from = netif.ip => dhcp.state # "BOUND"
  /\ leased' = IF r \notin Current THEN leased
               ELSE IF r.type = "ACK" THEN leased \cup {r.from}
               ELSE IF r.type = "NAK" THEN leased \ {r.from} ELSE leased

dhcp_recv(r) ==
  /\ dhcp.pcb
  /\ Serve(r)
  /\ \/ XidMatches(r) /\ \E o \in Options : dhcp_recv_ack(r, o)
     \/ XidMatches(r) /\ \E ok \in Alloc : dhcp_recv_nak(r, ok)
     \/ XidMatches(r) /\ \E ok \in Alloc, id \in {TRUE, SERVER_ID} : dhcp_recv_offer(r, id, ok)
     \/ ~XidMatches(r) /\ UNCHANGED <<client, age>>

(***************************************************************************)
(* The calls of the application and of the driver.                         *)
(***************************************************************************)
dhcp_stop(w) == dhcp_set_state([w EXCEPT !.d.pcb = FALSE], "OFF")

Restarted(w, pcb) ==
  [w EXCEPT !.d = [Cleared EXCEPT !.pcb = pcb], !.sent = {},
            !.late = @ \cup UNION {Replies(q) : q \in w.sent}]

\* The structure, the udp_pcb and the first message are allocated in turn.
dhcp_start ==
  /\ IF dhcp.attached THEN "restart" \in Calls ELSE "start" \in Calls
  /\ \/ ~dhcp.attached /\ Become(NoMem(Now))
     \/ Become(NoMem(Restarted(Now, FALSE)))
     \/ Become(dhcp_stop(dhcp_discover(Restarted(Now, TRUE), FALSE)))
     \/ Become(dhcp_discover(Restarted(Now, TRUE), TRUE))
  /\ UNCHANGED <<leased, age>>

StopClient ==
  /\ "stop" \in Calls /\ dhcp.attached /\ Become(dhcp_stop(Now))
  /\ UNCHANGED <<leased, age>>

ReleaseLease ==
  /\ "release" \in Calls /\ dhcp.pcb /\ dhcp.state # "OFF"
  /\ \E ok \in Alloc : Become(dhcp_release(Now, ok))
  /\ UNCHANGED <<leased, age>>

RenewLease ==
  /\ "renew" \in Calls /\ dhcp.state = "BOUND"
  /\ \E ok \in Alloc : Become(dhcp_renew(Now, ok))
  /\ UNCHANGED <<leased, age>>

\* netif_set_link_up of the driver.
dhcp_network_changed ==
  /\ "link_up" \in Calls /\ dhcp.state # "OFF"
  /\ \E ok \in Alloc :
       IF dhcp.state \in {"REBINDING", "RENEWING", "BOUND", "REBOOTING"}
         THEN Become(dhcp_reboot([Now EXCEPT !.n.up = FALSE, !.d.tries = 0], ok))
         ELSE Become(dhcp_discover([Now EXCEPT !.d.tries = 0], ok))
  /\ UNCHANGED <<leased, age>>

Next ==
  \/ dhcp_fine_tmr
  \/ dhcp_coarse_tmr
  \/ \E r \in Current \cup late : dhcp_recv(r)
  \/ dhcp_start
  \/ StopClient
  \/ ReleaseLease
  \/ RenewLease
  \/ dhcp_network_changed

Spec == Init /\ [][Next]_vars

-----------------------------------------------------------------------------
Reply == [type : {"OFFER", "ACK", "NAK"}, from : Server]
Request == [type : {"DISCOVER", "SELECT", "RENEW", "REBIND", "REBOOT", "RELEASE"},
            ip : Server \cup {Any}, to : Server \cup {Any}]

\* The structure and the interface hold values of their C types; the number
\* of tries stays within what dhcp_timeout allows for the state.
TypeOK ==
  /\ dhcp \in [attached : BOOLEAN, state : DhcpState, tries : 0 .. TRIES_MAX,
               armed : BOOLEAN, pcb : BOOLEAN, t1_timeout : 0 .. TIMER_MAX,
               t2_timeout : 0 .. TIMER_MAX, server_ip : Server \cup {Any},
               offered_ip : Server \cup {Any}, mask : Server \cup {Any},
               gw : Server \cup {Any}, mask_given : BOOLEAN,
               t0_lease : Secs, t1_renew : Secs, t2_rebind : Secs]
  /\ netif \in [ip : Server \cup {Any}, mask : Server \cup {Any},
                gw : Server \cup {Any}, up : BOOLEAN]
  /\ sent \subseteq Request /\ late \subseteq Reply
  /\ nomem \in 0 .. ERR_MEM /\ leased \subseteq Server /\ age \in 0 .. AGE_MAX
  /\ dhcp.state = "REQUESTING" => dhcp.tries <= SELECT_TRIES + 1
  /\ dhcp.state = "REBINDING" => dhcp.tries <= REBIND_TRIES + 1

HasLease == netif.up /\ dhcp.state \in {"BOUND", "RENEWING", "REBINDING"}

\* An interface that is up under a lease uses an address that its server
\* holds leased to this client, whatever replies of earlier transactions
\* arrive (dhcp_recv, dhcp_handle_nak).
AddressGranted == HasLease => netif.ip \in leased

\* The mask and the gateway are those given with, or derived from, the
\* address in use: nothing of an earlier lease is left (dhcp_handle_ack,
\* dhcp_bind).
OneLease == HasLease => netif.mask = netif.ip /\ netif.gw = netif.ip

\* A client that has not renewed its lease when the rebind period ends no
\* longer counts on its server: it broadcasts (dhcp_coarse_tmr).
RebindDue ==
  netif.up /\ dhcp.state \in {"BOUND", "RENEWING"} /\ dhcp.t2_rebind # SECS_MAX
    => age < Ticks(dhcp.t2_rebind)

\* While it waits for an answer outside of a renewal, the client has a
\* timeout running that will send the request again or give up.
Retrying ==
  dhcp.pcb /\ dhcp.state \in {"SELECTING", "REQUESTING", "REBINDING", "REBOOTING"}
    => dhcp.armed

\* The states that wait for an answer.
Waiting == {"REQUESTING", "RENEWING", "REBINDING", "REBOOTING"}
=============================================================================
