-------------------------------- MODULE Udp --------------------------------
(***************************************************************************)
(* UDP (core/udp.c) over Ip: the list of PCBs with its move-to-front, the  *)
(* choice of ports, input and output.  A PCB is [id, local_ip, local_port, *)
(* remote_ip, remote_port, connected, recv]; udp_pcbs is the active list,  *)
(* udp_idle the PCBs allocated and not on it.  The operators extend the    *)
(* record s of Ip with pcbs, idle and got, the datagrams handed to receive *)
(* callbacks as [id, p].                                                   *)
(***************************************************************************)
EXTENDS Ip

CONSTANTS PcbIds,      \* MEMP_UDP_PCB
          PortStart    \* UDP_LOCAL_PORT_RANGE_START; the range is never used up

VARIABLES udp_idle, sent, got

UdpStack == [list |-> netif_list, dflt |-> netif_default, mib |-> mib, sent |-> <<>>,
             pcbs |-> udp_pcbs, idle |-> udp_idle, got |-> {}]

Udpstat(s, id) == [s EXCEPT !.mib = snmp_inc(@, "udp", id)]

Allocated(s) == ToSet(s.pcbs) \cup s.idle
Pcb(s, id)   == CHOOSE pcb \in Allocated(s) : pcb.id = id
Place(s, id) == FirstOf({i \in DOMAIN s.pcbs : s.pcbs[i].id = id})
(* A change of a PCB where it is, and a PCB put on the active list.        *)
Update(s, pcb) ==
    [s EXCEPT !.pcbs = [i \in DOMAIN @ |-> IF @[i].id = pcb.id THEN pcb ELSE @[i]],
              !.idle = IF \E q \in @ : q.id = pcb.id THEN {q \in @ : q.id # pcb.id} \cup {pcb} ELSE @]
Activate(s, id) ==
    IF Place(s, id) # 0 THEN s
    ELSE [s EXCEPT !.pcbs = <<Pcb(s, id)>> \o @, !.idle = {q \in @ : q.id # id}]

udp_new(s, id) ==
    [s EXCEPT !.idle = @ \cup {[id |-> id, local_ip |-> ANY, local_port |-> 0, remote_ip |-> ANY,
                                remote_port |-> 0, connected |-> FALSE, recv |-> FALSE]}]
udp_recv(s, id) == Update(s, [Pcb(s, id) EXCEPT !.recv = TRUE])

(* Binding: refused when another PCB on the list overlaps; the first port  *)
(* of the range that no PCB on the list uses.                              *)
Overlaps(pcb, ipaddr, port) ==
    pcb.local_port = port /\ (isany(pcb.local_ip) \/ isany(ipaddr) \/ pcb.local_ip = ipaddr)
Enlist(s, pcb) == Activate([Update(s, pcb) EXCEPT !.mib = snmp_insert_udpidx_tree(@, pcb)], pcb.id)
Bound(s, id, ipaddr, port) ==
    Enlist(s, [Pcb(s, id) EXCEPT !.local_ip = ipaddr, !.local_port = port])
FreePort(s) ==
    CHOOSE n \in PortStart..(PortStart + Len(s.pcbs)) :
        /\ \A i \in DOMAIN s.pcbs : s.pcbs[i].local_port # n
        /\ \A m \in PortStart..(n - 1) : \E i \in DOMAIN s.pcbs : s.pcbs[i].local_port = m
udp_bind(s, id, ipaddr, port) ==
    IF \E i \in DOMAIN s.pcbs : s.pcbs[i].id # id /\ Overlaps(s.pcbs[i], ipaddr, port)
    THEN s ELSE Bound(s, id, ipaddr, IF port = 0 THEN FreePort(s) ELSE port)
BindFirst(s, id) ==
    IF Pcb(s, id).local_port = 0 THEN udp_bind(s, id, Pcb(s, id).local_ip, 0) ELSE s

Connected(s, id, ipaddr, port) ==
    Activate(Update(s, [Pcb(s, id) EXCEPT !.remote_ip = ipaddr, !.remote_port = port,
                                          !.connected = TRUE]), id)
udp_connect(s, id, ipaddr, port) == Connected(BindFirst(s, id), id, ipaddr, port)
udp_disconnect(s, id) ==
    Update(s, [Pcb(s, id) EXCEPT !.remote_ip = ANY, !.remote_port = 0, !.connected = FALSE])
udp_remove(s, id) ==
    [s EXCEPT !.mib  = snmp_delete_udpidx_tree(@, s.pcbs, Pcb(s, id)),
              !.pcbs = SelectSeq(@, LAMBDA q : q.id # id),
              !.idle = {q \in @ : q.id # id}]

-----------------------------------------------------------------------------
(* Output.                                                                 *)
Datagram(pcb, src, dst_ip, dst_port) ==
    [src |-> src, dest |-> dst_ip, proto |-> "udp", ttl |-> MaxTtl, fault |-> "none",
     sport |-> pcb.local_port, dport |-> dst_port]
SendFrom_old(s, pcb, dst_ip, dst_port, k, alloc) ==
    IF alloc = 0 THEN s
    ELSE Udpstat(ip_output_if(s, k, Datagram(pcb, IF isany(pcb.local_ip) THEN s.list[k].ip_addr
                                                  ELSE pcb.local_ip, dst_ip, dst_port), alloc - 1), 4)
SendFrom(s, pcb, dst_ip, dst_port, k, alloc) ==
    IF alloc = 0 \/ ~ (isany(pcb.local_ip) \/ pcb.local_ip = s.list[k].ip_addr) THEN s
    ELSE Udpstat(ip_output_if(s, k, Datagram(pcb, s.list[k].ip_addr, dst_ip, dst_port), alloc - 1), 4)
SendBound(s, id, dst_ip, dst_port, k, alloc) == SendFrom(s, Pcb(s, id), dst_ip, dst_port, k, alloc)
udp_sendto_if(s, id, dst_ip, dst_port, k, alloc) ==
    SendBound(BindFirst(s, id), id, dst_ip, dst_port, k, alloc)
SendVia(s, id, dst_ip, dst_port, k, alloc) ==
    IF k = 0 THEN Ipstat(s, 12) ELSE udp_sendto_if(s, id, dst_ip, dst_port, k, alloc)
udp_sendto(s, id, dst_ip, dst_port, alloc) ==
    SendVia(s, id, dst_ip, dst_port, ip_route(s, dst_ip), alloc)
udp_send(s, id, alloc) ==
    udp_sendto(s, id, Pcb(s, id).remote_ip, Pcb(s, id).remote_port, alloc)

-----------------------------------------------------------------------------
(* Input.  A datagram goes to the first PCB connected to its source, which *)
(* moves to the front of the list, else to the first unconnected match.    *)
LocalMatch(pcb, p, broadcast) ==
    pcb.local_port = p.dport /\ (broadcast \/ isany(pcb.local_ip) \/ pcb.local_ip = p.dest)
RemoteMatch(pcb, p) ==
    pcb.remote_port = p.sport /\ (isany(pcb.remote_ip) \/ pcb.remote_ip = p.src)
ToFront(pcbs, i) == <<pcbs[i]>> \o RemoveAt(pcbs, i)
Locals(s, p, broadcast) == {i \in DOMAIN s.pcbs : LocalMatch(s.pcbs[i], p, broadcast)}
Deliver(s, full, uncon) ==
    IF full # 0 THEN [id |-> s.pcbs[full].id, pcbs |-> ToFront(s.pcbs, full)]
    ELSE [id |-> IF uncon = 0 THEN 0 ELSE s.pcbs[uncon].id, pcbs |-> s.pcbs]
Match_first(s, p, broadcast) == Deliver(s, 0, FirstOf(Locals(s, p, broadcast)))
Match(s, p, broadcast) ==
    IF p.dport = DhcpPort THEN [id |-> 0, pcbs |-> s.pcbs]
    ELSE Deliver(s, FirstOf({i \in Locals(s, p, broadcast) : RemoteMatch(s.pcbs[i], p)}),
                 FirstOf({i \in Locals(s, p, broadcast) : ~ s.pcbs[i].connected}))

Received(s, id, p) ==
    IF Pcb(s, id).recv THEN [Udpstat(s, 1) EXCEPT !.got = @ \cup {[id |-> id, p |-> p]}]
    ELSE Udpstat(s, 1)
Matched(s, id, k, p, broadcast, alloc) ==
    IF id = 0 /\ p.dest # s.list[k].ip_addr THEN s
    ELSE IF p.fault = "payload" THEN Udpstat(s, 3)
    ELSE IF id # 0 THEN Received(s, id, p)
    ELSE Udpstat(IF broadcast THEN s ELSE icmp_dest_unreach(s, p, alloc), 2)
Lookup(s, m, k, p, broadcast, alloc) == Matched([s EXCEPT !.pcbs = m.pcbs], m.id, k, p, broadcast, alloc)
udp_input(s, k, p, alloc) ==
    IF p.fault = "short" THEN Udpstat(s, 3)
    ELSE Lookup(s, Match(s, p, ip_addr_isbroadcast(p.dest, s.list[k])), k, p,
                ip_addr_isbroadcast(p.dest, s.list[k]), alloc)

UpperLayer(r, k, p, alloc) == IF r.up THEN udp_input(r.s, k, p, alloc) ELSE r.s
Input(s, k, p, alloc) == UpperLayer(ip_input(s, k, p, alloc), k, p, alloc)

(* netif_poll empties the loopback queue, answers put on it included.      *)
RECURSIVE netif_poll(_, _, _)
netif_poll(s, k, alloc) ==
    IF s.list[k].loop = <<>> THEN s
    ELSE netif_poll(Input(netif_poll_take(s, k), k, Head(s.list[k].loop), alloc), k, alloc)

-----------------------------------------------------------------------------
Becomes(s) ==
    /\ netif_list' = s.list /\ netif_default' = s.dflt /\ mib' = s.mib /\ udp_pcbs' = s.pcbs
    /\ udp_idle' = s.idle /\ sent' = s.sent /\ got' = s.got
    /\ UNCHANGED arp_table

=============================================================================
