-------------------------------- MODULE Ip --------------------------------
(***************************************************************************)
(* IP and ICMP (core/ipv4/ip.c, core/ipv4/icmp.c): the choice of an        *)
(* interface, input with its checks, forwarding, output with loopback, and *)
(* the echo and error answers of ICMP.                                     *)
(*                                                                         *)
(* A packet is [src, dest, proto, ttl, fault, sport, dport]: proto is one  *)
(* of "udp", "echo", "er" (echo reply), "dur" (destination unreachable),   *)
(* "te" (time exceeded) and "other"; fault is "none" or the first check    *)
(* the packet fails.  The operators work on the record s = [list, dflt,    *)
(* mib, sent]; sent holds what went to a driver, as [name, p].  alloc is   *)
(* the number of calls of pbuf_alloc that succeed.  Multicast, IP options  *)
(* and reassembly are compiled out.                                        *)
(***************************************************************************)
EXTENDS Netif

CONSTANTS IpForward,   \* IP_FORWARD
          DhcpPort,    \* DHCP_CLIENT_PORT
          MaxTtl       \* TTL of packets of our own, and the wrap of its u8 (255)

Ipstat(s, id)   == [s EXCEPT !.mib = snmp_inc(@, "ip", id)]
Icmpstat(s, id) == [s EXCEPT !.mib = snmp_inc(@, "icmp", id)]

(* The place of the first interface that is up and on the network of dest, *)
(* else that of the default interface if it is up, else 0.                 *)
Attached(s, dest) ==
    {i \in DOMAIN s.list :
        /\ s.list[i].up
        /\ network(dest, s.list[i].netmask) = network(s.list[i].ip_addr, s.list[i].netmask)}
ip_route(s, dest) ==
    IF Attached(s, dest) # {} THEN FirstOf(Attached(s, dest))
    ELSE FirstOf({i \in DOMAIN s.list : s.list[i].name = s.dflt /\ s.list[i].up})

Transmit(s, k, p) == [s EXCEPT !.sent = Append(@, [name |-> s.list[k].name, p |-> p])]
ip_output_if(s, k, p, alloc) ==
    IF p.dest = s.list[k].ip_addr THEN netif_loop_output(Ipstat(s, 10), k, p, alloc)
    ELSE Transmit(Ipstat(s, 10), k, p)
OutputFrom(s, k, p, alloc) ==
    IF k = 0 THEN Ipstat(s, 12)
    ELSE ip_output_if(s, k, IF isany(p.src) THEN [p EXCEPT !.src = s.list[k].ip_addr] ELSE p, alloc)
ip_output(s, p, alloc) == OutputFrom(s, ip_route(s, p.dest), p, alloc)

-----------------------------------------------------------------------------
(* ICMP.  Every answer counts as a time exceeded message, object 17.       *)
icmp_send_response(s, p, proto, alloc) ==
    IF alloc = 0 THEN s
    ELSE ip_output(Icmpstat(Icmpstat(s, 14), 17),
                   [p EXCEPT !.src = ANY, !.dest = p.src, !.proto = proto, !.ttl = MaxTtl], alloc - 1)
icmp_dest_unreach(s, p, alloc)  == icmp_send_response(s, p, "dur", alloc)
icmp_time_exceeded(s, p, alloc) == icmp_send_response(s, p, "te", alloc)

(* The answer to an echo request leaves on the interface it came in on.    *)
Echo(s, k, p, alloc) ==
    IF p.proto # "echo" \/ ip_addr_isbroadcast(p.dest, s.list[k]) THEN s
    ELSE IF p.fault = "payload" \/ alloc = 0 THEN Icmpstat(s, 2)
    ELSE ip_output_if(Icmpstat(Icmpstat(s, 14), 22), k,
                      [p EXCEPT !.src = p.dest, !.dest = p.src, !.proto = "er", !.ttl = MaxTtl],
                      alloc - 1)
icmp_input(s, k, p, alloc) == Echo(Icmpstat(s, 1), k, p, alloc)

-----------------------------------------------------------------------------
(* Forwarding.  A packet without route counts twice: in ip_route and here. *)
(* The TTL is decremented modulo 2^8.                                      *)
ForwardOn(s, o, k, p, alloc) ==
    IF o = 0 THEN Ipstat(Ipstat(s, 12), 12)
    ELSE IF o = k THEN Ipstat(s, 12)
    ELSE IF p.ttl = 1 THEN
         IF p.proto \in {"echo", "er", "dur", "te"} THEN Ipstat(s, 4)
         ELSE icmp_time_exceeded(Ipstat(s, 4), p, alloc)
    ELSE Transmit(Ipstat(s, 6), o, [p EXCEPT !.ttl = IF @ = 0 THEN MaxTtl ELSE @ - 1])
ip_forward(s, k, p, alloc) == ForwardOn(s, ip_route(s, p.dest), k, p, alloc)

(* Is the packet for us: accepted by the interface it came in on, or by    *)
(* another one that is up and configured.                                  *)
Accepts(ni, dest) ==
    ni.up /\ ~ isany(ni.ip_addr) /\ (dest = ni.ip_addr \/ ip_addr_isbroadcast(dest, ni))
(* DHCP answers are accepted whatever their address.                       *)
LinkLayerAddressed(p) == p.proto = "udp" /\ p.dport = DhcpPort
ForUs(s, dest) == \E i \in DOMAIN s.list : Accepts(s.list[i], dest)

(* The payload of an accepted packet: UDP takes it, or [up |-> FALSE].     *)
Dropped(s) == [up |-> FALSE, s |-> s]
Dispatch(s, k, p, alloc) ==
    CASE p.fault \in {"fragment", "options"} -> Dropped(Ipstat(s, 7))
      [] p.fault \notin {"fragment", "options"} /\ p.proto = "udp" -> [up |-> TRUE, s |-> Ipstat(s, 9)]
      [] p.fault \notin {"fragment", "options"} /\ p.proto = "other" ->
         Dropped(Ipstat(IF ip_addr_isbroadcast(p.dest, s.list[k]) THEN s
                        ELSE icmp_dest_unreach(s, p, alloc), 7))
      [] OTHER -> Dropped(icmp_input(Ipstat(s, 9), k, p, alloc))
NotForUs(s, k, p, alloc) ==
    IF IpForward /\ ~ ip_addr_isbroadcast(p.dest, s.list[k]) THEN ip_forward(s, k, p, alloc)
    ELSE Ipstat(Ipstat(s, 5), 8)
Checked(s, k, p, alloc) ==
    CASE p.fault \in {"version", "chksum"} -> Dropped(Ipstat(s, 4))
      [] p.fault = "length" -> Dropped(Ipstat(s, 8))
      [] OTHER ->
         IF /\ ForUs(s, p.dest) \/ ~ LinkLayerAddressed(p)
            /\ ~ isany(p.src) /\ ip_addr_isbroadcast(p.src, s.list[k])
         THEN Dropped(Ipstat(Ipstat(s, 5), 8))
         ELSE IF ForUs(s, p.dest) \/ LinkLayerAddressed(p) THEN Dispatch(s, k, p, alloc)
         ELSE Dropped(NotForUs(s, k, p, alloc))
ip_input(s, k, p, alloc) == Checked(Ipstat(s, 3), k, p, alloc)

=============================================================================
