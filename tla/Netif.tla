------------------------------- MODULE Netif -------------------------------
(***************************************************************************)
(* Network interfaces (core/netif.c): the list of interfaces, their        *)
(* addresses, the default interface and the loopback queue, with the calls *)
(* that keep the index tables of MIB-2 up to date.  An interface is        *)
(* [name, ip_addr, netmask, gw, up, link_up, in, out, loop]; in and out    *)
(* are its counters (octets, unicast, non-unicast, discards) and loop the  *)
(* packets netif_loop_output queued.  The operators take and return the    *)
(* record s = [list, dflt, mib] of the variables they change.              *)
(***************************************************************************)
EXTENDS Mib2

CONSTANT LoopMax     \* LWIP_LOOPBACK_MAX_PBUFS

BCAST == 255         \* component of an address with all bits set

Stack == [list |-> netif_list, dflt |-> netif_default, mib |-> mib]

NewNetif(name) ==
    [name |-> name, ip_addr |-> ANY, netmask |-> ANY, gw |-> ANY, up |-> FALSE,
     link_up |-> FALSE, in |-> <<0, 0, 0, 0>>, out |-> <<0, 0, 0, 0>>, loop |-> <<>>]

(* The all-ones and the all-zeros address, and the address of the subnet   *)
(* with all host bits set.                                                 *)
ip_addr_isbroadcast(ip, ni) ==
    \/ \A i \in DOMAIN ip : ip[i] = BCAST
    \/ isany(ip)
    \/ /\ ip # ni.ip_addr
       /\ \A i \in DOMAIN ip : IF ni.netmask[i] = 1 THEN ip[i] = ni.ip_addr[i] ELSE ip[i] = BCAST

-----------------------------------------------------------------------------
(* Addresses.  k is the place of the interface in the list.                *)
NewIp(m, ni) == [ni |-> ni, mib |-> snmp_insert_iprteidx_tree(snmp_insert_ipaddridx_tree(m, ni),
                                                              FALSE, ni)]
SetIpaddr(r, ipaddr) ==
    NewIp(snmp_delete_iprteidx_tree(snmp_delete_ipaddridx_tree(r.mib, r.ni), FALSE, r.ni),
          [r.ni EXCEPT !.ip_addr = ipaddr])
NewMask(m, ni) == [ni |-> ni, mib |-> snmp_insert_iprteidx_tree(m, FALSE, ni)]
SetNetmask(r, netmask) ==
    NewMask(snmp_delete_iprteidx_tree(r.mib, FALSE, r.ni), [r.ni EXCEPT !.netmask = netmask])
SetGw(r, gw) == [r EXCEPT !.ni.gw = gw]
SetAddr(r, a) == SetGw(SetNetmask(SetIpaddr(r, a.ip), a.mask), a.gw)

At(s, k) == [ni |-> s.list[k], mib |-> s.mib]
AtPlace(s, k, r) == [s EXCEPT !.list[k] = r.ni, !.mib = r.mib]
netif_set_ipaddr_keep(s, k, ipaddr) ==
    [s EXCEPT !.list[k].ip_addr = ipaddr,
              !.mib = snmp_insert_iprteidx_tree(
                        snmp_insert_ipaddridx_tree(
                          snmp_delete_iprteidx_tree(@, FALSE, s.list[k]),
                          [s.list[k] EXCEPT !.ip_addr = ipaddr]),
                        FALSE, [s.list[k] EXCEPT !.ip_addr = ipaddr])]
netif_set_ipaddr(s, k, ipaddr)   == AtPlace(s, k, SetIpaddr(At(s, k), ipaddr))
netif_set_netmask(s, k, netmask) == AtPlace(s, k, SetNetmask(At(s, k), netmask))
netif_set_gw(s, k, gw)           == AtPlace(s, k, SetGw(At(s, k), gw))
netif_set_addr(s, k, a)          == AtPlace(s, k, SetAddr(At(s, k), a))

(* A new interface starts at 0.0.0.0, gets its addresses before it joins   *)
(* the list, and takes interface index 1; init may fail after the          *)
(* addresses are entered.                                                  *)
Added(s, r, initok) ==
    IF ~ initok THEN [s EXCEPT !.mib = r.mib]
    ELSE [s EXCEPT !.list = <<r.ni>> \o @, !.mib = snmp_inc_iflist(r.mib)]
netif_add(s, name, a, initok) ==
    Added(s, SetAddr([ni |-> NewNetif(name), mib |-> s.mib], a), initok)

netif_set_default(s, name) ==
    [s EXCEPT !.dflt = name,
              !.mib  = IF name = 0 THEN snmp_delete_iprteidx_tree(@, TRUE, NULL)
                       ELSE snmp_insert_iprteidx_tree(@, TRUE, NULL)]

NoDefault(s, name) == IF s.dflt = name THEN netif_set_default(s, 0) ELSE s
netif_remove(s, k) ==
    NoDefault([s EXCEPT !.list = RemoveAt(@, k),
                        !.mib  = snmp_dec_iflist(snmp_delete_ipaddridx_tree(@, s.list[k]))],
              s.list[k].name)

netif_set_up(s, k)        == [s EXCEPT !.list[k].up = TRUE]
netif_set_down(s, k)      == [s EXCEPT !.list[k].up = FALSE]
netif_set_link_up(s, k)   == [s EXCEPT !.list[k].link_up = TRUE]
netif_set_link_down(s, k) == [s EXCEPT !.list[k].link_up = FALSE]

-----------------------------------------------------------------------------
(* The loopback queue: one pbuf per packet; loop_cnt_current is its length.*)
netif_loop_output(s, k, p, alloc) ==
    IF alloc > 0 /\ Len(s.list[k].loop) + 1 <= LoopMax
    THEN [s EXCEPT !.list[k].loop = Append(@, p),
                   !.list[k].out  = [@ EXCEPT ![1] = @ + 1, ![2] = @ + 1]]
    ELSE [s EXCEPT !.list[k].out[4] = @ + 1]

(* One turn of the loop of netif_poll; ip_input follows.                   *)
netif_poll_take(s, k) ==
    [s EXCEPT !.list[k].loop = Tail(@), !.list[k].in = [@ EXCEPT ![1] = @ + 1, ![2] = @ + 1]]

=============================================================================
