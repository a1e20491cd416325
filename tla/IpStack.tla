------------------------------ MODULE IpStack ------------------------------
(***************************************************************************)
(* The IP stack and its MIB-2: interfaces come and go, get addresses and   *)
(* lose them, ARP entries become stable and expire, UDP PCBs are bound and *)
(* used, packets come in.  Every call keeps the index tables the SNMP      *)
(* agent walks.                                                            *)
(***************************************************************************)
EXTENDS Udp

CONSTANTS Names,         \* interfaces
          Addrs,         \* [Names -> set of [ip, mask, gw]]
          Neighbours,    \* addresses of neighbours
          BindIps,       \* local addresses applications bind to
          Ports,         \* ports applications ask for
          Packets,       \* [part -> packets that may come in]
          Queries,       \* names below .1.3.6.1 asked for with GETNEXT
          MaxCalls,      \* [part -> bound on the calls of a behaviour]
          MaxSetup,      \* [part -> bound on the calls on PCBs before the packets]
          LeanPool,      \* a pool that runs out
          IfAddrs        \* [Names -> addresses] of the behaviours about PCBs

VARIABLES part,          \* which of the two groups of calls this behaviour makes
          calls          \* calls so far

stackvars == <<netif_list, netif_default, arp_table, udp_pcbs, mib, udp_idle, sent, got, part,
               calls>>

PlaceOf(name) == FirstOf({i \in DOMAIN netif_list : netif_list[i].name = name})

-----------------------------------------------------------------------------
(* Calls on interfaces.                                                    *)
Call == calls < MaxCalls[part] /\ calls' = calls + 1 /\ UNCHANGED part
Done(s) == Call /\ Becomes(s)

Add(name) ==
    /\ PlaceOf(name) = 0
    /\ \E a \in Addrs[name], initok \in IF part = "lean" THEN BOOLEAN ELSE {TRUE} :
         Done(netif_add(UdpStack, name, a, initok))
(* snmp_dec_iflist takes the last row of a table that is empty when the    *)
(* pool had run out in netif_add: it follows a NULL tail and faults.       *)
RemoveNetif(name) ==
    /\ PlaceOf(name) # 0 /\ mib.tree.if.kids # <<>>
    /\ Done(netif_remove(UdpStack, PlaceOf(name)))
SetDefault(name) == PlaceOf(name) # 0 /\ Done(netif_set_default(UdpStack, name))
SetAddress(name) ==
    /\ PlaceOf(name) # 0
    /\ \E a \in Addrs[name] :
         \/ Done(netif_set_addr(UdpStack, PlaceOf(name), a))
         \/ Done(netif_set_ipaddr(UdpStack, PlaceOf(name), a.ip))
         \/ Done(netif_set_netmask(UdpStack, PlaceOf(name), a.mask))
(* update_arp_entry and free_entry of etharp.c.                            *)
ArpStable(name, ip) ==
    /\ PlaceOf(name) # 0 /\ <<name, ip>> \notin arp_table
    /\ arp_table' = arp_table \cup {<<name, ip>>}
    /\ mib' = snmp_insert_arpidx_tree(mib, netif_list, name, ip)
    /\ Call
    /\ UNCHANGED <<netif_list, netif_default, udp_pcbs, udp_idle, sent, got>>
ArpFree(name, ip) ==
    /\ <<name, ip>> \in arp_table
    /\ arp_table' = arp_table \ {<<name, ip>>}
    /\ mib' = snmp_delete_arpidx_tree(mib, netif_list, name, ip)
    /\ Call
    /\ UNCHANGED <<netif_list, netif_default, udp_pcbs, udp_idle, sent, got>>

-----------------------------------------------------------------------------
(* Calls on PCBs, at most MaxSetup of them, then packets.                  *)
Setup(s) == calls < MaxSetup[part] /\ calls' = calls + 1 /\ Becomes(s) /\ UNCHANGED part
Packet(s) ==
    /\ calls < MaxCalls[part] /\ calls' = Max({calls, MaxSetup[part]}) + 1
    /\ Becomes(s) /\ UNCHANGED part

Free(id) == id \notin {pcb.id : pcb \in Allocated(UdpStack)}
Reconfigure(name) ==
    /\ PlaceOf(name) # 0
    /\ \/ \E a \in Addrs[name] : \/ Setup(netif_set_addr(UdpStack, PlaceOf(name), a))
                                 \/ Setup(netif_set_gw(UdpStack, PlaceOf(name), a.gw))
       \/ Setup(netif_set_up(UdpStack, PlaceOf(name)))
       \/ Setup(netif_set_down(UdpStack, PlaceOf(name)))
       \/ Setup(netif_set_link_up(UdpStack, PlaceOf(name)))
       \/ Setup(netif_set_link_down(UdpStack, PlaceOf(name)))


New(id) ==
    /\ Free(id) /\ \A i \in PcbIds : i < id => ~ Free(i)
    /\ Setup(udp_recv(udp_new(UdpStack, id), id))
Bind(id) ==
    ~ Free(id) /\ \E ip \in BindIps, port \in Ports \cup {0} : Setup(udp_bind(UdpStack, id, ip, port))
Connect(id) ==
    /\ ~ Free(id)
    /\ \E p \in Packets[part] : p.proto = "udp" /\ Setup(udp_connect(UdpStack, id, p.src, p.sport))
Disconnect(id) == ~ Free(id) /\ Setup(udp_disconnect(UdpStack, id))
RemovePcb(id)  == ~ Free(id) /\ Setup(udp_remove(UdpStack, id))

Sendto(id) ==
    /\ ~ Free(id)
    /\ \E alloc \in 0..2, ip \in Neighbours \cup (BindIps \ {ANY}), port \in Ports :
         Packet(udp_sendto(UdpStack, id, ip, port, alloc))
Send(id) == ~ Free(id) /\ Pcb(UdpStack, id).connected /\ Packet(udp_send(UdpStack, id, 2))
Arrive(k) ==
    /\ k \in DOMAIN netif_list /\ netif_list[k].up
    /\ \E p \in Packets[part], alloc \in 0..2 : Packet(Input(UdpStack, k, p, alloc))
Poll(k) ==
    /\ k \in DOMAIN netif_list /\ netif_list[k].loop # <<>>
    /\ \E alloc \in 0..2 : Packet(netif_poll(UdpStack, k, alloc))

-----------------------------------------------------------------------------
NetifNext ==
    \E name \in Names :
        \/ Add(name) \/ RemoveNetif(name) \/ SetDefault(name) \/ SetAddress(name)
        \/ \E ip \in Neighbours : ArpStable(name, ip) \/ ArpFree(name, ip)
UdpNext ==
    \/ \E id \in PcbIds : \/ New(id) \/ Bind(id) \/ Connect(id) \/ Disconnect(id)
                          \/ RemovePcb(id) \/ Sendto(id) \/ Send(id)
    \/ \E k \in 1..Cardinality(Names) : Arrive(k) \/ Poll(k)
    \/ part = "ip" /\ Reconfigure(1)

(* The interfaces 1 and 2 added and up, 1 the default.                     *)
Configured ==
    LET s0 == [list |-> <<>>, dflt |-> 0, mib |-> mib_init, pcbs |-> <<>>, idle |-> {}]
        s1 == netif_add(s0, 1, IfAddrs[1], TRUE)
        s2 == netif_add(s1, 2, IfAddrs[2], TRUE)
    IN  netif_set_default(netif_set_up(netif_set_up(s2, 1), 2), 1)
OneBound(s) == LET id == Min(PcbIds) IN udp_bind(udp_recv(udp_new(s, id), id), id, IfAddrs[1].ip, Min(Ports))
StackInit ==
    /\ arp_table = {} /\ udp_idle = {} /\ sent = <<>> /\ got = {} /\ calls = 0
    /\ \/ /\ part \in {"netif", "lean"} /\ netif_list = <<>> /\ netif_default = 0
          /\ udp_pcbs = <<>>
          /\ mib = [mib_init EXCEPT !.pool = IF part = "lean" THEN LeanPool ELSE @]
       \/ /\ part \in {"udp", "ip"}
          /\ \E s \in {IF part = "udp" THEN Configured ELSE OneBound(Configured)} :
                netif_list = s.list /\ netif_default = s.dflt /\ mib = s.mib /\ udp_pcbs = s.pcbs
StackNext == IF part \in {"udp", "ip"} THEN UdpNext ELSE NetifNext
StackSpec == StackInit /\ [][StackNext]_stackvars

-----------------------------------------------------------------------------
(* Properties.                                                             *)

(* No two PCBs on the list can claim the same datagram by address and port *)
(* (udp_bind refuses overlaps), the list holds a PCB once whatever the     *)
(* moves to the front, and a datagram handed to a callback was for its     *)
(* PCB, which is one connected to the source if there is any.              *)
RightPcb ==
    /\ \A i, j \in DOMAIN udp_pcbs :
         i # j => /\ udp_pcbs[i].id # udp_pcbs[j].id
                  /\ ~ Overlaps(udp_pcbs[i], udp_pcbs[j].local_ip, udp_pcbs[j].local_port)
    /\ \A d \in got :
         LET pcb == Pcb(UdpStack, d.id)
             ToSource(q) == /\ q.connected /\ RemoteMatch(q, d.p)
                            /\ LocalMatch(q, d.p, \A i \in 1..AddrLen : d.p.dest[i] = BCAST)
         IN  /\ pcb.local_port = d.p.dport
             /\ pcb.connected => RemoteMatch(pcb, d.p)
             /\ (\E i \in DOMAIN udp_pcbs : ToSource(udp_pcbs[i])) => pcb.connected

(* A frame of our own leaves an interface with that interface's address as *)
(* source, also when the PCB was bound before the address changed; an echo *)
(* reply never has its broadcast address; a forwarded packet never leaves  *)
(* with the TTL it came with.                                              *)
SourceOwned ==
    \A i \in DOMAIN sent :
        LET ni == netif_list[PlaceOf(sent[i].name)]
        IN  IF sent[i].p.proto = "er" THEN ~ ip_addr_isbroadcast(sent[i].p.src, ni)
            ELSE \/ sent[i].p.src = ni.ip_addr
                 \/ \E p \in Packets[part] : p.ttl # sent[i].p.ttl /\ p = [sent[i].p EXCEPT !.ttl = p.ttl]

(* The rows of an index tree, and the nodes and list roots it is made of.  *)
RECURSIVE Rows(_)
Rows(rn) ==
    UNION {LET kid == rn.kids[i]
           IN  IF kid.nptr = NULL THEN {<<kid.objid>>} ELSE {<<kid.objid>> \o r : r \in Rows(kid.nptr)}
           : i \in DOMAIN rn.kids}
RECURSIVE NodesOf(_)
NodesOf(rn) ==
    FoldLeft(LAMBDA acc, kid : acc + 1 + NodesOf(kid.nptr), 0, rn.kids)
RECURSIVE RootsOf(_)
RootsOf(rn) ==
    FoldLeft(LAMBDA acc, kid : acc + (IF kid.nptr = NULL THEN 0 ELSE 1) + RootsOf(kid.nptr), 0, rn.kids)
Trees == {"if", "arp", "ntom", "addr", "rte", "udp"}

(* Every node of the pools is in an index tree or free: what the insert    *)
(* and delete functions of mib2.c take and give back adds up, also when    *)
(* the pools run out.                                                      *)
NodesConserved ==
    LET all == IF part = "lean" THEN LeanPool ELSE mib_init.pool
    IN  /\ mib.pool.nodes + FoldSet(LAMBDA t, n : n + NodesOf(mib.tree[t]), 0, Trees) = all.nodes
        /\ mib.pool.roots + FoldSet(LAMBDA t, n : n + RootsOf(mib.tree[t]), 0, Trees) = all.roots

(* The tables the agent walks mirror the stack while nodes are left: one   *)
(* interface row per interface, an address row for exactly the configured  *)
(* addresses, a default route row exactly while there is a default         *)
(* interface, the same rows in both ARP tables, a row for every bound PCB. *)
IndexMirrors ==
    part # "lean" =>
      /\ Rows(mib.tree.if) = {<<i>> : i \in DOMAIN netif_list}
      /\ {r \in Rows(mib.tree.addr) : ~ isany(r)}
         = {netif_list[i].ip_addr : i \in DOMAIN netif_list} \ {ANY}
      /\ ANY \in Rows(mib.tree.rte) <=> netif_default # 0
      /\ Rows(mib.tree.arp) = Rows(mib.tree.ntom)
      /\ {udpidx(udp_pcbs[i]) : i \in DOMAIN udp_pcbs} \subseteq Rows(mib.tree.udp)

(* The names of the objects below a node, in order; the successor of a     *)
(* name is the first that is greater.                                      *)
RECURSIVE Leaves(_, _)
Leaves(node, oid) ==
    IF node.kind = "SC" THEN <<Append(oid, 0)>>
    ELSE FlattenSeq([i \in DOMAIN node.kids |->
            IF node.kids[i].nptr = NULL THEN <<Append(oid, node.kids[i].objid)>>
            ELSE Leaves(node.kids[i].nptr, Append(oid, node.kids[i].objid))])
Below(a, b) ==
    LET n == FirstOf({i \in 1..Min({Len(a), Len(b)}) : a[i] # b[i]})
    IN  IF n = 0 THEN Len(a) < Len(b) ELSE a[n] < b[n]
Successor(leaves, name) == LET i == FirstOf({k \in DOMAIN leaves : Below(name, leaves[k])})
                           IN  IF i = 0 THEN <<>> ELSE leaves[i]
Walk(leaves) ==
    \A name \in Queries : snmp_expand_tree(internet(mib), name, <<>>).oid = Successor(leaves, name)

(* GETNEXT answers every name with its successor among all the objects of  *)
(* the tree, whatever the tables hold, as long as every table it may enter *)
(* has a row.                                                              *)
GetNextLeast ==
    part = "netif" /\ (mib.maxlength.rte = 1 => mib.tree.rte.kids # <<>>)
    => Walk(Leaves(internet(mib), <<>>))

(* GETNEXT visits every object: a table that can be entered has a row, as  *)
(* snmp_insert_iprteidx_tree says of the route table it enables.           *)
WalkComplete == part = "netif" => Walk(Leaves(internet(mib), <<>>))

=============================================================================
