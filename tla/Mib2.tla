------------------------------- MODULE Mib2 -------------------------------
(***************************************************************************)
(* MIB-2 of the SNMP agent (core/snmp/mib2.c): the static tree, the index  *)
(* tables kept by the stack, and the access functions of each group.       *)
(*                                                                         *)
(* mib is [tree, maxlength, pool, cnt, sys, trapsok]: the roots of the     *)
(* index trees and the maxlength of their tables by name, what is left of  *)
(* the node pools, the counters by name, the three system strings, and     *)
(* snmpEnableAuthenTraps.  An address has AddrLen components (4 in the     *)
(* code).  A value is a tuple of naturals.  The operators on values take a *)
(* record s of the stack: list, dflt, mib, pcbs.                           *)
(***************************************************************************)
EXTENDS MibTree

CONSTANTS AddrLen,        \* components of an address
          Nodes, Roots,   \* MEMP_NUM_SNMP_NODE, MEMP_NUM_SNMP_ROOTNODE
          Writable,       \* the system strings are in writable memory
          mib_private     \* the private MIB, NULL when there is none

VARIABLES netif_list,     \* sequence of interfaces, first the newest
          netif_default,  \* name of the default interface, 0 for none
          arp_table,      \* stable ARP entries: set of <<interface name, address>>
          udp_pcbs,       \* sequence of bound UDP PCBs
          mib

ANY == [i \in 1..AddrLen |-> 0]

-----------------------------------------------------------------------------
(* The static tree.                                                        *)

(* A table of a RAM array node: maxlength 0 hides its only entry.          *)
Table(maxlength, entry) ==
    IF maxlength = 0 THEN ArrayNode(<<>>, <<>>) ELSE ArrayNode(<<1>>, <<entry>>)
Columns(n, root) == ArrayNode([i \in 1..n |-> i], [i \in 1..n |-> root])
Scalars(ids, group) == ArrayNode(ids, [i \in DOMAIN ids |-> Scalar(group)])
UpTo(n) == [i \in 1..n |-> i]

snmp_ids == [i \in 1..28 |-> IF i <= 6 THEN i ELSE IF i <= 21 THEN i + 1 ELSE i + 2]
snmp_tree == Scalars(snmp_ids, "snmp")
udp_tree(m) ==
    ArrayNode(UpTo(5), [i \in 1..4 |-> Scalar("udp")]
                       \o <<Table(m.maxlength.udp, Columns(2, m.tree.udp))>>)
tcp_tree ==
    ArrayNode(UpTo(15), [i \in 1..15 |-> IF i = 13 THEN Table(0, NULL) ELSE Scalar("tcp")])
icmp_tree == Scalars(UpTo(26), "icmp")
ipntomtable(m) == Table(m.maxlength.ntom, Columns(4, m.tree.ntom))
iprtetable(m)  == Table(m.maxlength.rte, Columns(13, m.tree.rte))
ipaddrtable(m) == Table(m.maxlength.addr, Columns(5, m.tree.addr))
ip_tree(m) ==
    ArrayNode(UpTo(23), [i \in 1..23 |-> CASE i = 20 -> ipaddrtable(m)
                                           [] i = 21 -> iprtetable(m)
                                           [] i = 22 -> ipntomtable(m)
                                           [] OTHER  -> Scalar("ip")])
at_tree(m) == Table(m.maxlength.at, ArrayNode(<<1>>, <<Columns(3, m.tree.arp)>>))
interfaces_tree(m) ==
    ArrayNode(<<1, 2>>, <<Scalar("interfaces"), Table(m.maxlength.if, Columns(22, m.tree.if))>>)
sys_tem == Scalars(UpTo(7), "system")
mib2(m) ==
    ArrayNode(<<1, 2, 3, 4, 5, 6, 7, 11>>,
              <<sys_tem, interfaces_tree(m), at_tree(m), ip_tree(m), icmp_tree, tcp_tree,
                udp_tree(m), snmp_tree>>)
mgmt(m) == ArrayNode(<<1>>, <<mib2(m)>>)
internet(m) ==
    IF mib_private = NULL THEN ArrayNode(<<2>>, <<mgmt(m)>>)
    ELSE ArrayNode(<<2, 4>>, <<mgmt(m), mib_private>>)

-----------------------------------------------------------------------------
(* The index tables.                                                       *)
Root(group) == Node("LR", group, <<>>)

Changed(m, tree, r) == [m EXCEPT !.tree[tree] = r.rn, !.pool = r.pool]
Insert(m, tree, idx, group) == Changed(m, tree, InsertIndex(m.tree[tree], idx, group, m.pool))
Delete(m, tree, idx) == Changed(m, tree, DeleteIndex(m.tree[tree], idx, m.pool))
Enable(m, table) == [m EXCEPT !.maxlength[table] = 1]
DisableEmpty(m, table, tree) ==
    IF m.tree[tree].kids = <<>> THEN [m EXCEPT !.maxlength[table] = 0] ELSE m

snmp_netiftoifindex(ns, name) ==
    LET i == FirstOf({k \in DOMAIN ns : ns[k].name = name}) IN IF i = 0 THEN Len(ns) + 1 ELSE i
snmp_ifindextonetif(ns, ifindex) == ns[ifindex]

snmp_inc_iflist(m) == Enable(Insert(m, "if", <<Len(m.tree.if.kids) + 1>>, "ifentry"), "if")
snmp_dec_iflist(m) ==
    DisableEmpty(Changed(m, "if", snmp_mib_node_delete(m.tree.if, Len(m.tree.if.kids), m.pool)),
                 "if", "if")

arpidx(ns, name, ip) == <<snmp_netiftoifindex(ns, name)>> \o snmp_iptooid(ip)
snmp_insert_arpidx_tree(m, ns, name, ip) ==
    Enable(Enable(Insert(Insert(m, "arp", arpidx(ns, name, ip), "atentry"),
                         "ntom", arpidx(ns, name, ip), "ip_ntomentry"), "at"), "ntom")
snmp_delete_arpidx_tree(m, ns, name, ip) ==
    DisableEmpty(DisableEmpty(Delete(Delete(m, "arp", arpidx(ns, name, ip)),
                                     "ntom", arpidx(ns, name, ip)),
                              "at", "arp"), "ntom", "ntom")

snmp_insert_ipaddridx_tree(m, ni) ==
    Enable(Insert(m, "addr", snmp_iptooid(ni.ip_addr), "ip_addrentry"), "addr")
snmp_delete_ipaddridx_tree(m, ni) ==
    DisableEmpty(Delete(m, "addr", snmp_iptooid(ni.ip_addr)), "addr", "addr")

(* dst is the default route ANY, or a network; the network ANY is excluded *)
(* (reserved for the default route), yet the table is enabled.             *)
snmp_insert_iprteidx_tree(m, dflt, ni) ==
    Enable(IF dflt THEN Insert(m, "rte", snmp_iptooid(ANY), "ip_rteentry")
           ELSE IF isany(network(ni.ip_addr, ni.netmask)) THEN m
           ELSE Insert(m, "rte", snmp_iptooid(network(ni.ip_addr, ni.netmask)), "ip_rteentry"), "rte")
snmp_delete_iprteidx_tree(m, dflt, ni) ==
    DisableEmpty(IF dflt THEN Delete(m, "rte", snmp_iptooid(ANY))
                 ELSE IF isany(network(ni.ip_addr, ni.netmask)) THEN m
                 ELSE Delete(m, "rte", snmp_iptooid(network(ni.ip_addr, ni.netmask))), "rte", "rte")

udpidx(pcb) == Append(snmp_iptooid(pcb.local_ip), pcb.local_port)
snmp_insert_udpidx_tree(m, pcb) == Enable(Insert(m, "udp", udpidx(pcb), "udpentry"), "udp")
snmp_delete_udpidx_tree(m, pcbs, pcb) ==
    LET bindings == {i \in DOMAIN pcbs : udpidx(pcbs[i]) = udpidx(pcb)}
    IN  DisableEmpty(IF Cardinality(bindings) = 1 THEN Delete(m, "udp", udpidx(pcb)) ELSE m,
                     "udp", "udp")

-----------------------------------------------------------------------------
(* Counters, by group and object number.                                   *)
ip_counters   == (3..12) \cup (14..19) \cup {23}
tcp_counters  == (5..8) \cup (10..12) \cup {14, 15}
udp_counters  == 1..4
snmp_counters == (1..29) \ {7, 23}
snmp_add(m, group, id, n) == [m EXCEPT !.cnt[group][id] = @ + n]
snmp_inc(m, group, id) == snmp_add(m, group, id, 1)

-----------------------------------------------------------------------------
(* Object definitions by group: type and access of object or column id.    *)
RO(t) == [t |-> t, rw |-> FALSE]
RW(t) == [t |-> t, rw |-> TRUE]
NoObject == RO("NONE")

system_get_object_def(id) ==
    CASE id = 1 -> RO("OC_STR") [] id = 2 -> RO("OBJ_ID") [] id = 3 -> RO("TIMETICKS")
      [] id \in 4..6 -> RW("OC_STR") [] id = 7 -> RO("INTEG") [] OTHER -> NoObject
interfaces_get_object_def(id) == RO("INTEG")
ifentry_get_object_def(id) ==
    CASE id \in {1, 3, 4, 8} -> RO("INTEG") [] id \in {2, 6} -> RO("OC_STR")
      [] id \in {5, 21} -> RO("GAUGE") [] id = 7 -> RW("INTEG") [] id = 9 -> RO("TIMETICKS")
      [] id \in 10..20 -> RO("COUNTER") [] id = 22 -> RO("OBJ_ID") [] OTHER -> NoObject
atentry_get_object_def(id) ==
    CASE id = 1 -> RW("INTEG") [] id = 2 -> RW("OC_STR") [] id = 3 -> RW("IPADDR")
      [] OTHER -> NoObject
ip_get_object_def(id) ==
    CASE id \in {1, 2} -> RW("INTEG") [] id \in ip_counters -> RO("COUNTER")
      [] id = 13 -> RO("INTEG") [] OTHER -> NoObject
ip_addrentry_get_object_def(id) ==
    CASE id \in {1, 3} -> RO("IPADDR") [] id \in {2, 4, 5} -> RO("INTEG") [] OTHER -> NoObject
ip_rteentry_get_object_def(id) ==
    CASE id \in {1, 7, 11} -> RW("IPADDR") [] id \in (2..6) \cup {8, 10, 12} -> RW("INTEG")
      [] id = 9 -> RO("INTEG") [] id = 13 -> RO("OBJ_ID") [] OTHER -> NoObject
ip_ntomentry_get_object_def(id) ==
    CASE id \in {1, 4} -> RW("INTEG") [] id = 2 -> RW("OC_STR") [] id = 3 -> RW("IPADDR")
      [] OTHER -> NoObject
icmp_get_object_def(id) == IF id \in 1..26 THEN RO("COUNTER") ELSE NoObject
tcp_get_object_def(id) ==
    CASE id \in 1..4 -> RO("INTEG") [] id \in tcp_counters -> RO("COUNTER")
      [] id = 9 -> RO("GAUGE") [] OTHER -> NoObject
udp_get_object_def(id) == IF id \in 1..5 THEN RO("COUNTER") ELSE NoObject
udpentry_get_object_def(id) ==
    CASE id = 1 -> RO("IPADDR") [] id = 2 -> RO("INTEG") [] OTHER -> NoObject
snmp_get_object_def(id) ==
    CASE id \in snmp_counters -> RO("COUNTER") [] id = 30 -> RW("INTEG") [] OTHER -> NoObject

(* Identifiers of an index: get_object_def steps back over them to the     *)
(* column, and rejects a name with more identifiers behind the index.      *)
Depth(group) ==
    CASE group \in {"atentry", "ip_ntomentry", "udpentry"} -> AddrLen + 1
      [] group \in {"ip_addrentry", "ip_rteentry"} -> AddrLen
      [] OTHER -> 1
get_object_def(group, name, rest) ==
    LET id == name[Len(name) - Depth(group)]
    IN  IF Len(rest) # 1 THEN NoObject
        ELSE CASE group = "system" -> system_get_object_def(id)
               [] group = "interfaces" -> interfaces_get_object_def(id)
               [] group = "ifentry" -> ifentry_get_object_def(id)
               [] group = "atentry" -> atentry_get_object_def(id)
               [] group = "ip" -> ip_get_object_def(id)
               [] group = "ip_addrentry" -> ip_addrentry_get_object_def(id)
               [] group = "ip_rteentry" -> ip_rteentry_get_object_def(id)
               [] group = "ip_ntomentry" -> ip_ntomentry_get_object_def(id)
               [] group = "icmp" -> icmp_get_object_def(id)
               [] group = "tcp" -> tcp_get_object_def(id)
               [] group = "udp" -> udp_get_object_def(id)
               [] group = "udpentry" -> udpentry_get_object_def(id)
               [] group = "snmp" -> snmp_get_object_def(id)
               [] OTHER -> NoObject

-----------------------------------------------------------------------------
(* Values.  What the stack never changes is a constant; an empty string is *)
(* <<>>; UNSET, the value space of a row without an owner, is a tuple no   *)
(* value equals.                                                           *)
UNSET == <<0, 0, 0, 0, 0>>
Constant == <<0>>
zeroDotZero == <<0, 0>>
Flag(b) == IF b THEN 1 ELSE 2

system_get_value(s, id) ==
    IF id \in 4..6 THEN (IF s.mib.sys[id] = 0 THEN <<>> ELSE <<s.mib.sys[id]>>)
    ELSE IF id = 2 THEN zeroDotZero ELSE Constant
interfaces_get_value(s, id) == <<Len(s.mib.tree.if.kids)>>
ifentry_get_value(s, id, ix) ==
    LET ni == snmp_ifindextonetif(s.list, ix[1])
    IN  CASE id = 1 -> <<ix[1]>> [] id = 2 -> <<ni.name>>
          [] id = 7 -> <<IF ni.up THEN (IF ni.link_up THEN 1 ELSE 7) ELSE 2>>
          [] id = 8 -> <<Flag(ni.up)>> [] id \in 10..13 -> <<ni.in[id - 9]>>
          [] id \in 16..19 -> <<ni.out[id - 15]>> [] id = 22 -> zeroDotZero [] OTHER -> Constant
(* The ARP entry of the interface with this index and of this address.     *)
ArpRow(s, ix) ==
    LET ip == snmp_oidtoip(Tail(ix), AddrLen)
    IN  ix[1] \in DOMAIN s.list /\ <<s.list[ix[1]].name, ip>> \in arp_table
atentry_get_value(s, id, ix) ==
    IF ~ ArpRow(s, ix) THEN UNSET
    ELSE CASE id = 1 -> <<ix[1]>> [] id = 2 -> Constant [] OTHER -> Tail(ix)
ip_ntomentry_get_value(s, id, ix) == IF id = 4 /\ ArpRow(s, ix) THEN <<3>> ELSE atentry_get_value(s, id, ix)
ip_addrentry_get_value(s, id, ix) ==
    LET n == FirstOf({i \in DOMAIN s.list : s.list[i].ip_addr = ix})
    IN  IF n = 0 THEN UNSET
        ELSE CASE id = 1 -> ix [] id = 2 -> <<n>> [] id = 3 -> s.list[n].netmask
               [] OTHER -> Constant
ip_rteentry_get_value(s, id, ix) ==
    LET match == {i \in DOMAIN s.list :
                    IF isany(ix) THEN s.list[i].name = s.dflt
                    ELSE network(ix, s.list[i].netmask)
                         = network(s.list[i].ip_addr, s.list[i].netmask)}
        ni == s.list[FirstOf(match)]
    IN  IF match = {} THEN UNSET
        ELSE CASE id = 1 -> IF isany(ix) THEN ix ELSE network(ni.ip_addr, ni.netmask)
               [] id = 2 -> <<snmp_netiftoifindex(s.list, ni.name)>>
               [] id = 3 -> <<IF isany(ix) THEN 1 ELSE 0>>
               [] id = 7 -> IF isany(ix) THEN ni.gw ELSE ni.ip_addr
               [] id = 8 -> <<IF isany(ix) THEN 4 ELSE 3>>
               [] id = 11 -> IF isany(ix) THEN ANY ELSE ni.netmask
               [] id = 13 -> zeroDotZero [] OTHER -> Constant
ip_get_value(s, id) == IF id \in ip_counters THEN <<s.mib.cnt.ip[id]>> ELSE Constant
icmp_get_value(s, id) == <<s.mib.cnt.icmp[id]>>
udp_get_value(s, id) == IF id \in udp_counters THEN <<s.mib.cnt.udp[id]>> ELSE UNSET
udpentry_get_value(s, id, ix) ==
    LET match == {i \in DOMAIN s.pcbs : udpidx(s.pcbs[i]) = ix}
    IN  IF match = {} THEN UNSET ELSE IF id = 1 THEN SubSeq(ix, 1, AddrLen) ELSE <<Last(ix)>>
snmp_get_value(s, id) == IF id = 30 THEN <<s.mib.trapsok>> ELSE <<s.mib.cnt.snmp[id]>>

get_value(s, group, name) ==
    LET id == name[Len(name) - Depth(group)]
        ix == SubSeq(name, Len(name) - Depth(group) + 1, Len(name))
    IN  CASE group = "system" -> system_get_value(s, id)
          [] group = "interfaces" -> interfaces_get_value(s, id)
          [] group = "ifentry" -> ifentry_get_value(s, id, ix)
          [] group = "atentry" -> atentry_get_value(s, id, ix)
          [] group = "ip_ntomentry" -> ip_ntomentry_get_value(s, id, ix)
          [] group = "ip_addrentry" -> ip_addrentry_get_value(s, id, ix)
          [] group = "ip_rteentry" -> ip_rteentry_get_value(s, id, ix)
          [] group = "ip" -> ip_get_value(s, id)
          [] group = "icmp" -> icmp_get_value(s, id)
          [] group = "udp" -> udp_get_value(s, id)
          [] group = "udpentry" -> udpentry_get_value(s, id, ix)
          [] group = "snmp" -> snmp_get_value(s, id)
          [] OTHER -> Constant

-----------------------------------------------------------------------------
(* SET: the tests, and the writes that change the agent's own objects (the *)
(* write of ifAdminStatus is netif_set_up and netif_set_down).             *)
system_set_test(id, v) == id \in 4..6 /\ Writable
ip_set_test(id, v)      == id \in {1, 2} /\ v = Constant
ifentry_set_test(id, v) == id = 7 /\ v[1] \in {1, 2}
snmp_set_test(id, v)    == id = 30 /\ v[1] \in (IF Writable THEN {1, 2} ELSE {2})
set_test(group, name, v) ==
    LET id == name[Len(name) - Depth(group)]
    IN  CASE group = "system" -> system_set_test(id, v)
          [] group = "ip" -> ip_set_test(id, v)
          [] group = "ifentry" -> ifentry_set_test(id, v)
          [] group = "snmp" -> snmp_set_test(id, v)
          [] OTHER -> FALSE
system_set_value(m, id, v) == [m EXCEPT !.sys[id] = IF v = <<>> THEN 0 ELSE v[1]]
snmp_set_value(m, v) == [m EXCEPT !.trapsok = v[1]]

mib_init ==
    [tree |-> [if |-> Root("ifentry"), arp |-> Root("noleafs"), ntom |-> Root("noleafs"),
               addr |-> Root("noleafs"), rte |-> Root("noleafs"), udp |-> Root("noleafs")],
     maxlength |-> [if |-> 0, at |-> 0, ntom |-> 0, addr |-> 0, rte |-> 0, udp |-> 0],
     pool |-> [nodes |-> Nodes, roots |-> Roots],
     cnt |-> [ip |-> [i \in ip_counters |-> 0], icmp |-> [i \in 1..26 |-> 0],
              udp |-> [i \in udp_counters |-> 0], snmp |-> [i \in snmp_counters |-> 0]],
     sys |-> [i \in 4..6 |-> 0], trapsok |-> 2]

=============================================================================
