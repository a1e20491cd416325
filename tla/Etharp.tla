------------------------------- MODULE Etharp -------------------------------
(***************************************************************************)
(* The ARP cache of lwIP (netif/etharp.c, ARP_QUEUEING = 0): a table of    *)
(* address pairs that age, at most one packet waiting on a pending entry,  *)
(* and a cached index that etharp_output tries first.  A packet is         *)
(* represented by the address of its next hop.                             *)
(***************************************************************************)
EXTENDS Integers, FiniteSets

CONSTANTS
  ARP_TABLE_SIZE, ARP_MAXAGE, ARP_MAXPENDING,
  Host,        \* unicast addresses of the local network
  Gateway,     \* the one of them that routes
  Mac,         \* Ethernet addresses of hosts
  Any,         \* 0.0.0.0, also the address in a table entry never used
  NULL

ASSUME ArpConstants ==
  /\ ARP_TABLE_SIZE \in Nat \ {0}
  /\ ARP_MAXAGE \in Nat \ {0} /\ ARP_MAXPENDING \in Nat
  /\ Gateway \in Host /\ Any \notin Host /\ NULL \notin Host
  /\ Mac # {} /\ Any \notin Mac

VARIABLES
  arp_table,             \* [state, ipaddr, ethaddr, q, ctime] of each entry
  etharp_cached_entry,
  configured,            \* netif->ip_addr is not 0.0.0.0
  gw,                    \* netif->gw: Gateway or Any
  wire,                  \* the IP packets sent in the last step: [hop, dest]
  heard,                 \* the Ethernet address each host last claimed (history)
  copies                 \* pbufs allocated for queued packets and not freed

vars == <<arp_table, etharp_cached_entry, configured, gw, wire, heard, copies>>

Slot == 0 .. ARP_TABLE_SIZE - 1
EntryState == {"EMPTY", "PENDING", "STABLE"}

Init ==
  /\ arp_table = [i \in Slot |-> [state |-> "EMPTY", ipaddr |-> Any, ethaddr |-> Any,
                                  q |-> NULL, ctime |-> 0]]
  /\ etharp_cached_entry = 0
  /\ configured = FALSE /\ gw = Any
  /\ wire = {} /\ heard = [h \in Host |-> Any] /\ copies = 0

Queued(e) == IF e.q = NULL THEN 0 ELSE 1

-----------------------------------------------------------------------------

free_entry(e) == [e EXCEPT !.state = "EMPTY", !.q = NULL]

Expired(e) ==
  e.ctime >= ARP_MAXAGE \/ (e.state = "PENDING" /\ e.ctime >= ARP_MAXPENDING)

\* What a timer tick makes of an entry.
aged(e) ==
  LET o == [e EXCEPT !.ctime = @ + 1]
  IN  IF e.state = "EMPTY" THEN e ELSE IF Expired(o) THEN free_entry(o) ELSE o

etharp_tmr ==
  /\ arp_table' = [i \in Slot |-> aged(arp_table[i])]
  /\ copies' = copies - Cardinality({i \in Slot : arp_table[i].q # NULL
                                                   /\ aged(arp_table[i]).q = NULL})
  /\ wire' = {}
  /\ UNCHANGED <<etharp_cached_entry, configured, gw, heard>>

-----------------------------------------------------------------------------
(* find_entry.  The sets hold one index, or none for ERR_MEM.              *)

Match(ip) == {i \in Slot : arp_table[i].state # "EMPTY" /\ arp_table[i].ipaddr = ip}
First(S) == {i \in S : \A j \in S : i <= j}

\* The oldest entry of a class; of equally old ones, the last.
Oldest(S) ==
  {i \in S : \A j \in S : \/ arp_table[j].ctime < arp_table[i].ctime
                          \/ arp_table[j].ctime = arp_table[i].ctime /\ j <= i}

EmptyEntries == {i \in Slot : arp_table[i].state = "EMPTY"}
StableEntries == {i \in Slot : arp_table[i].state = "STABLE"}
PendingEntries == {i \in Slot : arp_table[i].state = "PENDING" /\ arp_table[i].q = NULL}
QueueEntries == {i \in Slot : arp_table[i].state = "PENDING" /\ arp_table[i].q # NULL}

\* Mutant: pending entries are recycled before stable ones.
RecyclePending ==
  IF EmptyEntries # {} THEN First(EmptyEntries)
  ELSE IF QueueEntries # {} THEN Oldest(QueueEntries)
  ELSE IF PendingEntries # {} THEN Oldest(PendingEntries)
  ELSE Oldest(StableEntries)

\* "choose the least destructive entry to recycle"
Recycle ==
  IF EmptyEntries # {} THEN First(EmptyEntries)
  ELSE IF StableEntries # {} THEN Oldest(StableEntries)
  ELSE IF PendingEntries # {} THEN Oldest(PendingEntries)
  ELSE Oldest(QueueEntries)

\* Mutant: an empty entry is taken before the rest of the table was searched.
find_entry_first_fit(ip, try_hard) ==
  IF try_hard /\ EmptyEntries # {} THEN First(EmptyEntries)
  ELSE IF Match(ip) # {} THEN First(Match(ip)) ELSE IF try_hard THEN Recycle ELSE {}

find_entry(ip, try_hard) ==
  IF Match(ip) # {} THEN First(Match(ip)) ELSE IF try_hard THEN Recycle ELSE {}

\* The entry i as find_entry leaves it for ip.
Found(i, ip) ==
  IF i \in Match(ip) THEN arp_table[i]
                     ELSE [free_entry(arp_table[i]) EXCEPT !.ipaddr = ip, !.ctime = 0]

-----------------------------------------------------------------------------
\* A unicast pair is entered or refreshed, and the packet that waited for it
\* sent and freed.
update_arp_entry(ip, mac, try_hard) ==
  IF find_entry(ip, try_hard) = {} THEN wire' = {} /\ UNCHANGED <<arp_table, copies>>
  ELSE \E i \in find_entry(ip, try_hard) :
    LET e == Found(i, ip)
    IN  /\ arp_table' = [arp_table EXCEPT ![i] =
             [e EXCEPT !.state = "STABLE", !.ethaddr = mac, !.ctime = 0, !.q = NULL]]
        /\ wire' = IF e.q # NULL THEN {[hop |-> e.q, dest |-> mac]} ELSE {}
        /\ copies' = copies - Queued(arp_table[i])

\* ethernet_input of an ARP message from a unicast address, for_us or not.
\* (The reply to a request reuses the pbuf and leaves the table alone.)
etharp_arp_input(sipaddr, shwaddr, to_our_addr) ==
  /\ update_arp_entry(sipaddr, shwaddr, configured /\ to_our_addr)
  /\ heard' = [heard EXCEPT ![sipaddr] = shwaddr]
  /\ UNCHANGED <<etharp_cached_entry, configured, gw>>

\* ethernet_input drops a malformed frame or an ARP message from 0.0.0.0, or
\* gives an IP packet to ip_input.
ethernet_input_other ==
  /\ wire' = {}
  /\ UNCHANGED <<arp_table, etharp_cached_entry, configured, gw, heard, copies>>

-----------------------------------------------------------------------------
\* Mutants of etharp_query: the packet that waited is not freed; its entry's age
\* starts again.
etharp_query_leak(ip) ==
  \E i \in find_entry(ip, TRUE) :
    LET e == Found(i, ip)
    IN  IF e.state = "STABLE"
          THEN /\ arp_table' = [arp_table EXCEPT ![i] = e]
               /\ etharp_cached_entry' = i
               /\ wire' = {[hop |-> ip, dest |-> e.ethaddr]}
               /\ UNCHANGED copies
          ELSE /\ arp_table' = [arp_table EXCEPT ![i] = [e EXCEPT !.state = "PENDING", !.q = ip]]
               /\ copies' = copies + 1
               /\ wire' = {}
               /\ UNCHANGED etharp_cached_entry
etharp_query_restart(ip) ==
  \E i \in find_entry(ip, TRUE) :
    LET e == Found(i, ip)
    IN  IF e.state = "STABLE"
          THEN /\ arp_table' = [arp_table EXCEPT ![i] = e]
               /\ etharp_cached_entry' = i
               /\ wire' = {[hop |-> ip, dest |-> e.ethaddr]}
               /\ UNCHANGED copies
          ELSE /\ arp_table' = [arp_table EXCEPT ![i] =
                    [e EXCEPT !.state = "PENDING", !.q = ip, !.ctime = 0]]
               /\ copies' = copies - Queued(arp_table[i]) + 1
               /\ wire' = {}
               /\ UNCHANGED etharp_cached_entry

\* A packet for ip: sent if the entry is stable; otherwise an ARP request goes
\* out (or cannot be allocated: no difference here) and a copy of the packet
\* replaces the one that waited, unless there is no memory for the copy.
etharp_query(ip) ==
  \E i \in find_entry(ip, TRUE) :
    LET e == Found(i, ip)
    IN  IF e.state = "STABLE"
          THEN /\ arp_table' = [arp_table EXCEPT ![i] = e]
               /\ etharp_cached_entry' = i
               /\ wire' = {[hop |-> ip, dest |-> e.ethaddr]}
               /\ UNCHANGED copies
          ELSE /\ \/ /\ arp_table' = [arp_table EXCEPT ![i] =
                                        [e EXCEPT !.state = "PENDING", !.q = ip]]
                     /\ copies' = copies - Queued(arp_table[i]) + 1
                  \/ /\ arp_table' = [arp_table EXCEPT ![i] = [e EXCEPT !.state = "PENDING"]]
                     /\ copies' = copies - Queued(arp_table[i]) + Queued(e)
               /\ wire' = {}
               /\ UNCHANGED etharp_cached_entry

\* Mutant: the address in the cached entry is not compared.
CacheHitAnyIp(ip) == arp_table[etharp_cached_entry].state = "STABLE"

CacheHit(ip) ==
  /\ arp_table[etharp_cached_entry].state = "STABLE"
  /\ arp_table[etharp_cached_entry].ipaddr = ip

\* The part of etharp_output for a unicast address on the local network.
output_hop(ip) ==
  IF CacheHit(ip)
    THEN /\ wire' = {[hop |-> ip, dest |-> arp_table[etharp_cached_entry].ethaddr]}
         /\ UNCHANGED <<arp_table, etharp_cached_entry, copies>>
    ELSE etharp_query(ip)

\* etharp_output to a host of the local network.
etharp_output_local(ip) ==
  /\ output_hop(ip)
  /\ UNCHANGED <<configured, gw, heard>>

\* etharp_output to any other unicast address: by way of the gateway, or ERR_RTE.
etharp_output_outside ==
  /\ IF gw # Any THEN output_hop(gw)
                 ELSE wire' = {} /\ UNCHANGED <<arp_table, etharp_cached_entry, copies>>
  /\ UNCHANGED <<configured, gw, heard>>

\* netif_set_addr: by ether_init, or by DHCP when it binds or loses a lease.
\* Nothing is removed from the table.
netif_set_addr(on) ==
  /\ configured' = on /\ gw' = (IF on THEN Gateway ELSE Any)
  /\ wire' = {}
  /\ UNCHANGED <<arp_table, etharp_cached_entry, heard, copies>>

-----------------------------------------------------------------------------
Next ==
  \/ etharp_tmr
  \/ \E ip \in Host, mac \in Mac, b \in BOOLEAN : etharp_arp_input(ip, mac, b)
  \/ ethernet_input_other
  \/ \E ip \in Host : etharp_output_local(ip)
  \/ etharp_output_outside
  \/ \E on \in BOOLEAN : netif_set_addr(on)

Spec == Init /\ [][Next]_vars

(* arp_timer runs for ever (Progress of MCSketches).  No host need           *)
(* answer, no caller need send.                                              *)
FairSpec == Spec /\ WF_vars(etharp_tmr)

-----------------------------------------------------------------------------
(* Properties *)

TypeOK ==
  /\ arp_table \in [Slot -> [state : EntryState, ipaddr : Host \cup {Any},
                             ethaddr : Mac \cup {Any}, q : Host \cup {NULL}, ctime : 0 .. ARP_MAXAGE]]
  /\ etharp_cached_entry \in Slot
  /\ configured \in BOOLEAN /\ gw \in {Gateway, Any}
  /\ wire \in SUBSET [hop : Host, dest : Mac \cup {Any}]
  /\ heard \in [Host -> Mac \cup {Any}]
  /\ copies \in Int

(* An address is in the table once.  find_entry answers with the first match, *)
(* so of two entries the second would live on with an old Ethernet address,   *)
(* and a packet waiting on it would never go out.                             *)
UniqueIp ==
  \A i, j \in Slot : /\ arp_table[i].state # "EMPTY" /\ arp_table[j].state # "EMPTY"
                     /\ arp_table[i].ipaddr = arp_table[j].ipaddr
                     => i = j

(* "no queued packets should exist on stable entries" (the assertion in       *)
(* find_entry), nor on empty ones; and the packet that waits on an entry is   *)
(* for that entry's address, whatever the entry was used for before.          *)
QueueOnPending ==
  \A i \in Slot : arp_table[i].q # NULL =>
    arp_table[i].state = "PENDING" /\ arp_table[i].q = arp_table[i].ipaddr

(* Every packet goes to the Ethernet address its next hop last claimed: not   *)
(* to the host that had the entry, or the cached index, before.               *)
RightHost == \A p \in wire : p.dest = heard[p.hop] /\ p.dest # Any

(* Every copy made for the queue is on an entry: freed when it is sent,       *)
(* replaced, expired or recycled, and never twice.                            *)
NoLeak == copies = Cardinality({i \in Slot : arp_table[i].q # NULL})

Rank(e) == CASE e.state = "EMPTY" -> 0 [] e.state = "STABLE" -> 1
             [] e.state = "PENDING" /\ e.q = NULL -> 2 [] OTHER -> 3

(* An address loses its entry to another one only when the table is full, and *)
(* it is then the least destructive choice: no entry is of a cheaper kind,    *)
(* none of the same kind is older.                                            *)
LeastDestructive ==
  [][\A i, j \in Slot :
       arp_table[i].state # "EMPTY" /\ arp_table'[i].ipaddr # arp_table[i].ipaddr =>
         \/ Rank(arp_table[i]) < Rank(arp_table[j])
         \/ Rank(arp_table[i]) = Rank(arp_table[j]) /\ arp_table[i].ctime >= arp_table[j].ctime]_vars

PendingFor(ip) == \E i \in Match(ip) : arp_table[i].state = "PENDING"

(* An unanswered request does not last: however often a packet for the host   *)
(* is sent meanwhile, the entry is resolved, expired or recycled.             *)
PendingEnds == \A ip \in Host : []<>~PendingFor(ip)
=============================================================================
