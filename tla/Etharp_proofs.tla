---------------------------- MODULE Etharp_proofs ----------------------------
(***************************************************************************)
(* Proofs about the ARP cache, for a table of any size and any network.    *)
(* The induction needs more than the properties: that an entry in use has  *)
(* the address of a host, and that a stable entry holds the Ethernet       *)
(* address this host claimed last.                                         *)
(***************************************************************************)
EXTENDS Etharp, FiniteSetTheorems, TLAPS

Entry == [state : EntryState, ipaddr : Host \cup {Any}, ethaddr : Mac \cup {Any},
          q : Host \cup {NULL}, ctime : 0 .. ARP_MAXAGE]

\* What an entry must be like when h says which address each host claimed.
EntryOK(e, h) ==
  /\ e.state # "EMPTY" => e.ipaddr \in Host /\ e.ctime < ARP_MAXAGE
  /\ e.q # NULL => e.state = "PENDING" /\ e.q = e.ipaddr
  /\ e.state = "STABLE" => e.ethaddr = h[e.ipaddr] /\ e.ethaddr \in Mac

Table == arp_table \in [Slot -> Entry] /\ (\A i \in Slot : EntryOK(arp_table[i], heard)) /\ UniqueIp

Rest ==
  /\ etharp_cached_entry \in Slot /\ configured \in BOOLEAN /\ gw \in {Gateway, Any}
  /\ heard \in [Host -> Mac \cup {Any}] /\ copies \in Int

Wire == wire \in SUBSET [hop : Host, dest : Mac \cup {Any}] /\ RightHost

IInv == Table /\ Rest /\ Wire

USE ArpConstants

\* The initial table is empty.
LEMMA InitInv == Init => IInv
<1>1. ASSUME Init PROVE Table
  BY <1>1 DEF Init, Table, Entry, EntryState, EntryOK, UniqueIp
<1>2. ASSUME Init PROVE Rest
  <2>1. configured \in BOOLEAN BY <1>2, Zenon DEF Init
  <2> QED BY <1>2, <2>1 DEF Init, Rest, Slot
<1>3. ASSUME Init PROVE Wire
  BY <1>3 DEF Init, Wire, RightHost
<1> QED BY <1>1, <1>2, <1>3 DEF IInv

-----------------------------------------------------------------------------
\* find_entry answers with an index of the table, and no other entry in use
\* has the address.
LEMMA FindEntry ==
  ASSUME Table, NEW ip \in Host, NEW b \in BOOLEAN, NEW i \in find_entry(ip, b)
  PROVE  /\ i \in Slot
         /\ i \in Match(ip) \/ Match(ip) = {}
         /\ \A j \in Slot : j # i => arp_table[j].state = "EMPTY" \/ arp_table[j].ipaddr # ip
<1>1. CASE Match(ip) # {}
  <2>1. i \in Match(ip) BY <1>1 DEF find_entry, First
  <2>2. i \in Slot BY <2>1 DEF Match
  <2> QED BY <2>1, <2>2 DEF Match, Table, UniqueIp
<1>2. CASE Match(ip) = {}
  <2>1. i \in Recycle BY <1>2 DEF find_entry
  <2>2. i \in Slot
    BY <2>1 DEF Recycle, First, Oldest, EmptyEntries, StableEntries, PendingEntries, QueueEntries
  <2> QED BY <1>2, <2>2 DEF Match
<1> QED BY <1>1, <1>2

\* The entry find_entry hands to its caller has the address asked for, and what
\* it held for another address is gone.
LEMMA FoundEntry ==
  ASSUME Table, NEW ip \in Host, NEW i \in Slot, i \in Match(ip) \/ Match(ip) = {}
  PROVE  /\ Found(i, ip) \in Entry
         /\ EntryOK(Found(i, ip), heard)
         /\ Found(i, ip).ipaddr = ip /\ Found(i, ip).ctime < ARP_MAXAGE
<1>0. arp_table[i] \in Entry /\ EntryOK(arp_table[i], heard) BY DEF Table
<1>1. CASE i \in Match(ip)
  BY <1>0, <1>1 DEF Found, Match, EntryOK
<1>2. CASE i \notin Match(ip)
  <2>1. Found(i, ip) = [arp_table[i] EXCEPT !.state = "EMPTY", !.q = NULL, !.ipaddr = ip, !.ctime = 0]
    BY <1>0, <1>2 DEF Found, free_entry, Entry
  <2>2. Found(i, ip) \in Entry
    <3>1. 0 \in 0 .. ARP_MAXAGE /\ "EMPTY" \in EntryState BY DEF EntryState
    <3> QED BY <1>0, <2>1, <3>1, ZenonT(60) DEF Entry
  <2>3. Found(i, ip).state = "EMPTY" /\ Found(i, ip).q = NULL
        /\ Found(i, ip).ipaddr = ip /\ Found(i, ip).ctime = 0
    BY <1>0, <2>1 DEF Entry
  <2> QED BY <2>2, <2>3 DEF EntryOK
<1> QED BY <1>1, <1>2

\* Storing a sound entry for ip where find_entry said keeps the table sound.
LEMMA StoreEntry ==
  ASSUME Table, NEW ip \in Host, NEW b \in BOOLEAN, NEW i \in find_entry(ip, b),
         NEW e \in Entry, NEW h \in [Host -> Mac \cup {Any}],
         e.ipaddr = ip, EntryOK(e, h),
         \A k \in Host : k # ip => h[k] = heard[k],
         arp_table' = [arp_table EXCEPT ![i] = e], heard' = h
  PROVE  Table'
<1>1. i \in Slot /\ \A j \in Slot : j # i => arp_table[j].state = "EMPTY" \/ arp_table[j].ipaddr # ip
  BY FindEntry
<1>2. arp_table' \in [Slot -> Entry] BY <1>1 DEF Table
<1>3. \A j \in Slot : arp_table'[j] = IF j = i THEN e ELSE arp_table[j] BY <1>1 DEF Table
<1>4. ASSUME NEW j \in Slot PROVE EntryOK(arp_table'[j], heard')
  <2>1. CASE j = i BY <1>3, <2>1
  <2>2. CASE j # i
    <3>1. arp_table'[j] = arp_table[j] /\ EntryOK(arp_table[j], heard) BY <1>3, <2>2 DEF Table
    <3>2. arp_table[j].state # "EMPTY" => arp_table[j].ipaddr \in Host /\ h[arp_table[j].ipaddr] = heard[arp_table[j].ipaddr]
      BY <1>1, <2>2, <3>1 DEF EntryOK
    <3> QED BY <3>1, <3>2 DEF EntryOK
  <2> QED BY <2>1, <2>2
<1>5. UniqueIp'
  <2> SUFFICES ASSUME NEW j \in Slot, NEW k \in Slot,
                      arp_table'[j].state # "EMPTY", arp_table'[k].state # "EMPTY",
                      arp_table'[j].ipaddr = arp_table'[k].ipaddr
               PROVE  j = k
    BY DEF UniqueIp
  <2> QED BY <1>1, <1>3 DEF Table, UniqueIp
<1> QED BY <1>2, <1>4, <1>5 DEF Table

-----------------------------------------------------------------------------
\* etharp_tmr only ages and empties entries.
LEMMA AgedEntry ==
  ASSUME NEW e \in Entry, NEW h, EntryOK(e, h)
  PROVE  /\ aged(e) \in Entry /\ EntryOK(aged(e), h)
         /\ aged(e).state # "EMPTY" => e.state # "EMPTY"
         /\ aged(e).ipaddr = e.ipaddr
<1>1. CASE e.state = "EMPTY" BY <1>1 DEF aged
<1>2. CASE e.state # "EMPTY"
  <2> DEFINE o == [e EXCEPT !.ctime = @ + 1]
  <2>1. o \in Entry /\ o.state = e.state /\ o.ipaddr = e.ipaddr /\ o.q = e.q
        /\ o.ethaddr = e.ethaddr /\ o.ctime = e.ctime + 1
    BY <1>2 DEF Entry, EntryOK
  <2>2. aged(e) = IF Expired(o) THEN free_entry(o) ELSE o BY <1>2 DEF aged
  <2>3. CASE Expired(o)
    <3>1. aged(e) = [o EXCEPT !.state = "EMPTY", !.q = NULL] BY <2>2, <2>3 DEF free_entry
    <3> HIDE DEF o
    <3> QED BY <1>2, <2>1, <3>1, ZenonT(60) DEF Entry, EntryState, EntryOK
  <2>4. CASE ~Expired(o)
    <3>1. aged(e) = o /\ o.ctime < ARP_MAXAGE
      <4>1. aged(e) = o BY <2>2, <2>4
      <4>2. ~(o.ctime >= ARP_MAXAGE) BY <2>4 DEF Expired
      <4>3. o.ctime \in Int BY <2>1 DEF Entry
      <4> HIDE DEF o
      <4> QED BY <4>1, <4>2, <4>3
    <3> HIDE DEF o
    <3> QED BY <1>2, <2>1, <3>1 DEF EntryOK
  <2> QED BY <2>3, <2>4
<1> QED BY <1>1, <1>2

\* etharp_tmr keeps the invariant.
LEMMA TmrInv == ASSUME IInv, etharp_tmr PROVE IInv'
<1> USE DEF IInv
<1>1. \A i \in Slot : arp_table[i] \in Entry /\ EntryOK(arp_table[i], heard) BY DEF Table
<1>2. \A i \in Slot : arp_table'[i] = aged(arp_table[i]) BY DEF etharp_tmr
<1>3. heard' = heard BY DEF etharp_tmr
<1>4. arp_table' \in [Slot -> Entry] BY <1>1, AgedEntry DEF etharp_tmr
<1>5. \A i \in Slot : EntryOK(arp_table'[i], heard') BY <1>1, <1>2, <1>3, AgedEntry
<1>6. UniqueIp'
  <2>1. \A i \in Slot : /\ arp_table'[i].state # "EMPTY" => arp_table[i].state # "EMPTY"
                        /\ arp_table'[i].ipaddr = arp_table[i].ipaddr
    BY <1>1, <1>2, AgedEntry
  <2> QED BY <2>1 DEF UniqueIp, Table
<1>7. Table' BY <1>4, <1>5, <1>6 DEF Table
<1>8. copies' \in Int
  <2> DEFINE S == {i \in Slot : arp_table[i].q # NULL /\ aged(arp_table[i]).q = NULL}
  <2>1. IsFiniteSet(Slot) BY FS_Interval DEF Slot
  <2>2. IsFiniteSet(S) BY <2>1, FS_Subset
  <2>3. Cardinality(S) \in Nat BY <2>2, FS_CardinalityType
  <2>4. copies' = copies - Cardinality(S) BY DEF etharp_tmr
  <2> HIDE DEF S
  <2> QED BY <2>3, <2>4 DEF Rest
<1>9. Rest' BY <1>8, Zenon DEF Rest, etharp_tmr
<1>10. Wire' BY DEF Wire, RightHost, etharp_tmr
<1> QED BY <1>7, <1>9, <1>10

-----------------------------------------------------------------------------
\* An ARP message: the pair is stored, and the packet that waited for it goes
\* to the address in the message.
LEMMA ArpInputInv ==
  ASSUME IInv, NEW ip \in Host, NEW mac \in Mac, NEW b \in BOOLEAN, etharp_arp_input(ip, mac, b)
  PROVE  IInv'
<1> USE DEF IInv
<1> DEFINE hard == configured /\ b
<1>0. hard \in BOOLEAN BY DEF Rest
<1>1. heard' = [heard EXCEPT ![ip] = mac] /\ update_arp_entry(ip, mac, hard)
  BY DEF etharp_arp_input
<1>2. heard' \in [Host -> Mac \cup {Any}] /\ heard'[ip] = mac /\ \A k \in Host : k # ip => heard'[k] = heard[k]
  BY <1>1 DEF Rest
<1> HIDE DEF hard
<1>3. CASE find_entry(ip, hard) = {}
  <2>1. arp_table' = arp_table /\ copies' = copies /\ wire' = {} BY <1>1, <1>3 DEF update_arp_entry
  <2>2. Match(ip) = {}
    <3>1. SUFFICES ASSUME Match(ip) # {} PROVE FALSE OBVIOUS
    <3>2. PICK i \in Match(ip) : TRUE BY <3>1
    <3>3. \A j \in Match(ip) : j = i BY <3>2 DEF Match, Table, UniqueIp
    <3>4. i \in Slot BY <3>2 DEF Match
    <3>5. i \in First(Match(ip)) BY <3>2, <3>3, <3>4 DEF First, Slot
    <3> QED BY <3>1, <3>5, <1>3 DEF find_entry
  <2>3. \A j \in Slot : arp_table[j].state = "EMPTY" \/ arp_table[j].ipaddr # ip BY <2>2 DEF Match
  <2>4. \A j \in Slot : EntryOK(arp_table[j], heard')
    <3> SUFFICES ASSUME NEW j \in Slot PROVE EntryOK(arp_table[j], heard') OBVIOUS
    <3>1. EntryOK(arp_table[j], heard) BY DEF Table
    <3> QED BY <3>1, <2>3, <1>2 DEF EntryOK
  <2>5. Table' BY <2>1, <2>4 DEF Table, UniqueIp
  <2>6. Rest' BY <2>1, <1>2 DEF Rest, etharp_arp_input
  <2>7. Wire' BY <2>1 DEF Wire, RightHost
  <2> QED BY <2>5, <2>6, <2>7
<1>4. CASE find_entry(ip, hard) # {}
  <2>1. PICK i \in find_entry(ip, hard) :
          /\ arp_table' = [arp_table EXCEPT ![i] =
               [Found(i, ip) EXCEPT !.state = "STABLE", !.ethaddr = mac, !.ctime = 0, !.q = NULL]]
          /\ wire' = IF Found(i, ip).q # NULL THEN {[hop |-> Found(i, ip).q, dest |-> mac]} ELSE {}
          /\ copies' = copies - Queued(arp_table[i])
    BY <1>1, <1>4 DEF update_arp_entry
  <2>2. i \in Slot /\ (i \in Match(ip) \/ Match(ip) = {}) BY <1>0, FindEntry
  <2>3. /\ Found(i, ip) \in Entry /\ EntryOK(Found(i, ip), heard)
        /\ Found(i, ip).ipaddr = ip
    BY <2>2, FoundEntry
  <2> DEFINE e == [Found(i, ip) EXCEPT !.state = "STABLE", !.ethaddr = mac, !.ctime = 0, !.q = NULL]
  <2>4. e \in Entry /\ e.ipaddr = ip /\ EntryOK(e, heard')
    <3>1. e \in Entry
      <4>1. 0 \in 0 .. ARP_MAXAGE /\ "STABLE" \in EntryState /\ mac \in Mac \cup {Any} BY DEF EntryState
      <4> QED BY <2>3, <4>1, ZenonT(60) DEF Entry
    <3>2. e.state = "STABLE" /\ e.ethaddr = mac /\ e.ctime = 0 /\ e.q = NULL /\ e.ipaddr = ip
      BY <2>3 DEF Entry
    <3> HIDE DEF e
    <3> QED BY <3>1, <3>2, <1>2 DEF EntryOK
  <2>5. arp_table' = [arp_table EXCEPT ![i] = e] BY <2>1
  <2> HIDE DEF e
  <2>6. Table' BY <2>4, <2>5, <1>0, <1>2, StoreEntry, ZenonT(60)
  <2>7. copies' \in Int BY <2>1 DEF Rest, Queued
  <2>8. Rest' BY <2>7, <1>2 DEF Rest, etharp_arp_input
  <2>9. Found(i, ip).q # NULL => Found(i, ip).q = ip BY <2>3 DEF EntryOK
  <2>10. Wire' BY <2>1, <2>9, <1>2 DEF Wire, RightHost
  <2> QED BY <2>6, <2>8, <2>10, SMTT(60)
<1> QED BY <1>3, <1>4

-----------------------------------------------------------------------------
\* etharp_query: the entry is stored back, and a packet sent at once goes where
\* the stable entry says.
LEMMA QueryInv ==
  ASSUME IInv, NEW ip \in Host, etharp_query(ip), UNCHANGED <<configured, gw, heard>>
  PROVE  IInv'
<1> USE DEF IInv
<1>1. PICK i \in find_entry(ip, TRUE) :
        IF Found(i, ip).state = "STABLE"
          THEN /\ arp_table' = [arp_table EXCEPT ![i] = Found(i, ip)]
               /\ etharp_cached_entry' = i
               /\ wire' = {[hop |-> ip, dest |-> Found(i, ip).ethaddr]}
               /\ UNCHANGED copies
          ELSE /\ \/ /\ arp_table' = [arp_table EXCEPT ![i] =
                                        [Found(i, ip) EXCEPT !.state = "PENDING", !.q = ip]]
                     /\ copies' = copies - Queued(arp_table[i]) + 1
                  \/ /\ arp_table' = [arp_table EXCEPT ![i] =
                                        [Found(i, ip) EXCEPT !.state = "PENDING"]]
                     /\ copies' = copies - Queued(arp_table[i]) + Queued(Found(i, ip))
               /\ wire' = {}
               /\ UNCHANGED etharp_cached_entry
  BY Zenon DEF etharp_query
<1> DEFINE f == Found(i, ip)
<1>2. i \in Slot /\ (i \in Match(ip) \/ Match(ip) = {}) BY FindEntry, ZenonT(60)
<1>3. f \in Entry /\ EntryOK(f, heard) /\ f.ipaddr = ip /\ f.ctime < ARP_MAXAGE
  BY <1>2, FoundEntry
<1>4. heard' = heard /\ heard \in [Host -> Mac \cup {Any}] BY DEF Rest
<1>5. ASSUME NEW e \in Entry, e.ipaddr = ip, EntryOK(e, heard), arp_table' = [arp_table EXCEPT ![i] = e]
      PROVE  Table'
  <2>1. EntryOK(e, heard') /\ heard' \in [Host -> Mac \cup {Any}] /\ \A k \in Host : k # ip => heard'[k] = heard[k]
    BY <1>4, <1>5
  <2> QED BY <1>5, <2>1, StoreEntry, ZenonT(60)
<1> HIDE DEF f
<1>6. CASE f.state = "STABLE"
  <2>1. /\ arp_table' = [arp_table EXCEPT ![i] = f] /\ etharp_cached_entry' = i
        /\ wire' = {[hop |-> ip, dest |-> f.ethaddr]} /\ copies' = copies
    BY <1>1, <1>6 DEF f
  <2>2. Table' BY <1>3, <1>5, <2>1, ZenonT(60)
  <2>3. Rest' BY <1>2, <2>1, <1>4 DEF Rest
  <2>4. Wire' BY <1>3, <1>4, <1>6, <2>1 DEF Wire, RightHost, EntryOK
  <2> QED BY <2>2, <2>3, <2>4
<1>7. CASE f.state # "STABLE"
  <2>1. etharp_cached_entry' = etharp_cached_entry /\ wire' = {} BY <1>1, <1>7 DEF f
  <2>2. Wire' BY <2>1 DEF Wire, RightHost
  <2>3. Queued(arp_table[i]) \in Int /\ Queued(f) \in Int BY DEF Queued
  <2>4. CASE /\ arp_table' = [arp_table EXCEPT ![i] = [f EXCEPT !.state = "PENDING", !.q = ip]]
             /\ copies' = copies - Queued(arp_table[i]) + 1
    <3> DEFINE e == [f EXCEPT !.state = "PENDING", !.q = ip]
    <3>1. e \in Entry BY <1>3, ZenonT(60) DEF Entry, EntryState
    <3>2. e.state = "PENDING" /\ e.q = ip /\ e.ipaddr = ip /\ e.ctime = f.ctime BY <1>3 DEF Entry
    <3>3. arp_table' = [arp_table EXCEPT ![i] = e] BY <2>4
    <3> HIDE DEF e
    <3>4. EntryOK(e, heard) BY <1>3, <3>2 DEF EntryOK
    <3>5. Table' BY <3>1, <3>2, <3>3, <3>4, <1>5, ZenonT(60)
    <3>6. copies' \in Int BY <2>3, <2>4 DEF Rest
    <3>7. Rest' BY <3>6, <2>1, <1>4 DEF Rest
    <3> QED BY <2>2, <3>5, <3>7
  <2>5. CASE /\ arp_table' = [arp_table EXCEPT ![i] = [f EXCEPT !.state = "PENDING"]]
             /\ copies' = copies - Queued(arp_table[i]) + Queued(f)
    <3> DEFINE e == [f EXCEPT !.state = "PENDING"]
    <3>1. e \in Entry BY <1>3 DEF Entry, EntryState
    <3>2. e.state = "PENDING" /\ e.q = f.q /\ e.ipaddr = ip /\ e.ctime = f.ctime BY <1>3 DEF Entry
    <3>3. arp_table' = [arp_table EXCEPT ![i] = e] BY <2>5
    <3> HIDE DEF e
    <3>4. EntryOK(e, heard) BY <1>3, <3>2 DEF EntryOK
    <3>5. Table' BY <3>1, <3>2, <3>3, <3>4, <1>5, ZenonT(60)
    <3>6. copies' \in Int BY <2>3, <2>5 DEF Rest
    <3>7. Rest' BY <3>6, <2>1, <1>4 DEF Rest
    <3> QED BY <2>2, <3>5, <3>7
  <2> QED BY <1>1, <1>7, <2>4, <2>5 DEF f
<1> QED BY <1>6, <1>7

\* etharp_output to a next hop: the cached entry is used only for its own address.
LEMMA OutputInv ==
  ASSUME IInv, NEW ip \in Host, output_hop(ip), UNCHANGED <<configured, gw, heard>>
  PROVE  IInv'
<1>1. CASE CacheHit(ip)
  <2> DEFINE c == arp_table[etharp_cached_entry]
  <2>1. wire' = {[hop |-> ip, dest |-> c.ethaddr]} /\ UNCHANGED <<arp_table, etharp_cached_entry, copies>>
    BY <1>1 DEF output_hop
  <2>2. EntryOK(c, heard) /\ c.state = "STABLE" /\ c.ipaddr = ip
    BY <1>1 DEF CacheHit, IInv, Table, Rest
  <2>3. c.ethaddr = heard[ip] /\ c.ethaddr \in Mac BY <2>2 DEF EntryOK
  <2>4. Wire'
    <3>1. wire' = {[hop |-> ip, dest |-> heard[ip]]} /\ heard[ip] \in Mac /\ heard' = heard
      BY <2>1, <2>3
    <3> QED BY <3>1 DEF Wire, RightHost
  <2>5. Table' BY <2>1 DEF IInv, Table, UniqueIp
  <2>6. Rest' BY <2>1 DEF IInv, Rest
  <2> QED BY <2>4, <2>5, <2>6 DEF IInv
<1>2. CASE ~CacheHit(ip)
  BY <1>2, QueryInv DEF output_hop
<1> QED BY <1>1, <1>2

\* Every step of the cache keeps the invariant.
LEMMA NextInv == IInv /\ [Next]_vars => IInv'
<1> SUFFICES ASSUME IInv, [Next]_vars PROVE IInv' OBVIOUS
<1>1. CASE etharp_tmr BY <1>1, TmrInv
<1>2. ASSUME NEW ip \in Host, NEW mac \in Mac, NEW b \in BOOLEAN, etharp_arp_input(ip, mac, b) PROVE IInv'
  BY <1>2, ArpInputInv
<1>3. CASE ethernet_input_other
  BY <1>3 DEF ethernet_input_other, IInv, Table, Rest, Wire, UniqueIp, RightHost
<1>4. ASSUME NEW ip \in Host, etharp_output_local(ip) PROVE IInv'
  BY <1>4, OutputInv DEF etharp_output_local
<1>5. CASE etharp_output_outside
  <2>1. UNCHANGED <<configured, gw, heard>> BY <1>5 DEF etharp_output_outside
  <2>2. CASE gw # Any
    <3>1. gw \in Host BY <2>2 DEF IInv, Rest
    <3> QED BY <1>5, <2>1, <2>2, <3>1, OutputInv DEF etharp_output_outside
  <2>3. CASE gw = Any
    <3>1. wire' = {} /\ UNCHANGED <<arp_table, etharp_cached_entry, copies>>
      BY <1>5, <2>3 DEF etharp_output_outside
    <3> QED BY <2>1, <3>1 DEF IInv, Table, Rest, Wire, UniqueIp, RightHost
  <2> QED BY <2>2, <2>3
<1>6. ASSUME NEW on \in BOOLEAN, netif_set_addr(on) PROVE IInv'
  <2>1. configured' \in BOOLEAN BY <1>6, Zenon DEF netif_set_addr
  <2>2. gw' \in {Gateway, Any} BY <1>6 DEF netif_set_addr
  <2>3. wire' = {} /\ UNCHANGED <<arp_table, etharp_cached_entry, heard, copies>>
    BY <1>6 DEF netif_set_addr
  <2> QED BY <2>1, <2>2, <2>3 DEF IInv, Table, Rest, Wire, UniqueIp, RightHost
<1>7. CASE UNCHANGED vars
  BY <1>7 DEF vars, IInv, Table, Rest, Wire, UniqueIp, RightHost
<1> QED BY <1>1, <1>2, <1>3, <1>4, <1>5, <1>6, <1>7 DEF Next

-----------------------------------------------------------------------------
(* The inductive invariant holds in every reachable state.                   *)
THEOREM CacheInvariant == Spec => []IInv
BY InitInv, NextInv, PTL DEF Spec

(* Types: the cached index stays inside the table, ages inside a byte when   *)
(* ARP_MAXAGE does.                                                          *)
THEOREM CacheTypes == Spec => []TypeOK
<1>1. IInv => TypeOK BY DEF IInv, Table, Rest, Wire, TypeOK, Entry
<1> QED BY <1>1, CacheInvariant, PTL

(* find_entry never makes a second entry for an address.                     *)
THEOREM OneEntryEach == Spec => []UniqueIp
<1>1. IInv => UniqueIp BY DEF IInv, Table
<1> QED BY <1>1, CacheInvariant, PTL

(* Packets wait only on pending entries, on the one of their next hop.       *)
THEOREM QueuedWhereDue == Spec => []QueueOnPending
<1>1. IInv => QueueOnPending BY DEF IInv, Table, EntryOK, QueueOnPending
<1> QED BY <1>1, CacheInvariant, PTL

(* No packet is sent to an Ethernet address other than the one its next hop  *)
(* claimed last.                                                             *)
THEOREM NeverWrongHost == Spec => []RightHost
<1>1. IInv => RightHost BY DEF IInv, Wire
<1> QED BY <1>1, CacheInvariant, PTL
=============================================================================
