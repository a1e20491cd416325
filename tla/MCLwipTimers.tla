---------------------------- MODULE MCLwipTimers ----------------------------
(* LwipTimers with the intervals scaled down (igmp 100 ms, tcp 250 ms,       *)
(* dhcp fine 500 ms, arp 5 s in the code).                                   *)
EXTENDS LwipTimers

CONSTANTS arp, fine, igmp

MCPeriodic == <<arp, fine, igmp>>
MCInterval == [h \in {arp, fine, igmp, Tcp} |->
                 CASE h = arp -> 5 [] h = fine -> 4 [] h = igmp -> 2 [] h = Tcp -> 3]
=============================================================================
