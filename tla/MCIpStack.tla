----------------------------- MODULE MCIpStack -----------------------------
(***************************************************************************)
(* Instance of IpStack: two interfaces, each with an address on two        *)
(* networks, addresses of two components.                                  *)
(***************************************************************************)
EXTENDS SnmpAgent

MCNames == {1, 2}
Cfg(ip, mask, gw) == [ip |-> ip, mask |-> mask, gw |-> gw]
MCAddrs == [n \in MCNames |-> {Cfg(<<0, 0>>, <<0, 0>>, <<0, 0>>), Cfg(<<1, n>>, <<1, 0>>, <<1, 9>>),
                               Cfg(<<2, n>>, <<1, 0>>, <<2, 9>>)}]
MCNeighbours == {<<1, 7>>}
MCBindIps == {<<0, 0>>, <<1, 1>>, <<2, 2>>}
MCPorts == {7}
Pk(src, dest, proto, ttl, fault, sport, dport) ==
    [src |-> src, dest |-> dest, proto |-> proto, ttl |-> ttl, fault |-> fault, sport |-> sport,
     dport |-> dport]
Peer == <<1, 7>>
MCPackets ==
    [udp |-> {Pk(Peer, <<1, 1>>, "udp", 9, "none", 7, 7),
              Pk(Peer, <<255, 255>>, "udp", 9, "none", 7, 7)},
     ip  |-> {Pk(Peer, <<1, 1>>, "udp", 9, fault, 7, 7) :
                fault \in {"none", "version", "length", "chksum", "fragment", "options", "short", "payload"}}
             \cup {Pk(Peer, dest, proto, 9, "none", 7, 9) :
                      dest \in {<<1, 1>>, <<2, 2>>, <<1, 255>>, <<255, 255>>},
                      proto \in {"udp", "echo", "dur", "other"}}
             \cup {Pk(Peer, <<2, 9>>, proto, ttl, "none", 7, 9) : proto \in {"udp", "er"}, ttl \in {1, 9}}
             \cup {Pk(Peer, <<1, 9>>, "udp", 9, "none", 7, 9), Pk(Peer, <<5, 5>>, "udp", 9, "none", 7, 68),
                   Pk(<<1, 255>>, <<1, 1>>, "udp", 9, "none", 7, 9),
                   Pk(<<1, 1>>, <<1, 1>>, "echo", 9, "payload", 7, 9)}]
MCIfAddrs == <<Cfg(<<1, 1>>, <<1, 0>>, <<1, 9>>), Cfg(<<2, 2>>, <<1, 0>>, <<2, 9>>)>>
Mib(rest) == <<2, 1>> \o rest
MCQueries ==
    {<<>>, <<3>>, Mib(<<1, 7, 0>>), Mib(<<2, 2, 1, 22, 1>>), Mib(<<3, 1, 1, 3, 1, 1, 7>>),
     Mib(<<4, 19, 0>>), Mib(<<4, 20, 1, 5, 2, 2>>), Mib(<<4, 21, 1, 13, 1, 0>>), Mib(<<4, 22, 2>>),
     Mib(<<6, 12, 0>>), Mib(<<11, 30, 0>>)}
MCMaxCalls == [netif |-> 4, lean |-> 4, udp |-> 6, ip |-> 3]
MCMaxSetup == [udp |-> 5, ip |-> 1]
MCLeanPool == [nodes |-> 6, roots |-> 2]


(* The agent: one external object below private, requests of one and two   *)
(* bindings over it and over internal objects.                             *)
MCPrivate == ArrayNode(<<1>>, <<Node("EX", "external", <<[objid |-> 1, nptr |-> NULL]>>)>>)
Vb(name, t, v) == [name |-> prefix \o name, t |-> t, v |-> v]
Nul(name) == Vb(name, "NUL", <<>>)
ExtName == <<4, 1, 1>>
SysContact == Mib(<<1, 4, 0>>)
SysName == Mib(<<1, 5, 0>>)
TrapsOk == Mib(<<11, 30, 0>>)
AdminStatus(ifindex) == Mib(<<2, 2, 1, 7, ifindex>>)
Req(pdu, rid, vbs) == [version |-> 0, community |-> <<33>>, pdu |-> pdu, rid |-> rid,
                       status |-> "NOERROR", index |-> 0, vbs |-> vbs, cut |-> 0]
MCPublic == <<33>>
Good ==
    {Req("GET", 1, <<Nul(SysContact), Nul(ExtName)>>),
     Req("GET", 2, <<Nul(Mib(<<4, 20, 1, 3, 1, 1>>)), Nul(Mib(<<9>>))>>),
     Req("GETNEXT", 3, <<Nul(Mib(<<11, 30, 0>>)), Nul(Mib(<<1, 1>>))>>),
     Req("SET", 4, <<Vb(SysContact, "OC_STR", <<9>>), Vb(ExtName, "INTEG", <<1000>>)>>),
     Req("SET", 5, <<Vb(ExtName, "INTEG", <<5>>), Vb(AdminStatus(2), "INTEG", <<1>>)>>),
     Req("SET", 6, <<Vb(SysName, "OC_STR", <<>>), Vb(TrapsOk, "INTEG", <<40>>)>>),
     Req("SET", 7, <<Vb(TrapsOk, "INTEG", <<1>>), Vb(AdminStatus(1), "INTEG", <<2>>)>>)}
Odd ==
    {Req("GETNEXT", 8, <<Nul(Mib(<<6, 12, 0>>))>>),
     Req("GET", 9, <<>>), Req("RESP", 10, <<>>), Req("TRAP", 11, <<>>),
     [Req("GET", 12, <<>>) EXCEPT !.version = 1],
     [Req("GET", 13, <<>>) EXCEPT !.community = <<34>>],
     [Req("GET", 14, <<>>) EXCEPT !.status = "GENERROR", !.index = 1],
     [Req("GET", 16, <<Nul(SysName)>>) EXCEPT !.cut = 2]}
MCRequests == <<Good, Good \cup Odd, {Req("SET", 15, <<Vb(SysContact, "OC_STR", <<8>>)>>)}>>
MCManagers == {[ip |-> <<1, 7>>, port |-> 60]}
MCTrapDst == <<<<1, 7>>>>
MCExtValue == <<70000>>
MCSlots == {1, 2}
=============================================================================
