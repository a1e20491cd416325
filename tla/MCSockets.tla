----------------------------- MODULE MCSockets -----------------------------
(***************************************************************************)
(* The socket layer for TLC, in three parts of which a behaviour is one:   *)
(* "sockets", the calls and tcpip_thread (module Sockets) in the role of a *)
(* server, a client or a datagram socket; "select", lwip_select against    *)
(* event_callback (module Select); "pbuf", the packet buffers they all     *)
(* pass around (module Pbuf).                                              *)
(***************************************************************************)
EXTENDS Sockets, Select

VARIABLES part, heap, held, edits

App(type, threads, max, does) == [type |-> type, threads |-> threads, max |-> max, calls |-> does]
Roles ==
  [server |-> App("TCP", {1, 2}, 5, {"socket", "listen", "accept", "recv", "close"}),
   client |-> App("TCP", {1}, 5, {"socket", "connect", "send", "recv", "shutdown", "close", "fcntl"}),
   udp    |-> App("UDP", {1}, 5, {"socket", "bind", "send", "recv", "close"})]

MCWants == {{<<0, "read">>}}
MCEvents == {<<0, "RCVPLUS">>, <<0, "RCVMINUS">>}

(* Three blocks; a pool pbuf holds two bytes, so a packet of three takes a  *)
(* chain of two and, with room for a header, its first holds one.           *)
PacketsOf(lt) ==
  IF lt = <<"RAW", "ROM">> THEN {<<>>} ELSE {<<1, 2, 3>>}
B == INSTANCE Pbuf WITH
       Blocks <- {1, 2, 3}, PBUF_POOL_BUFSIZE <- 2, HLEN <- [RAW |-> 0, LINK |-> 1],
       Packets <- [lt \in {<<"RAW", "ROM">>, <<"LINK", "POOL">>} |-> PacketsOf(lt)],
       Needles <- {<<2, 3>>}, MaxLen <- 3, MaxRefs <- 2, MaxEdits <- 1

pbufs == <<heap, held, edits>>

MCInit ==
  /\ part \in {"sockets", "select", "pbuf"}
  /\ Init_Sockets /\ Init_Select /\ B!Init_Pbuf
  /\ part # "sockets" => role = "udp"
MCNext ==
  /\ UNCHANGED part
  /\ \/ part = "sockets" /\ Next_Sockets /\ UNCHANGED <<vars_Select, pbufs>>
     \/ part = "select" /\ Next_Select /\ UNCHANGED <<vars_Sockets, pbufs>>
     \/ part = "pbuf" /\ B!Next_Pbuf /\ UNCHANGED <<vars_Sockets, vars_Select>>
MCSpec ==
  /\ MCInit /\ [][MCNext]_<<part, vars_Sockets, vars_Select, pbufs>>
  /\ Fair_Sockets

-----------------------------------------------------------------------------
(* "The reference counter of a pbuf equals the number of pointers that      *)
(* refer to the pbuf": see Pbuf.                                            *)
RefsCounted == part = "pbuf" => B!RefsCounted

(* tot_len and the bytes read from a chain are those of the packet whatever *)
(* its pieces: see Pbuf.                                                    *)
PacketsWhole == part = "pbuf" => B!PacketsWhole
=============================================================================
