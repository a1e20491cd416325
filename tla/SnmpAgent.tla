----------------------------- MODULE SnmpAgent -----------------------------
(***************************************************************************)
(* The SNMP agent (core/snmp/msg_in.c, msg_out.c) over the IP stack: the   *)
(* slots of concurrent requests, each the state machine of its GET, GETNEXT *)
(* or SET, suspended while an external agent answers for an object of the  *)
(* private MIB.  Requests come in as UDP datagrams, in any order with the  *)
(* external answers.                                                       *)
(*                                                                         *)
(* A slot is [state, rt, rid, sip, sp, invb, outvb, vb_idx, def, oid,      *)
(* error_status, error_index, asked, wrote]; asked (the bindings as they   *)
(* came) and wrote (objects written) are history.  The operators extend    *)
(* the record s of Udp with slot, varbinds and values (what is left of the *)
(* pools MEMP_SNMP_VARBIND and MEMP_SNMP_VALUE), resp (the responses of    *)
(* this step) and dead (a step never returned).  pb says whether the pbuf  *)
(* of a response is there at once, for the retry, or not at all.           *)
(***************************************************************************)
EXTENDS IpStack, SnmpMsg

CONSTANTS Slots,          \* SNMP_CONCURRENT_REQUESTS
          NumVarbind, NumValue,
          Agent,          \* the PCB of the agent
          SnmpPort, TrapPort,
          TrapDst,        \* sequence of enabled trap destinations
          Requests,       \* the n-th message sent is one of Requests[n]:
                          \* [version, community, pdu, rid, status, index, vbs, cut],
                          \* without its last cut octets
          Managers,       \* set of [ip, port]
          ExtValue,       \* the value of an external object
          Unplug          \* interfaces that may be removed

VARIABLES slot, varbinds, values, resp, dead

agentvars == <<slot, varbinds, values, resp, dead>>
AgentStack == UdpStack @@ [slot |-> slot, varbinds |-> varbinds, values |-> values,
                           resp |-> <<>>, dead |-> dead]

NoRequest ==
    [state |-> "EMPTY", rt |-> "none", rid |-> 0, sip |-> ANY, sp |-> 0, invb |-> <<>>, outvb |-> <<>>,
     vb_idx |-> 0, def |-> NoObject, oid |-> <<>>, error_status |-> "NOERROR", error_index |-> 0,
     asked |-> <<>>, wrote |-> 0]
Snmpstat(s, id) == [s EXCEPT !.mib = snmp_inc(@, "snmp", id)]

-----------------------------------------------------------------------------
(* Variable bindings: one VARBIND, a VALUE for the name and one for the    *)
(* value unless they are empty.                                            *)
One(x) == IF x = <<>> THEN 0 ELSE 1
Values(vbs) == FoldLeft(LAMBDA n, vb : n + One(vb.name) + One(vb.v), 0, vbs)
CanAlloc(s, nvb, nval) == s.varbinds >= nvb /\ s.values >= nval
snmp_varbind_alloc(s, nvb, nval) == [s EXCEPT !.varbinds = @ - nvb, !.values = @ - nval]
snmp_varbind_list_free(s, vbs) == [s EXCEPT !.varbinds = @ + Len(vbs), !.values = @ + Values(vbs)]

-----------------------------------------------------------------------------
(* Responses and traps.                                                    *)
OutCounter(status) ==
    CASE status = "TOOBIG" -> 20 [] status = "NOSUCHNAME" -> 21 [] status = "BADVALUE" -> 22
      [] status = "GENERROR" -> 24 [] OTHER -> 28
CountOut(s, status) ==
    Snmpstat(Snmpstat(IF status = "NOERROR" THEN s ELSE Snmpstat(s, OutCounter(status)), 28), 2)
SendFor(s, r) ==
    udp_disconnect(udp_send(udp_connect(s, Agent, r.sip, r.sp), Agent, 2), Agent)
(* A response with status and index; the lengths count the bindings in     *)
(* counted, the octets are those of vbs.                                   *)
Respond(s, r, status, index, vbs, counted) ==
    SendFor(CountOut([s EXCEPT !.resp =
                        Append(@, [rid |-> r.rid, status |-> status, index |-> index, vbs |-> vbs,
                                   counted |-> counted, rt |-> r.rt, asked |-> r.asked, wrote |-> r.wrote,
                                   sip |-> r.sip, sp |-> r.sp])], status), r)
snmp_send_response(s, r, pb) ==
    CASE pb = "none"  -> s
      [] pb = "retry" -> Respond(s, r, "TOOBIG", 0, <<>>, <<>>)
      [] OTHER -> Respond(s, r, r.error_status, r.error_index,
                          IF r.error_status = "TOOBIG" THEN <<>> ELSE r.outvb, r.outvb)

Emptied(s, i) == [s EXCEPT !.slot[i] = NoRequest]
FreeBoth(s, r) == snmp_varbind_list_free(snmp_varbind_list_free(s, r.invb), r.outvb)
Echoed_0(r, error) == [r EXCEPT !.outvb = r.invb, !.invb = <<>>, !.error_status = error,
                              !.error_index = r.vb_idx]
Echoed(r, error) == [r EXCEPT !.outvb = r.invb, !.invb = <<>>, !.error_status = error,
                             !.error_index = 1 + r.vb_idx]
snmp_error_response(s, i, error, pb) ==
    Emptied(FreeBoth(snmp_send_response(s, Echoed(s.slot[i], error), pb), s.slot[i]), i)
snmp_ok_response(s, i, pb) == Emptied(FreeBoth(snmp_send_response(s, s.slot[i], pb), s.slot[i]), i)

(* A trap to every destination while there are pbufs; without a route the  *)
(* code follows a NULL interface.                                          *)
SendTrap(s, dst, k) ==
    IF k = 0 THEN [s EXCEPT !.dead = TRUE]
    ELSE udp_sendto(Snmpstat(Snmpstat(s, 29), 2), Agent, dst, TrapPort, 2)
RECURSIVE snmp_send_trap(_, _, _)
snmp_send_trap(s, dsts, pb) ==
    IF dsts = <<>> \/ pb = "none" \/ s.dead THEN s
    ELSE snmp_send_trap(SendTrap(s, Head(dsts), ip_route(s, Head(dsts))), Tail(dsts), pb)
snmp_authfail_trap(s, pb) == IF s.mib.trapsok = 1 THEN snmp_send_trap(s, TrapDst, pb) ELSE s

-----------------------------------------------------------------------------
(* GET.  The name moves from the request to the response.                  *)
Slot(s, i, r) == [s EXCEPT !.slot[i] = r]
InState(s, i, state) == [s EXCEPT !.slot[i].state = state]
Name(r) == r.invb[r.vb_idx + 1].name
Below4(name) == IF Len(name) > 3 THEN SubSeq(name, 5, Len(name)) ELSE <<>>
Found_(s, name) == IF snmp_iso_prefix_tst(name) THEN snmp_search_tree(internet(s.mib), Below4(name)) ELSE NoNode

Answered_stuck(r, name, t, v) ==
    [r EXCEPT !.outvb = Append(@, [name |-> name, t |-> t, v |-> v]), !.state = "GET_VALUE",
              !.vb_idx = @ + 1]
Answered(r, name, t, v) ==
    [r EXCEPT !.outvb = Append(@, [name |-> name, t |-> t, v |-> v]), !.state = "SEARCH_OBJ",
              !.vb_idx = @ + 1]
GetValue(s, i, r, t, v, pb) ==
    IF CanAlloc(s, 1, One(v))
    THEN Slot(snmp_varbind_alloc(s, 1, One(v)), i,
              [Answered(r, Name(r), t, v) EXCEPT !.invb[r.vb_idx + 1].name = <<>>])
    ELSE snmp_error_response(s, i, "TOOBIG", pb)
GetInternal(s, i, r, group, def, pb) ==
    IF def = NoObject THEN snmp_error_response(s, i, "NOSUCHNAME", pb)
    ELSE GetValue(s, i, r, def.t, get_value(s, group, Name(r)), pb)
GetFound(s, i, r, f, pb) ==
    CASE f.node = NULL -> snmp_error_response(s, i, "NOSUCHNAME", pb)
      [] f.node.kind = "EX" -> InState(s, i, "EXT_OBJDEF")
      [] OTHER -> GetInternal(s, i, r, f.node.group, get_object_def(f.node.group, Name(r), f.rest), pb)
RECURSIVE GetOn(_, _, _)
GetLoop(s, i, r, pb) ==
    IF r.state # "SEARCH_OBJ" THEN s
    ELSE IF r.vb_idx = Len(r.invb) THEN snmp_ok_response(s, i, pb)
    ELSE GetOn(GetFound(s, i, r, Found_(s, Name(r)), pb), i, pb)
GetOn(s, i, pb) == GetLoop(s, i, s.slot[i], pb)
(* The external answers: the object (a: "none", "ro" or "rw"), its value.  *)
ExtDef(a) == [t |-> "INTEG", rw |-> a = "rw"]
GetExternal(s, i, r, a, pb) ==
    CASE r.state = "EXT_OBJDEF" /\ a = "none" -> snmp_error_response(s, i, "NOSUCHNAME", pb)
      [] r.state = "EXT_OBJDEF" /\ a # "none" -> InState(s, i, "EXT_VALUE")
      [] r.state = "EXT_VALUE" -> GetValue(s, i, r, "INTEG", ExtValue, pb)
      [] OTHER -> s
snmp_msg_get_event(s, i, a, pb) ==
    GetOn(GetExternal(s, i, s.slot[i], a, pb), i, pb)

-----------------------------------------------------------------------------
(* GETNEXT.                                                                *)
NextValue(s, i, r, oid, t, v, pb) ==
    IF CanAlloc(s, 1, One(oid) + One(v))
    THEN Slot(snmp_varbind_alloc(s, 1, One(oid) + One(v)), i, Answered(r, oid, t, v))
    ELSE snmp_error_response(s, i, "TOOBIG", pb)
NextInternal(s, i, r, group, oid, def, pb) ==
    IF def = NoObject THEN NextValue(s, i, r, oid, "NUL", <<>>, pb)
    ELSE NextValue(s, i, r, oid, def.t, get_value(s, group, oid), pb)
NextFound(s, i, r, f, pb) ==
    CASE f.node = NULL -> snmp_error_response(s, i, "NOSUCHNAME", pb)
      [] f.node.kind = "EX" -> Slot(s, i, [r EXCEPT !.state = "EXT_OBJDEF", !.oid = f.oid])
      [] OTHER -> NextInternal(s, i, r, f.node.group, f.oid,
                               get_object_def(f.node.group, f.oid, <<Last(f.oid)>>), pb)
NextOf(s, name) ==
    IF snmp_iso_prefix_expand(name) THEN snmp_expand_tree(internet(s.mib), Below4(name), prefix) ELSE NoOid
RECURSIVE GetnextOn(_, _, _)
GetnextLoop(s, i, r, pb) ==
    IF r.state # "SEARCH_OBJ" THEN s
    ELSE IF r.vb_idx = Len(r.invb) THEN snmp_ok_response(s, i, pb)
    ELSE GetnextOn(NextFound(s, i, r, NextOf(s, Name(r)), pb), i, pb)
GetnextOn(s, i, pb) == GetnextLoop(s, i, s.slot[i], pb)
GetnextExternal(s, i, r, a, pb) ==
    CASE r.state = "EXT_OBJDEF" /\ a = "none" -> snmp_error_response(s, i, "NOSUCHNAME", pb)
      [] r.state = "EXT_OBJDEF" /\ a # "none" -> InState(s, i, "EXT_VALUE")
      [] r.state = "EXT_VALUE" -> NextValue(s, i, r, r.oid, "INTEG", ExtValue, pb)
      [] OTHER -> s
snmp_msg_getnext_event(s, i, a, pb) ==
    GetnextOn(GetnextExternal(s, i, s.slot[i], a, pb), i, pb)

-----------------------------------------------------------------------------
(* SET: all values are tested, then all are written.  An object that is    *)
(* gone when it is its turn to be written ends the loop never: vb_idx does *)
(* not advance.                                                            *)
Tested(r) == [r EXCEPT !.state = "SEARCH_OBJ", !.vb_idx = @ + 1]
Written(r) == [r EXCEPT !.state = "SET_VALUE", !.vb_idx = @ + 1, !.wrote = @ + 1]
Test(s, i, r, def, passes, pb) ==
    IF ~ def.rw THEN snmp_error_response(s, i, "NOSUCHNAME", pb)
    ELSE IF def.t = r.invb[r.vb_idx + 1].t /\ passes THEN Slot(s, i, Tested(r))
    ELSE snmp_error_response(s, i, "BADVALUE", pb)
TestInternal(s, i, r, group, def, pb) ==
    IF def = NoObject THEN snmp_error_response(s, i, "NOSUCHNAME", pb)
    ELSE Test(s, i, r, def, def.t = r.invb[r.vb_idx + 1].t
                            /\ set_test(group, Name(r), r.invb[r.vb_idx + 1].v), pb)
TestFound(s, i, r, f, pb) ==
    CASE f.node = NULL -> snmp_error_response(s, i, "NOSUCHNAME", pb)
      [] f.node.kind = "EX" -> InState(s, i, "EXT_OBJDEF")
      [] OTHER -> TestInternal(s, i, r, f.node.group, get_object_def(f.node.group, Name(r), f.rest), pb)
set_value(s, group, name, v) ==
    CASE group = "system" -> [s EXCEPT !.mib = system_set_value(@, name[Len(name) - 1], v)]
      [] group = "snmp" -> [s EXCEPT !.mib = snmp_set_value(@, v)]
      [] group = "ifentry" -> IF v[1] = 1 THEN netif_set_up(s, Last(name)) ELSE netif_set_down(s, Last(name))
      [] OTHER -> s
WriteFound(s, i, r, f, pb) ==
    CASE f.node = NULL -> [s EXCEPT !.dead = TRUE]
      [] f.node.kind = "EX" -> InState(s, i, "EXT_OBJDEF_S")
      [] OTHER -> Slot(set_value(s, f.node.group, Name(r), r.invb[r.vb_idx + 1].v), i, Written(r))
SetStep(s, i, r, pb) ==
    CASE r.state = "SEARCH_OBJ" /\ r.vb_idx < Len(r.invb) -> TestFound(s, i, r, Found_(s, Name(r)), pb)
      [] r.state = "SEARCH_OBJ" /\ r.vb_idx = Len(r.invb) ->
            Slot(s, i, [r EXCEPT !.vb_idx = 0, !.state = "SET_VALUE"])
      [] r.state = "SET_VALUE" /\ r.vb_idx < Len(r.invb) -> WriteFound(s, i, r, Found_(s, Name(r)), pb)
      [] OTHER -> snmp_ok_response(Slot(s, i, [r EXCEPT !.outvb = r.invb, !.invb = <<>>]), i, pb)
RECURSIVE SetOn(_, _, _)
SetLoop(s, i, r, pb) ==
    IF s.dead \/ r.state \notin {"SEARCH_OBJ", "SET_VALUE"} THEN s
    ELSE SetOn(SetStep(s, i, r, pb), i, pb)
SetOn(s, i, pb) == SetLoop(s, i, s.slot[i], pb)
SetExternal(s, i, r, a, ok, pb) ==
    CASE r.state = "EXT_OBJDEF" /\ a = "none" -> snmp_error_response(s, i, "NOSUCHNAME", pb)
      [] r.state = "EXT_OBJDEF" /\ a # "none" -> Slot(s, i, [r EXCEPT !.state = "EXT_TEST", !.def = ExtDef(a)])
      [] r.state = "EXT_TEST" -> Test(s, i, r, r.def, ok, pb)
      [] r.state = "EXT_OBJDEF_S" /\ a = "none" -> snmp_error_response(s, i, "GENERROR", pb)
      [] r.state = "EXT_OBJDEF_S" /\ a # "none" -> InState(s, i, "EXT_SET")
      [] r.state = "EXT_SET" -> Slot(s, i, Written(r))
      [] OTHER -> s
snmp_msg_set_event(s, i, a, ok, pb) ==
    SetOn(SetExternal(s, i, s.slot[i], a, ok, pb), i, pb)

snmp_msg_event(s, i, a, ok, pb) ==
    CASE s.slot[i].rt = "GET" -> snmp_msg_get_event(s, i, a, pb)
      [] s.slot[i].rt = "GETNEXT" -> snmp_msg_getnext_event(s, i, a, pb)
      [] s.slot[i].rt = "SET" -> snmp_msg_set_event(s, i, a, ok, pb)
      [] OTHER -> s

-----------------------------------------------------------------------------
(* Input: the first free slot, if any, decodes the message.                *)
InCounter(hdr) ==
    CASE hdr.err = "parse" -> 6 [] hdr.err = "version" -> 3 [] hdr.err = "community" -> 4
      [] hdr.err = "response" -> 18 [] OTHER -> 19
CountHeader(s, hdr) ==
    LET kinds == (IF hdr.err = "none" THEN {} ELSE {InCounter(hdr)})
                 \cup (IF hdr.rt = "none" THEN {} ELSE {[GET |-> 15, GETNEXT |-> 16, SET |-> 17][hdr.rt]})
                 \cup (IF hdr.status \in 1..5 THEN {7 + hdr.status} ELSE {})
    IN  FoldSet(LAMBDA id, a : Snmpstat(a, id), s, kinds)
Checked_(s, hdr, pb) ==
    IF hdr.err = "community" THEN snmp_authfail_trap(CountHeader(s, hdr), pb) ELSE CountHeader(s, hdr)

Accept(s, i, hdr, vbs, src, port, pb) ==
    snmp_msg_event(Slot(snmp_varbind_alloc(s, Len(vbs), Values(vbs)), i,
                        [NoRequest EXCEPT !.state = "SEARCH_OBJ", !.rt = hdr.rt, !.rid = hdr.rid,
                                          !.sip = src, !.sp = port, !.invb = vbs, !.asked = vbs]),
                   i, "none", FALSE, pb)
TotalVars(s, hdr, n) == [s EXCEPT !.mib = snmp_add(@, "snmp", IF hdr.rt = "SET" THEN 14 ELSE 13, n)]
Listed(s, i, hdr, list, src, port, pb) ==
    IF ~ list.ok \/ ~ CanAlloc(s, Len(list.vbs), Values(list.vbs)) THEN Snmpstat(s, 6)
    ELSE IF list.vbs = <<>> THEN s
    ELSE Accept(TotalVars(s, hdr, Len(list.vbs)), i, hdr, list.vbs, src, port, pb)
Headed(s, i, hdr, src, port, octets, pb) ==
    IF hdr.err = "none" /\ hdr.status = 0 /\ hdr.index = 0
    THEN Listed(Checked_(s, hdr, pb), i, hdr, snmp_pdu_dec_varbindlist(octets, hdr.ofs), src, port, pb)
    ELSE Checked_(s, hdr, pb)
FreeSlot(s) == FirstOf({i \in Slots : s.slot[i].state = "EMPTY"})
snmp_recv(s, src, port, octets, pb) ==
    IF FreeSlot(s) = 0 THEN s
    ELSE Headed(Snmpstat(s, 1), FreeSlot(s), snmp_pdu_header_check(octets), src, port, octets, pb)
Delivered(s, src, port, octets, pb) == IF s.got = {} THEN s ELSE snmp_recv(s, src, port, octets, pb)

-----------------------------------------------------------------------------
(* Behaviours.                                                             *)
AgentBecomes(s) ==
    /\ Becomes(s)
    /\ slot' = s.slot /\ varbinds' = s.varbinds /\ values' = s.values /\ resp' = s.resp /\ dead' = s.dead
Pbufs == {"ok", "retry", "none"}
Shortened(os, cut) == SubSeq(os, 1, Len(os) - cut)
Wire(q) == Shortened(Message(q.version, q.community, q.pdu, q, q.vbs), q.cut)
(* Requests come in at the default interface.                              *)
Inward == PlaceOf(netif_default)
To(m) == [src |-> m.ip, dest |-> netif_list[Inward].ip_addr, proto |-> "udp", ttl |-> MaxTtl,
          fault |-> "none", sport |-> m.port, dport |-> SnmpPort]
Request(q, m, pb) ==
    /\ netif_list[Inward].up
    /\ calls' = calls + 1
    /\ AgentBecomes(Delivered(Input(AgentStack, Inward, To(m), 2), m.ip, m.port,
                              Wire(q), pb))
Waiting(i) == slot[i].state \in {"EXT_OBJDEF", "EXT_VALUE", "EXT_TEST", "EXT_OBJDEF_S", "EXT_SET"}
External(i) ==
    /\ Waiting(i)
    /\ \E a \in IF slot[i].state \in {"EXT_OBJDEF", "EXT_OBJDEF_S"} THEN {"none", "ro", "rw"} ELSE {"rw"},
          ok \in IF slot[i].state = "EXT_TEST" THEN BOOLEAN ELSE {TRUE}, pb \in Pbufs :
          AgentBecomes(snmp_msg_event(AgentStack, i, a, ok, pb))
    /\ UNCHANGED calls
Unplugged(name) ==
    /\ PlaceOf(name) # 0
    /\ AgentBecomes(netif_remove(AgentStack, PlaceOf(name)))
    /\ UNCHANGED calls

AgentNext ==
    /\ ~ dead /\ UNCHANGED part
    /\ \/ calls < Len(Requests) /\ \E q \in Requests[calls + 1], m \in Managers, pb \in Pbufs : Request(q, m, pb)
       \/ \E i \in Slots : External(i)
       \/ \E name \in Unplug : Unplugged(name)

(* snmp_init: the agent's PCB bound, all slots empty, a cold start trap    *)
(* (no destination is enabled yet).                                        *)
snmp_init(s) == udp_bind(udp_recv(udp_new(s, Agent), Agent), Agent, ANY, SnmpPort)
NoneAsked ==
    /\ slot = [i \in Slots |-> NoRequest] /\ varbinds = NumVarbind /\ values = NumValue
    /\ resp = <<>> /\ dead = FALSE
AgentInit ==
    /\ part = "agent" /\ arp_table = {} /\ udp_idle = {} /\ sent = <<>> /\ got = {} /\ calls = 0
    /\ \E s \in {snmp_init(Configured)} :
          netif_list = s.list /\ netif_default = s.dflt /\ mib = s.mib /\ udp_pcbs = s.pcbs
AllInit == NoneAsked /\ (StackInit \/ AgentInit)
AllNext ==
    \/ part # "agent" /\ StackNext /\ UNCHANGED agentvars
    \/ part = "agent" /\ AgentNext
allvars == <<stackvars, agentvars>>
AllSpec == AllInit /\ [][AllNext]_allvars
(* An external agent answers every question it is asked.                   *)
FairSpec == AllSpec /\ \A i \in Slots : []<>~ Waiting(i) \/ []<><<External(i)>>_allvars

-----------------------------------------------------------------------------
(* Properties.                                                             *)

(* Every VARBIND and VALUE of the pools is free or in a list of a slot     *)
(* that serves a request, whatever failed on the way: names moved from the *)
(* request to the response, allocation that stopped half way, the error    *)
(* response that echoes the request.                                       *)
VarbindsConserved ==
    /\ varbinds + FoldSet(LAMBDA i, n : n + Len(slot[i].invb) + Len(slot[i].outvb), 0, Slots) = NumVarbind
    /\ values + FoldSet(LAMBDA i, n : n + Values(slot[i].invb) + Values(slot[i].outvb), 0, Slots) = NumValue

(* What is taken from a pool is given back: the nodes and roots of the      *)
(* index trees, the bindings and values of the requests.                   *)
PoolsConserved == NodesConserved /\ VarbindsConserved

(* A response answers a request as it was sent, although it was decoded    *)
(* from octets and served in pieces: without an error a GET returns the    *)
(* names asked for in order, a GETNEXT names behind them, a SET its        *)
(* bindings; an error points at a binding and echoes it and those behind.  *)
AnswerFits ==
    \A n \in DOMAIN resp :
        LET r == resp[n]
        IN  /\ \E k \in DOMAIN Requests : \E q \in Requests[k] : q.vbs = r.asked /\ q.pdu = r.rt /\ q.rid = r.rid
            /\ r.status = "NOERROR" =>
                 /\ Len(r.vbs) = Len(r.asked)
                 /\ \A j \in DOMAIN r.vbs : CASE r.rt = "GET" -> r.vbs[j].name = r.asked[j].name
                                              [] r.rt = "SET" -> r.vbs[j] = r.asked[j]
                                              [] OTHER -> Below(r.asked[j].name, r.vbs[j].name)
            /\ r.status \in {"NOSUCHNAME", "BADVALUE", "GENERROR"} =>
                 /\ r.index \in DOMAIN r.asked
                 /\ \A j \in r.index..Len(r.asked) : r.vbs[j] = r.asked[j]

(* The octets of a response are its ASN.1 encoding: the lengths of pass 0  *)
(* are those of what pass 1 writes.  A tooBig for want of varbinds counts  *)
(* the request it does not encode, and is left out.                        *)
Octets_(r) == Encode(r, snmp_resp_header_sum(r, snmp_varbind_list_sum(r.counted)), r.vbs)
ResponseEncoded ==
    \A n \in DOMAIN resp :
        resp[n].counted = resp[n].vbs => Octets_(resp[n]) = Message(0, public, "RESP", resp[n], resp[n].vbs)


(* Every request a slot was taken for gives the slot back, once the        *)
(* external answers are there and unless a SET never ends (StillAvailable).*)
Served == \A i \in Slots : slot[i].state # "EMPTY" ~> (slot[i].state = "EMPTY" \/ dead)

(* A SET ends also when an object is gone once it is written ("check if    *)
(* object is still available"): no step of the agent is one that never     *)
(* returns.                                                                *)
StillAvailable == ~ dead

(* Every response is its ASN.1 encoding, that of an empty list for tooBig  *)
(* ("recalculate lengths, for empty varbind-list").                        *)
EmptyListCounted ==
    \A n \in DOMAIN resp : Octets_(resp[n]) = Message(0, public, "RESP", resp[n], resp[n].vbs)

=============================================================================
