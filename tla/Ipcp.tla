-------------------------------- MODULE Ipcp -------------------------------
(* netif/ppp/ipcp.c: the options of the IP Control Protocol.                *)
(*                                                                          *)
(* An option set (ipcp_options) is [neg, our, his, old, vj, dns]: the       *)
(* neg_addr, neg_vj and req_dnsN bits as the set neg, old_addrs and old_vj  *)
(* as the set old, vj the pair <<maxslotindex, cflag>>, dns the two server  *)
(* addresses.  Addresses are small numbers, 0 is 0.0.0.0.                   *)
EXTENDS PppBase

CONSTANTS MAX_SLOTS    \* VJ connection slots

(* CI_ADDRS is the deprecated option with both addresses. *)
IpcpOrder == <<"addrs", "addr", "vj", "dns1", "dns2">>

NoIpcpOptions ==
  [neg |-> {}, our |-> 0, his |-> 0, old |-> {}, vj |-> <<0, 0>>, dns |-> <<0, 0>>]

(* ipcp_init, for an end that knows its own address, the peer's, the name   *)
(* servers to hand out (0: it does not), and has this many slots.           *)
ipcp_init(our, his, dns, slots) ==
  [wo |-> [NoIpcpOptions EXCEPT !.neg = {"addr", "vj"}, !.our = our,
                                !.his = his, !.vj = <<MAX_SLOTS - 1, 0>>],
   ao |-> [NoIpcpOptions EXCEPT !.neg = {"addr", "vj"},
                                !.vj = <<slots - 1, 1>>, !.dns = dns],
   go |-> NoIpcpOptions, ho |-> NoIpcpOptions,
   req_addr |-> FALSE, cis_received |-> FALSE]

AcceptLocal(o)  == o.wo.our = 0
AcceptRemote(o) == o.wo.his = 0

(* usepeerdns is set by pppInit. *)
ipcp_resetci(o) ==
  [o EXCEPT !.req_addr = "addr" \in o.wo.neg \intersect o.ao.neg,
            !.go = [o.wo EXCEPT !.neg = @ \union {"dns1", "dns2"}],
            !.cis_received = FALSE]

(* ipcp_cilen falls back to the old form of an option we want and have had  *)
(* rejected: for VJ only if the peer used the old form himself.             *)
OldAddrs(o) ==
  IF "addr" \in o.wo.neg \ (o.go.neg \union o.go.old)
    THEN [o EXCEPT !.go.neg = @ \union {"addr"}, !.go.old = @ \union {"addr"}] ELSE o
OldVj(o) ==
  IF "vj" \notin o.wo.neg \ (o.go.neg \union o.go.old) THEN o
  ELSE IF ~o.cis_received THEN [o EXCEPT !.go.neg = @ \union {"vj"}]
  ELSE IF "vj" \in o.ho.neg \intersect o.ho.old
    THEN [o EXCEPT !.go.neg = @ \union {"vj"}, !.go.old = @ \union {"vj"}] ELSE o
ipcp_cilen(o) == OldVj(OldAddrs(o))

IpcpSent(go) ==
  (go.neg \ {"addr"})
    \union (IF "addr" \notin go.neg THEN {}
            ELSE IF "addr" \in go.old THEN {"addrs"} ELSE {"addr"})

IpcpValue(go, t) ==
  CASE t = "addrs" -> <<go.our, go.his>>
    [] t = "addr" -> go.our
    [] t = "vj" -> IF "vj" \in go.old THEN <<>> ELSE go.vj
    [] t = "dns1" -> go.dns[1]
    [] t = "dns2" -> go.dns[2]

ipcp_addci(go) ==
  LET sent == SelectSeq(IpcpOrder, LAMBDA t : t \in IpcpSent(go))
  IN  [i \in DOMAIN sent |-> [t |-> sent[i], v |-> IpcpValue(go, sent[i])]]

ipcp_ackci(go, p) == p = ipcp_addci(go)

-----------------------------------------------------------------------------
(* Our address after a Nak that suggests a: taken only if we had none of    *)
(* our own to begin with.                                                   *)
TakeOur(o, a) == IF AcceptLocal(o) /\ a # 0 THEN a ELSE o.go.our
TakeHis(o, a) == IF AcceptRemote(o) /\ a # 0 THEN a ELSE o.go.his

TryVj(go, v) ==
  IF v = <<>> THEN go.vj
  ELSE <<IF v[1] < go.vj[1] THEN v[1] ELSE go.vj[1], IF v[2] = 0 THEN 0 ELSE go.vj[2]>>

(* "try" after a Nak, requested options and the address options the peer    *)
(* wants us to add.                                                         *)
TryAddr(o, p) ==
  IF "addrs" \in Types(p)
    THEN [o.go EXCEPT !.our = TakeOur(o, Value(p, "addrs")[1]),
                      !.his = TakeHis(o, Value(p, "addrs")[2]),
                      !.neg = @ \union {"addr"}, !.old = @ \union {"addr"}]
  ELSE IF "addr" \in Types(p)
    THEN [o.go EXCEPT !.our = TakeOur(o, Value(p, "addr")), !.old = @ \ {"addr"},
                      !.neg = IF TakeOur(o, Value(p, "addr")) # 0
                                THEN @ \union {"addr"} ELSE @]
  ELSE o.go

IpcpTry(try, p) ==
  [try EXCEPT
     !.vj  = IF "vj" \in Types(p) \intersect try.neg THEN TryVj(try, Value(p, "vj")) ELSE @,
     !.old = IF "vj" \notin Types(p) \intersect try.neg THEN @
             ELSE IF Value(p, "vj") = <<>> THEN @ \union {"vj"} ELSE @ \ {"vj"},
     !.dns = <<IF "dns1" \in Types(p) \intersect try.neg THEN Value(p, "dns1") ELSE @[1],
               IF "dns2" \in Types(p) \intersect try.neg THEN Value(p, "dns2") ELSE @[2]>>]

IpcpNakGood(go, p) ==
  /\ GoodNak(p, IpcpOrder, IpcpSent(go))
  /\ ~("addr" \in Types(p) /\ "addrs" \in IpcpSent(go))

ipcp_nakci(f, p) ==
  IF f.state = "OPENED" THEN f
  ELSE [f EXCEPT !.o.go = IpcpTry(TryAddr(f.o, p), p)]

IpcpRejGood(go, p) == GoodRej(p, IpcpOrder, ipcp_addci(go))

ipcp_rejci(f, p) ==
  IF f.state = "OPENED" THEN f
  ELSE [f EXCEPT !.o.go.neg =
          (@ \ Types(p)) \ (IF "addrs" \in Types(p) THEN {"addr"} ELSE {})]

-----------------------------------------------------------------------------
(* The verdict on one option of the peer's request; the build has no        *)
(* OLD_CI_ADDRS, so "addrs" is an unknown option.                           *)
DnsVerdict(ours, v) == IF ours = 0 THEN Rej ELSE IF v = ours THEN Ack ELSE Nak(ours)

IpcpVerdict(o, t, v) ==
  CASE t = "addr" /\ "addr" \in o.ao.neg ->
         IF v # o.wo.his /\ (v = 0 \/ ~AcceptRemote(o)) THEN Nak(o.wo.his)
         ELSE IF v = 0 THEN Rej ELSE Ack
    [] t = "vj" /\ "vj" \in o.ao.neg ->
         IF v = <<>> THEN Ack
         ELSE IF v[1] > o.ao.vj[1] \/ (v[2] # 0 /\ o.ao.vj[2] = 0)
           THEN Nak(<<IF v[1] > o.ao.vj[1] THEN o.ao.vj[1] ELSE v[1],
                      IF v[2] # 0 /\ o.ao.vj[2] = 0 THEN o.wo.vj[2] ELSE v[2]>>)
         ELSE Ack
    [] t = "dns1" -> DnsVerdict(o.ao.dns[1], v)
    [] t = "dns2" -> DnsVerdict(o.ao.dns[2], v)
    [] OTHER -> Rej

(* ho records the address and the VJ parameters of a request that is        *)
(* naked, too.                                                              *)
IpcpHis(o, p, verdict) ==
  LET seen == {t \in Types(p) \intersect {"addr", "vj"} : verdict[t].code # "CONFREJ"}
      old  == "vj" \in seen /\ Value(p, "vj") = <<>>
  IN  [NoIpcpOptions EXCEPT
         !.neg = seen, !.old = IF old THEN {"vj"} ELSE {},
         !.his = IF "addr" \in seen THEN Value(p, "addr") ELSE 0,
         !.vj  = IF "vj" \notin seen THEN @
                 ELSE IF old THEN <<MAX_SLOTS - 1, 1>> ELSE Value(p, "vj")]

(* If the peer sent no address and we want him to, the answer becomes a Nak *)
(* that asks for it: once, unless something else was naked as well.         *)
AskAddr(r, fedup) ==
  IF r.ans.code = "CONFREJ" \/ "addr" \in r.o.ho.neg \/ ~r.o.req_addr \/ fedup THEN r
  ELSE LET ci == <<[t |-> "addr", v |-> r.o.wo.his]>>
       IN  IF r.ans.code = "CONFACK"
             THEN [ans |-> [code |-> "CONFNAK", data |-> ci],
                   o |-> [r.o EXCEPT !.req_addr = FALSE]]
             ELSE [r EXCEPT !.ans.data = @ \o ci]

(* A name server address we disagree with is overwritten in the packet even *)
(* when the option is then rejected.                                        *)
Overwritten(p, verdict) ==
  [i \in DOMAIN p |->
     IF p[i].t \in {"dns1", "dns2"} /\ verdict[p[i].t].code = "CONFNAK"
       THEN [p[i] EXCEPT !.v = verdict[p[i].t].v] ELSE p[i]]

ipcp_reqci(o, p, fedup) ==
  LET verdict == [t \in Types(p) |-> IpcpVerdict(o, t, Value(p, t))]
      told    == [t \in Types(p) |-> Tough(verdict[t], fedup)]
      unknown == "addr" \in Types(p) /\ verdict["addr"] = Rej /\ "addr" \in o.ao.neg
  IN  AskAddr([ans |-> Answer(Overwritten(p, verdict), told),
               o |-> [o EXCEPT !.ho = IpcpHis(o, p, verdict), !.cis_received = TRUE,
                               !.req_addr = @ /\ ~unknown]], fedup)

=============================================================================
