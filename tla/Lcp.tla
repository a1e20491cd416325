-------------------------------- MODULE Lcp --------------------------------
(* netif/ppp/lcp.c: the options of the Link Control Protocol.               *)
(*                                                                          *)
(* An option set (lcp_options) is [neg, mru, accm, magic, loops]: the       *)
(* neg_xxx bits as a set, the async control character map as the set of     *)
(* characters to escape.  f.o holds the want, got, allow and his options    *)
(* (wo, go, ao, ho), the ppp_settings that auth_reset reads ("set"), and    *)
(* the state of magic().                                                    *)
EXTENDS PppBase

CONSTANTS PPP_DEFMRU, PPP_MINMRU, PPP_MRU,
          CtlChars,            \* the control characters an asyncmap may name
          lcp_loopbackfail     \* own magic numbers seen before giving up

LcpOrder == <<"mru", "asyncmap", "auth", "quality", "callback", "magic",
              "pcomp", "accomp">>

NoOptions == [neg |-> {}, mru |-> 0, accm |-> {}, magic |-> 0, loops |-> 0]

(* lcp_init: what a unit asks for and allows until the port changes it. *)
lcp_wantoptions ==
  [NoOptions EXCEPT !.neg = {"mru", "asyncmap", "magic", "pcomp", "accomp"},
                    !.mru = PPP_DEFMRU]
lcp_allowoptions ==
  [NoOptions EXCEPT !.neg = {"mru", "asyncmap", "chap", "pap", "magic",
                             "pcomp", "accomp"}, !.mru = PPP_MRU]

(* pppOverEthernetOpen: no framing options over Ethernet, and its MTU. *)
PPPOE_MAXMTU == 1492
OverEthernet(opts) ==
  [opts EXCEPT !.mru = PPPOE_MAXMTU, !.neg = @ \ {"asyncmap", "pcomp", "accomp"}]

(* magic(): numbers of the two sides differ, successive ones do too.        *)
(* "side" is 0 or 1.                                                        *)
magic(o) == 2 * ((o.seed + 1) % 4) + o.side
Drawn(o) == [o EXCEPT !.seed = (@ + 1) % 4]

(* auth_reset: which authentication we accept to do, given what the         *)
(* application set with pppSetAuth, and which we may ask of the peer:       *)
(* none, as have_pap_secret and have_chap_secret return 0, unless the unit  *)
(* is given secrets.                                                        *)
auth_reset(o) ==
  [o EXCEPT
     !.ao.neg = (@ \ {"pap", "chap"})
                  \union (IF o.set.refuse_pap THEN {} ELSE {"pap"})
                  \union (IF o.set.refuse_chap \/ o.set.passwd = "" THEN {} ELSE {"chap"}),
     !.go.neg = IF o.set.secrets THEN @ ELSE @ \ {"pap", "chap"}]

lcp_resetci(o) ==
  auth_reset([Drawn(o) EXCEPT
                !.wo.magic = magic(o), !.wo.loops = 0,
                !.go = [o.wo EXCEPT !.magic = magic(o), !.loops = 0]])

(* The option types of our next request (lcp_cilen). *)
LcpSent(go) ==
  {t \in ToSet(LcpOrder) :
     CASE t = "mru" -> "mru" \in go.neg /\ go.mru # PPP_DEFMRU
       [] t = "asyncmap" -> "asyncmap" \in go.neg /\ go.accm # CtlChars
       [] t = "auth" -> go.neg \intersect {"chap", "pap"} # {}
       [] OTHER -> t \in go.neg}

LcpValue(go, t) ==
  CASE t = "mru" -> go.mru
    [] t = "asyncmap" -> go.accm
    [] t = "auth" -> IF "chap" \in go.neg THEN "chap" ELSE "pap"
    [] t = "magic" -> go.magic
    [] OTHER -> 0

lcp_addci(go) ==
  LET sent == SelectSeq(LcpOrder, LAMBDA t : t \in LcpSent(go))
  IN  [i \in DOMAIN sent |-> [t |-> sent[i], v |-> LcpValue(go, sent[i])]]

lcp_ackci(go, p) == p = lcp_addci(go)

-----------------------------------------------------------------------------
(* What we ask for after a Nak: "try".                                      *)
TryMru(o, v) == IF v <= o.wo.mru \/ v < PPP_DEFMRU THEN v ELSE o.go.mru

TryAuth(go, v) ==
  IF v = "chap" THEN IF "chap" \in go.neg THEN {} ELSE {"pap"}
  ELSE {IF "chap" \in go.neg THEN "chap" ELSE "pap"}

LcpTry(o, p) ==
  [o.go EXCEPT
     !.mru = IF "mru" \notin Types(p) THEN @
             ELSE IF "mru" \in LcpSent(o.go) THEN TryMru(o, Value(p, "mru"))
             ELSE IF Value(p, "mru") < PPP_DEFMRU THEN Value(p, "mru") ELSE @,
     !.accm = IF "asyncmap" \in Types(p) \intersect LcpSent(o.go)
                THEN @ \union Value(p, "asyncmap") ELSE @,
     !.magic = IF "magic" \in Types(p) \intersect LcpSent(o.go) THEN magic(o) ELSE @,
     !.neg = (@ \ (Types(p) \intersect {"callback", "pcomp", "accomp"}))
               \ (IF "auth" \in Types(p) \intersect LcpSent(o.go)
                    THEN TryAuth(o.go, Value(p, "auth")) ELSE {}),
     !.loops = IF "magic" \in Types(p) \intersect LcpSent(o.go) THEN @ + 1 ELSE 0]

(* lcp_close: the phase changes through the callback "terminate". *)
lcp_close(f) ==
  IF f.state = "STOPPED" /\ (f.passive \/ f.silent)
    THEN To(Call(Call(f, "terminate"), "finished"), "CLOSED")
    ELSE fsm_close(Call(f, "terminate"))

LcpNakGood(go, p) ==
  /\ GoodNak(p, LcpOrder, LcpSent(go))
  /\ "auth" \in Types(p) \intersect LcpSent(go) =>
       ~(Value(p, "auth") = "pap" /\ "chap" \notin go.neg)

(* A good Nak changes our options unless LCP is open; on the last tolerated *)
(* Nak of our magic number the line is looped back and LCP closes.          *)
lcp_nakci(f, p) ==
  IF f.state = "OPENED" THEN f
  ELSE LET try == LcpTry(f.o, p)
           drew == "magic" \in Types(p) \intersect LcpSent(f.o.go)
           g   == [f EXCEPT !.o = [(IF drew THEN Drawn(@) ELSE @) EXCEPT !.go = try]]
       IN  IF try.loops >= lcp_loopbackfail THEN lcp_close(g) ELSE g

LcpRejGood(go, p) == GoodRej(p, LcpOrder, lcp_addci(go))

(* Rejecting CHAP also takes back PAP. *)
lcp_rejci(f, p) ==
  IF f.state = "OPENED" THEN f
  ELSE [f EXCEPT !.o.go.neg =
          (@ \ Types(p)) \ (IF "auth" \in Types(p) THEN {"chap", "pap"} ELSE {})]

-----------------------------------------------------------------------------
(* The verdict on one option of the peer's request. *)
LcpVerdict(o, t, v) ==
  CASE t = "mru" /\ "mru" \in o.ao.neg ->
         IF v < PPP_MINMRU THEN Nak(PPP_MINMRU) ELSE Ack
    [] t = "asyncmap" /\ "asyncmap" \in o.ao.neg ->
         IF o.ao.accm \subseteq v THEN Ack ELSE Nak(o.ao.accm \union v)
    [] t = "auth" /\ o.ao.neg \intersect {"chap", "pap"} # {} ->
         IF v \in o.ao.neg THEN Ack
         ELSE Nak(IF "chap" \in o.ao.neg THEN "chap" ELSE "pap")
    [] t = "magic" /\ "magic" \in o.ao.neg \union o.go.neg ->
         IF "magic" \in o.go.neg /\ v = o.go.magic THEN Nak(magic(o)) ELSE Ack
    [] t \in {"quality", "pcomp", "accomp"} /\ t \in o.ao.neg -> Ack
    [] OTHER -> Rej

(* His options: the ones accepted, even when the request as a whole is not. *)
LcpHis(p, ok) ==
  [neg |-> (ok \intersect {"mru", "asyncmap", "magic", "pcomp", "accomp"})
             \union (IF "auth" \in ok THEN {Value(p, "auth")} ELSE {}),
   mru |-> IF "mru" \in ok THEN Value(p, "mru") ELSE 0,
   accm |-> IF "asyncmap" \in ok THEN Value(p, "asyncmap") ELSE {},
   magic |-> IF "magic" \in ok THEN Value(p, "magic") ELSE 0, loops |-> 0]

lcp_reqci(o, p, fedup) ==
  LET verdict == [t \in Types(p) |-> LcpVerdict(o, t, Value(p, t))]
      told    == [t \in Types(p) |-> Tough(verdict[t], fedup /\ t # "magic")]
      ok      == {t \in Types(p) : verdict[t].code = "CONFACK"}
      drew    == "magic" \in Types(p) /\ verdict["magic"].code = "CONFNAK"
  IN  [ans |-> Answer(p, told),
       o   |-> [(IF drew THEN Drawn(o) ELSE o) EXCEPT !.ho = LcpHis(p, ok)]]

(* The transmit and receive parameters of the device while LCP is open      *)
(* (lcp_up) and while it is not (lcp_lowerup, lcp_down).                    *)
Smaller(a, b) == IF a < b THEN a ELSE b
(* As lcp_up would be if it set the MTU from our own limit alone. *)
LcpSendConfig_own(o) ==
  [mtu |-> o.ao.mru,
   accm |-> IF "asyncmap" \in o.ho.neg THEN o.ho.accm ELSE CtlChars,
   comp |-> o.ho.neg \intersect {"pcomp", "accomp"}]
LcpSendConfig(o) ==
  [mtu |-> Smaller(o.ao.mru, IF "mru" \in o.ho.neg THEN o.ho.mru ELSE PPP_MRU),
   accm |-> IF "asyncmap" \in o.ho.neg THEN o.ho.accm ELSE CtlChars,
   comp |-> o.ho.neg \intersect {"pcomp", "accomp"}]
LcpDownConfig == [mtu |-> PPP_MRU, accm |-> CtlChars, comp |-> {}]
LcpRecvAccm(o) == IF "asyncmap" \in o.go.neg THEN o.go.accm ELSE {}

=============================================================================
