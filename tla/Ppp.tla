-------------------------------- MODULE Ppp --------------------------------
(* netif/ppp/auth.c and ppp.c: the phases of a PPP link, from LCP through   *)
(* authentication to the network protocol, for the two ends of a serial     *)
(* line (or for one end whose line is looped back).                         *)
(*                                                                          *)
(* end[e] holds one end: its LCP and IPCP automata, its CHAP and PAP        *)
(* machines, the link's phase, what is still to be authenticated, the two   *)
(* network-protocol counters and the PPPControl fields the protocols set.   *)
(* "todo" is the stack of callbacks still to run, empty between steps.      *)
EXTENDS PppFsm, PppAuth

CONSTANTS lcp_echo_fails   \* unanswered echo requests before the link is dead

VARIABLES end,    \* the ends
          wire,   \* wire[e]: packets on their way to e, in order
          plan    \* what may still go wrong or be asked for: see Ppp_Next

pppvars == <<end, wire, plan>>

Phases == <<"DEAD", "INITIALIZE", "ESTABLISH", "AUTHENTICATE", "CALLBACK",
            "NETWORK", "TERMINATE">>

Line(e) == IF plan.loop THEN e ELSE IF e = "A" THEN "B" ELSE "A"

Put(e, x, f) ==
  [e EXCEPT ![x] = [f EXCEPT !.out = <<>>, !.calls = <<>>],
            !.out = @ \o f.out, !.todo = f.calls \o @]
Later(e, cb) == [e EXCEPT !.todo = <<cb>> \o @]

CloseLcp(e) == Put(e, "lcp", lcp_close(e.lcp))

-----------------------------------------------------------------------------
(* auth.c: from one phase to the next.                                      *)

link_terminated(e) ==
  IF e.phase = "DEAD" THEN e ELSE [e EXCEPT !.phase = "DEAD", !.openFlag = FALSE]

(* The protocols above LCP go down; the counters are cleared after that. *)
CloseIpcp(e) == Put(e, "ipcp", fsm_close(e.ipcp))
(* As link_down would be if it left IPCP up. *)
link_down_ipcp(e) ==
  Put(Put(Later(e, <<"lcp", "counted">>), "pap", upap_lowerdown(e.pap)),
      "chap", ChapLowerDown(e.chap))
link_down(e) ==
  CloseIpcp(Put(Put(Put(Later(e, <<"lcp", "counted">>),
                        "pap", upap_lowerdown(e.pap)),
                    "chap", ChapLowerDown(e.chap)),
                "ipcp", fsm_lowerdown(e.ipcp)))
LinkDownRest(e) ==
  [e EXCEPT !.np_open = 0, !.np_up = 0,
            !.phase = IF @ = "DEAD" THEN @ ELSE "TERMINATE"]

network_phase(e) ==
  LET n == [e EXCEPT !.phase = "NETWORK"]
      m == IF "ipcp" \in e.protos
             THEN [Put(n, "ipcp", fsm_open(n.ipcp)) EXCEPT !.np_open = @ + 1] ELSE n
  IN  IF m.np_open = 0 THEN CloseLcp(m) ELSE m

LowerUp(e) ==
  LET c == Put(Put(e, "pap", upap_lowerup(e.pap)), "chap", ChapLowerUp(e.chap))
  IN  IF "ipcp" \in e.protos THEN Put(c, "ipcp", fsm_lowerup(c.ipcp)) ELSE c

(* What the negotiated options ask to be authenticated. *)
AuthPeer(go) == IF "chap" \in go.neg THEN {"chap_peer"}
                ELSE IF "pap" \in go.neg THEN {"pap_peer"} ELSE {}
AuthWith(ho) == IF "chap" \in ho.neg THEN {"chap_with"}
                ELSE IF "pap" \in ho.neg THEN {"pap_with"} ELSE {}
StartPeer(e, w) ==
  CASE w = {"chap_peer"} -> Put(e, "chap", ChapAuthPeer(e.chap))
    [] w = {"pap_peer"} -> Put(e, "pap", upap_authpeer(e.pap))
    [] OTHER -> e
StartWith(e, w) ==
  CASE w = {"chap_with"} -> Put(e, "chap", ChapAuthWithPeer(e.chap))
    [] w = {"pap_with"} -> Put(e, "pap", upap_authwithpeer(e.pap))
    [] OTHER -> e
Authenticate(e, peer, with) ==
  LET a == [StartWith(StartPeer(e, peer), with)
              EXCEPT !.phase = "AUTHENTICATE", !.auth_pending = peer \union with]
  IN  IF peer \union with = {} THEN network_phase(a) ELSE a
(* auth_required is never set: an end that may not ask goes on without.     *)
link_established(e) ==
  Authenticate(LowerUp(e), AuthPeer(e.lcp.o.go), AuthWith(e.lcp.o.ho))

(* auth_peer_success, auth_withpeer_success: the last one opens the network. *)
Authenticated(e, bit) ==
  LET a == [e EXCEPT !.auth_pending = @ \ {bit}]
  IN  IF a.auth_pending = {} THEN network_phase(a) ELSE a

auth_withpeer_fail(e) == CloseLcp([e EXCEPT !.errCode = "AUTHFAIL"])

np_finished(e) ==
  LET n == [e EXCEPT !.np_open = @ - 1] IN IF n.np_open <= 0 THEN CloseLcp(n) ELSE n

-----------------------------------------------------------------------------
(* lcp.c: echo requests, which watch an open link.                          *)
LcpSendEchoRequest(e) ==
  IF e.lcp.state # "OPENED" THEN e
  ELSE [Put(e, "lcp", fsm_sdata(e.lcp, "ECHOREQ", 0, e.lcp.o.go.magic))
          EXCEPT !.echo.pending = @ + 1]
LcpEchoCheck(e) == [LcpSendEchoRequest(e) EXCEPT !.echo.timer = TRUE]
LcpEchoTimeout(e) ==
  IF e.echo.pending >= lcp_echo_fails
    THEN LET c == Later([e EXCEPT !.echo.pending = 0], <<"lcp", "echo">>)
         IN  IF e.lcp.state = "OPENED" THEN CloseLcp(c) ELSE c
    ELSE LcpEchoCheck(e)
lcp_echo_lowerup(e) ==
  LET c == [e EXCEPT !.echo = [pending |-> 0, timer |-> FALSE]]
  IN  IF e.lcp.o.set.echo THEN LcpEchoCheck(c) ELSE c
lcp_received_echo_reply(e, m) ==
  IF "magic" \in e.lcp.o.go.neg /\ m = e.lcp.o.go.magic THEN e
  ELSE [e EXCEPT !.echo.pending = 0]

lcp_up(e) ==
  LET z == [e EXCEPT
              !.lcp.o.go.magic = IF "magic" \in e.lcp.o.go.neg THEN @ ELSE 0,
              !.cfg = LcpSendConfig(e.lcp.o)]
  IN  link_established(lcp_echo_lowerup(z))
lcp_down(e) ==
  link_down([e EXCEPT !.echo.timer = FALSE, !.cfg = LcpDownConfig])

(* lcp_rprotrej: only an open LCP looks at a Protocol-Reject. *)
lcp_rprotrej(e, proto) ==
  CASE e.lcp.state # "OPENED" -> e
    [] proto = "ipcp" -> Put(e, "ipcp", fsm_lowerdown(e.ipcp))
    [] proto = "chap" -> Put(e, "chap", ChapProtocolReject(e.chap))
    [] proto = "pap" -> Put(e, "pap", upap_protrej(e.pap))
    [] OTHER -> e

lcp_extcode(e, k) ==
  CASE k.code = "PROTREJ" -> lcp_rprotrej(e, k.data)
    [] k.code = "ECHOREQ" /\ e.lcp.state = "OPENED" ->
         Put(e, "lcp", fsm_sdata(e.lcp, "ECHOREP", k.id, e.lcp.o.go.magic))
    [] k.code = "ECHOREP" -> lcp_received_echo_reply(e, k.data)
    [] OTHER -> e

lcp_input(e, k) ==
  IF k.code \in {"PROTREJ", "ECHOREQ", "ECHOREP", "DISCREQ"}
    THEN IF e.lcp.state \in {"INITIAL", "STARTING"} THEN e ELSE lcp_extcode(e, k)
    ELSE Put(e, "lcp", fsm_input(e.lcp, k))

-----------------------------------------------------------------------------
(* ipcp.c and ppp.c: the interface.                                         *)
Down == [up |-> FALSE, our |-> 0, his |-> 0]

sifup(e) ==
  [e EXCEPT !.ifc = [up |-> TRUE, our |-> e.ipcp.o.go.our, his |-> e.ipcp.o.ho.his],
            !.errCode = "NONE", !.vj = e.ipcp.o.ho.neg \intersect {"vj"}]
ipcp_up(e0) ==
  LET e == [e0 EXCEPT !.np_up = @ + 1,
              !.ipcp.o.ho.his = IF "addr" \in e0.ipcp.o.ho.neg THEN @ ELSE e0.ipcp.o.wo.his]
  IN  IF e.ipcp.o.go.our = 0 \/ ~e.openFlag THEN CloseIpcp(e) ELSE sifup(e)
ipcp_down(e) == [e EXCEPT !.np_up = @ - 1, !.vj = {},
                          !.ifc = IF e.openFlag THEN Down ELSE @]

(* The callbacks, by who makes them. *)
Run(e, who, cb) ==
  CASE cb = "terminate" -> [e EXCEPT !.phase = IF @ = "DEAD" THEN @ ELSE "TERMINATE"]
    [] who = "lcp" /\ cb = "up" -> lcp_up(e)
    [] who = "lcp" /\ cb = "down" -> lcp_down(e)
    [] who = "lcp" /\ cb = "finished" -> link_terminated(e)
    [] cb = "counted" -> LinkDownRest(e)
    [] cb = "echo" -> LcpEchoCheck(e)
    [] who = "ipcp" /\ cb = "up" -> ipcp_up(e)
    [] who = "ipcp" /\ cb = "down" -> ipcp_down(e)
    [] who = "ipcp" /\ cb = "finished" -> np_finished(e)
    [] cb = "peer_success" -> Authenticated(e, IF who = "chap" THEN "chap_peer" ELSE "pap_peer")
    [] cb = "withpeer_success" -> Authenticated(e, IF who = "chap" THEN "chap_with" ELSE "pap_with")
    [] cb = "peer_fail" -> CloseLcp(e)
    [] cb = "withpeer_fail" -> auth_withpeer_fail(e)
    [] cb = "badauth" -> [e EXCEPT !.pap.server = "BADAUTH"]
    [] OTHER -> e   \* starting: link_required does nothing

RECURSIVE Settle(_)
Settle(e) ==
  IF e.todo = <<>> THEN e
  ELSE Settle(Run([e EXCEPT !.todo = Tail(@)], e.todo[1][1], e.todo[1][2]))

-----------------------------------------------------------------------------
(* ppp.c: what the application, the line and the timers call.               *)

PhaseNo(ph) == CHOOSE i \in DOMAIN Phases : Phases[i] = ph

(* Until authentication is over only LCP, and during it the authentication  *)
(* protocols, are let in; an unknown protocol is rejected.                  *)
Tossed(e, proto) ==
  /\ PhaseNo(e.phase) <= PhaseNo("AUTHENTICATE") /\ proto # "lcp"
  /\ ~(proto \in {"pap", "chap"} /\ e.phase = "AUTHENTICATE")
lcp_sprotrej(e, proto) ==
  Put(e, "lcp", fsm_sdata([e.lcp EXCEPT !.id = Next256(@)], "PROTREJ",
                          Next256(e.lcp.id), proto))
pppInput(e, k) ==
  CASE Tossed(e, k.proto) -> e
    [] k.proto \notin e.protos -> lcp_sprotrej(e, k.proto)
    [] k.proto = "lcp" -> lcp_input(e, k)
    [] k.proto = "ipcp" -> Put(e, "ipcp", fsm_input(e.ipcp, k))
    [] k.proto = "chap" -> Put(e, "chap", ChapInput(e.chap, k, e.lcp.o.set.passwd))
    [] k.proto = "pap" -> Put(e, "pap", upap_input(e.pap, k))

lcp_open(e) ==
  [Put(e, "lcp", fsm_open([e.lcp EXCEPT !.silent = e.lcp.o.set.silent]))
     EXCEPT !.phase = "ESTABLISH"]
pppStart(e) ==
  lcp_open(Put([e EXCEPT !.cfg = LcpDownConfig], "lcp", fsm_lowerup(e.lcp)))
pppOverSerialOpen(e) ==
  pppStart([e EXCEPT !.openFlag = TRUE, !.errCode = "NONE", !.ifc = Down, !.vj = {}])
pppClose(e) == CloseLcp([e EXCEPT !.errCode = "USER"])

(* lcp_lowerdown runs to its end, callbacks included, before the link is    *)
(* declared terminated.                                                     *)
pppSigHUP(e) ==
  LET d == Later(e, <<"lcp", "finished">>) IN Put(d, "lcp", fsm_lowerdown(e.lcp))

PppTimeout(e, t) ==
  CASE t \in {"lcp", "ipcp"} -> Put(e, t, fsm_timeout(UNTIMEOUT(e[t])))
    [] t = "chal" -> Put(e, "chap", ChapChallengeTimeout(Stop(e.chap, "chal")))
    [] t = "resp" -> Put(e, "chap", ChapResponseTimeout(Stop(e.chap, "resp")))
    [] t = "again" -> Put(e, "chap", ChapRechallenge(Stop(e.chap, "again")))
    [] t = "auth" -> Put(e, "pap", upap_timeout(Stop(e.pap, "auth")))
    [] t = "req" -> Put(e, "pap", upap_reqtimeout(Stop(e.pap, "req")))
    [] t = "echo" -> LcpEchoTimeout([e EXCEPT !.echo.timer = FALSE])

Armed(e) ==
  {t \in {"lcp", "ipcp"} : e[t].timer} \union e.chap.timers \union e.pap.timers
    \union (IF e.echo.timer THEN {"echo"} ELSE {})

(* pppInputThread reads the line from the open until the link is dead. *)
Reading(e) == e.phase \notin {"DEAD", "INITIALIZE"}

-----------------------------------------------------------------------------
(* The ends and the line between them.  "plan" bounds what the environment  *)
(* does: packets lost, timers that expire while packets are under way, echo *)
(* rounds with a peer that answers, and the calls each application makes,   *)
(* in order.                                                                *)

NewEnd(p) ==
  [lcp |-> fsm_init("lcp", [wo |-> p.want, go |-> NoOptions, ao |-> p.allow,
                            ho |-> NoOptions, set |-> p.set, seed |-> 0,
                            side |-> p.side]),
   ipcp |-> fsm_init("ipcp", ipcp_init(p.our, p.his, p.dns, p.slots)),
   chap |-> ChapInit(FALSE), pap |-> upap_init, phase |-> "INITIALIZE",
   auth_pending |-> {}, np_open |-> 0, np_up |-> 0, openFlag |-> FALSE,
   ifc |-> Down, vj |-> {}, errCode |-> "NONE", cfg |-> LcpDownConfig,
   echo |-> [pending |-> 0, timer |-> FALSE], protos |-> p.protos,
   out |-> <<>>, todo |-> <<>>]

(* One step of e: what it wrote is on the line. *)
Step(e, in, n) ==
  /\ end' = [end EXCEPT ![e] = [n EXCEPT !.out = <<>>]]
  /\ wire' = [in EXCEPT ![Line(e)] = @ \o n.out]

Ask(e, call) ==
  plan.calls[e] # <<>> /\ Head(plan.calls[e]) = call
    /\ plan' = [plan EXCEPT !.calls[e] = Tail(@)]

Open(e) ==
  /\ Ask(e, "open") /\ ~end[e].openFlag
  /\ \E n \in {Settle(pppOverSerialOpen(end[e]))} : Step(e, wire, n)
Close(e) ==
  /\ Ask(e, "close") /\ end[e].openFlag
  /\ \E n \in {Settle(pppClose(end[e]))} : Step(e, wire, n)
Hup(e) ==
  /\ Ask(e, "hup") /\ end[e].openFlag
  /\ \E n \in {Settle(pppSigHUP(end[e]))} : Step(e, [wire EXCEPT ![e] = <<>>], n)

CanRecv(e) == wire[e] # <<>> /\ Reading(end[e])
Recv(e) ==
  /\ CanRecv(e)
  /\ \E n \in {Settle(pppInput(end[e], Head(wire[e])))} :
       Step(e, [wire EXCEPT ![e] = Tail(@)], n)
  /\ UNCHANGED plan

(* The line loses a packet; nobody reads the line of a dead link. *)
Lose(e) ==
  /\ wire[e] # <<>> /\ wire' = [wire EXCEPT ![e] = Tail(@)]
  /\ IF Reading(end[e]) THEN plan.loss > 0 /\ plan' = [plan EXCEPT !.loss = @ - 1]
                        ELSE UNCHANGED plan
  /\ UNCHANGED end

Quiet == \A e \in DOMAIN wire : wire[e] = <<>>

(* With packets under way a timer may expire early; with an answering peer  *)
(* the echo rounds are bounded.                                             *)
Due(e, t) ==
  /\ t \in Armed(end[e])
  /\ Quiet \/ plan.early > 0
  /\ t = "echo" => plan.echoes > 0 \/ ~Reading(end[Line(e)])
Timeout(e, t) ==
  /\ Due(e, t)
  /\ plan' = [plan EXCEPT !.early = IF Quiet THEN @ ELSE @ - 1,
                          !.echoes = IF t = "echo" /\ @ > 0 THEN @ - 1 ELSE @]
  /\ \E n \in {Settle(PppTimeout(end[e], t))} : Step(e, wire, n)

Timers == {"lcp", "ipcp", "chal", "resp", "again", "auth", "req", "echo"}

Ppp_Next ==
  \E e \in DOMAIN end :
    \/ Open(e) \/ Close(e) \/ Hup(e) \/ Recv(e) \/ Lose(e)
    \/ \E t \in Timers : Timeout(e, t)

-----------------------------------------------------------------------------
(* The automata, phases, counters and timers of both ends stay in their     *)
(* ranges, and no callback is left behind by a step.                        *)
PppTypeOK ==
  \A e \in DOMAIN end :
    /\ end[e].lcp.state \in LinkStates /\ end[e].ipcp.state \in LinkStates
    /\ end[e].phase \in ToSet(Phases) /\ end[e].todo = <<>>
    /\ end[e].np_open \in Int /\ end[e].np_up \in 0..1
    /\ end[e].lcp.retransmits \in 0..FSM_DEFMAXCONFREQS + FSM_DEFMAXTERMREQS
    /\ Armed(end[e]) \subseteq Timers

(* An interface that is up (sifup, ppp.c) rests on everything below it: LCP *)
(* and IPCP are open, the link is in the network phase with nothing left to *)
(* authenticate, an address of our own was settled, the peer has proved     *)
(* what we asked it to prove (a peer whose secret is wrong never gets       *)
(* here), and the line is not looped back.  The state of both ends keeps    *)
(* its type.                                                                *)
InterfaceSound ==
  PppTypeOK /\ \A e \in DOMAIN end : end[e].ifc.up =>
    /\ end[e].openFlag /\ end[e].phase = "NETWORK"
    /\ end[e].lcp.state = "OPENED" /\ end[e].ipcp.state = "OPENED"
    /\ end[e].auth_pending = {} /\ end[e].ifc.our # 0 /\ ~plan.loop
    /\ "chap" \in end[e].lcp.o.go.neg =>
         /\ end[e].chap.server = "OPEN"
         /\ end[Line(e)].lcp.o.set.passwd = end[e].lcp.o.set.passwd
    /\ {"chap", "pap"} \intersect end[e].lcp.o.go.neg = {"pap"} => end[e].pap.server = "OPEN"

(* What one end got the other agreed to: when LCP (IPCP) is open at both    *)
(* ends, each sends with the parameters the other asked for, and the two    *)
(* interfaces have each other's addresses.                                  *)
Agreement ==
  \A e \in DOMAIN end : ~plan.loop =>
    LET mine == end[e] peer == end[Line(e)]
    IN  /\ mine.lcp.state = "OPENED" /\ peer.lcp.state = "OPENED" =>
             /\ LcpRecvAccm(mine.lcp.o) \subseteq peer.cfg.accm
             /\ peer.lcp.o.ho.neg \intersect {"chap", "pap"} =
                  (IF "chap" \in mine.lcp.o.go.neg THEN {"chap"}
                   ELSE mine.lcp.o.go.neg \intersect {"pap"})
             /\ peer.cfg.comp = mine.lcp.o.go.neg \intersect {"pcomp", "accomp"}
             /\ "mru" \in LcpSent(mine.lcp.o.go) => peer.cfg.mtu <= mine.lcp.o.go.mru
        /\ mine.ifc.up /\ peer.ifc.up =>
             /\ peer.ifc.his = mine.ifc.our
             /\ peer.vj # {} => mine.ipcp.o.go.vj = peer.ipcp.o.ho.vj

(* "Toss all non-LCP packets unless LCP is OPEN" (pppInput, ppp.c): a packet *)
(* of another protocol that arrives while LCP is not open changes nothing.  *)
NonLcpTossed ==
  [][\A e \in DOMAIN end :
       /\ CanRecv(e) /\ Head(wire[e]).proto # "lcp" /\ end[e].lcp.state # "OPENED"
       /\ wire'[e] = Tail(wire[e]) /\ plan' = plan
       => end'[e] = end[e]]_pppvars

(* "This will leave us at PHASE_DEAD" (pppClose, ppp.c): once the           *)
(* application has closed the link it is dead in the end, and the           *)
(* descriptor is free for the next connection.                              *)
CloseLeavesDead ==
  <>[](end["A"].errCode = "USER" => end["A"].phase = "DEAD" /\ ~end["A"].openFlag)

(* An end is settled when its interface is up, when it is dead, or when it  *)
(* was told to wait silently for the peer to start.  An end without echo    *)
(* requests whose LCP is open has no way to notice that the peer has gone.  *)
Settled ==
  \A e \in DOMAIN end :
    \/ end[e].phase \in {"DEAD", "INITIALIZE"}
    \/ end[e].ifc.up /\ Reading(end[Line(e)])
    \/ end[e].lcp.silent /\ end[e].lcp.state = "STOPPED"
    \/ /\ end[e].lcp.state = "OPENED" /\ ~end[e].lcp.o.set.echo
       /\ ~Reading(end[Line(e)])

=============================================================================
