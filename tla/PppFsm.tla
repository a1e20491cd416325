------------------------------- MODULE PppFsm ------------------------------
(* netif/ppp/fsm.c: the automaton of RFC 1661 that LCP and IPCP run, one    *)
(* operator per event.  The fsm_callbacks table is the choice on f.proto.   *)
EXTENDS Lcp, Ipcp

resetci(f) ==
  IF f.proto = "lcp" THEN [f EXCEPT !.o = lcp_resetci(@)]
                     ELSE [f EXCEPT !.o = ipcp_resetci(@)]
cilen(f) == IF f.proto = "lcp" THEN f ELSE [f EXCEPT !.o = ipcp_cilen(@)]
addci(f) == IF f.proto = "lcp" THEN lcp_addci(f.o.go) ELSE ipcp_addci(f.o.go)
ackci(f, p) == IF f.proto = "lcp" THEN lcp_ackci(f.o.go, p) ELSE ipcp_ackci(f.o.go, p)
NakGood(f, p) == IF f.proto = "lcp" THEN LcpNakGood(f.o.go, p) ELSE IpcpNakGood(f.o.go, p)
nakci(f, p) == IF f.proto = "lcp" THEN lcp_nakci(f, p) ELSE ipcp_nakci(f, p)
RejGood(f, p) == IF f.proto = "lcp" THEN LcpRejGood(f.o.go, p) ELSE IpcpRejGood(f.o.go, p)
rejci(f, p) == IF f.proto = "lcp" THEN lcp_rejci(f, p) ELSE ipcp_rejci(f, p)
reqci(f, p, fedup) ==
  IF f.proto = "lcp" THEN lcp_reqci(f.o, p, fedup) ELSE ipcp_reqci(f.o, p, fedup)

-----------------------------------------------------------------------------
(* fsm_sconfreq: a new request starts from fresh options unless we are in   *)
(* the middle of a negotiation; a retransmission keeps the request's id.    *)
Fresh(f) == IF f.state \in Negotiating THEN f ELSE [resetci(f) EXCEPT !.nakloops = 0]
NewId(f) == [f EXCEPT !.retransmits = FSM_DEFMAXCONFREQS,
                      !.reqid = Next256(f.id), !.id = Next256(f.id)]
SendConfReq(f) ==
  [fsm_sdata(f, "CONFREQ", f.reqid, addci(f))
     EXCEPT !.seen_ack = FALSE, !.retransmits = @ - 1, !.timer = TRUE]
fsm_sconfreq(f, retransmit) ==
  SendConfReq(cilen(IF retransmit THEN Fresh(f) ELSE NewId(Fresh(f))))

Request(f) == To(fsm_sconfreq(f, FALSE), "REQSENT")

fsm_lowerup(f) ==
  CASE f.state = "INITIAL" -> To(f, "CLOSED")
    [] f.state = "STARTING" -> IF f.silent THEN To(f, "STOPPED") ELSE Request(f)
    [] OTHER -> f

fsm_lowerdown(f) ==
  CASE f.state = "CLOSED" -> To(f, "INITIAL")
    [] f.state = "STOPPED" -> Call(To(f, "STARTING"), "starting")
    [] f.state = "CLOSING" -> UNTIMEOUT(To(f, "INITIAL"))
    [] f.state \in Negotiating \union {"STOPPING"} -> UNTIMEOUT(To(f, "STARTING"))
    [] f.state = "OPENED" -> To(Call(f, "down"), "STARTING")
    [] OTHER -> f

(* No caller sets OPT_RESTART: a second open of an open or stopped protocol *)
(* does nothing.                                                            *)
fsm_open(f) ==
  CASE f.state = "INITIAL" -> Call(To(f, "STARTING"), "starting")
    [] f.state = "CLOSED" -> IF f.silent THEN To(f, "STOPPED") ELSE Request(f)
    [] f.state = "CLOSING" -> To(f, "STOPPING")
    [] OTHER -> f

(* The timer has expired: the caller has cleared it. *)
fsm_timeout(f) ==
  CASE f.state \in {"CLOSING", "STOPPING"} ->
         IF f.retransmits <= 0
           THEN Call(To(f, IF f.state = "CLOSING" THEN "CLOSED" ELSE "STOPPED"), "finished")
           ELSE SendTermReq(f)
    [] f.state \in Negotiating ->
         IF f.retransmits <= 0
           THEN CallIf(~f.passive, To(f, "STOPPED"), "finished")
           ELSE LET g == fsm_sconfreq(f, TRUE)
                IN  IF f.state = "ACKRCVD" THEN To(g, "REQSENT") ELSE g
    [] OTHER -> f

-----------------------------------------------------------------------------
TermAck(f, id) == fsm_sdata(f, "TERMACK", id, <<>>)
GoDown(f) == fsm_sconfreq(Call(f, "down"), FALSE)

(* A Configure-Request: answer it; agreeing may complete the negotiation. *)
Acknowledged(f) ==
  [(IF f.state = "ACKRCVD" THEN Call(UNTIMEOUT(To(f, "OPENED")), "up")
                           ELSE To(f, "ACKSENT")) EXCEPT !.nakloops = 0]
Disagreed(f, code) ==
  [(IF f.state = "ACKRCVD" THEN f ELSE To(f, "REQSENT"))
     EXCEPT !.nakloops = IF code = "CONFNAK" THEN @ + 1 ELSE @]
Answered(f, id, r) ==
  LET g == fsm_sdata([f EXCEPT !.o = r.o], r.ans.code, id, r.ans.data)
  IN  IF r.ans.code = "CONFACK" THEN Acknowledged(g) ELSE Disagreed(g, r.ans.code)
Reply(f, id, p) == Answered(f, id, reqci(f, p, f.nakloops >= FSM_DEFMAXNAKLOOPS))

fsm_rconfreq(f, id, p) ==
  CASE f.state = "CLOSED" -> TermAck(f, id)
    [] f.state \in {"CLOSING", "STOPPING"} -> f
    [] f.state = "OPENED" -> Reply(GoDown(f), id, p)
    [] f.state = "STOPPED" -> Reply(Request(f), id, p)
    [] OTHER -> Reply(f, id, p)

(* An answer to our outstanding request, the first one only. *)
Expected(f, id) == id = f.reqid /\ ~f.seen_ack

fsm_rconfack(f0, id, p) ==
  LET f == [f0 EXCEPT !.seen_ack = TRUE]
      rearmed == [f EXCEPT !.retransmits = FSM_DEFMAXCONFREQS]
  IN  IF ~Expected(f0, id) \/ ~ackci(f0, p) THEN f0
      ELSE CASE f.state \in {"CLOSED", "STOPPED"} -> TermAck(f, id)
             [] f.state = "REQSENT" -> To(rearmed, "ACKRCVD")
             [] f.state = "ACKRCVD" -> Request(UNTIMEOUT(f))
             [] f.state = "ACKSENT" -> Call(UNTIMEOUT(To(rearmed, "OPENED")), "up")
             [] f.state = "OPENED" -> To(GoDown(f), "REQSENT")
             [] OTHER -> f

(* nakci may have closed the protocol: its state is looked at afterwards. *)
Retried(f, id) ==
  CASE f.state \in {"CLOSED", "STOPPED"} -> TermAck(f, id)
    [] f.state \in {"REQSENT", "ACKSENT"} -> fsm_sconfreq(UNTIMEOUT(f), FALSE)
    [] f.state = "ACKRCVD" -> Request(UNTIMEOUT(f))
    [] f.state = "OPENED" -> To(GoDown(f), "REQSENT")
    [] OTHER -> f

fsm_rconfnakrej(f, code, id, p) ==
  IF \/ ~Expected(f, id)
     \/ ~(IF code = "CONFNAK" THEN NakGood(f, p) ELSE RejGood(f, p))
    THEN f
    ELSE Retried([(IF code = "CONFNAK" THEN nakci(f, p) ELSE rejci(f, p))
                    EXCEPT !.seen_ack = TRUE], id)

(* As fsm_rtermreq would be without the timer that ends STOPPING. *)
fsm_rtermreq_untimed(f, id) ==
  TermAck(CASE f.state \in {"ACKRCVD", "ACKSENT"} -> To(f, "REQSENT")
            [] f.state = "OPENED" ->
                 [To(Call(f, "down"), "STOPPING") EXCEPT !.retransmits = 0]
            [] OTHER -> f, id)

fsm_rtermreq(f, id) ==
  TermAck(CASE f.state \in {"ACKRCVD", "ACKSENT"} -> To(f, "REQSENT")
            [] f.state = "OPENED" ->
                 [To(Call(f, "down"), "STOPPING") EXCEPT !.retransmits = 0, !.timer = TRUE]
            [] OTHER -> f, id)

fsm_rtermack(f) ==
  CASE f.state = "CLOSING" -> Call(UNTIMEOUT(To(f, "CLOSED")), "finished")
    [] f.state = "STOPPING" -> Call(UNTIMEOUT(To(f, "STOPPED")), "finished")
    [] f.state = "ACKRCVD" -> To(f, "REQSENT")
    [] f.state = "OPENED" -> GoDown(f)
    [] OTHER -> f

fsm_rcoderej(f) == IF f.state = "ACKRCVD" THEN To(f, "REQSENT") ELSE f

(* INITIAL and STARTING drop everything; LCP knows more codes (lcp_extcode, *)
(* see Ppp.tla), any other code is rejected.                                *)
fsm_input(f, k) ==
  CASE f.state \in {"INITIAL", "STARTING"} -> f
    [] k.code = "CONFREQ" -> fsm_rconfreq(f, k.id, k.data)
    [] k.code = "CONFACK" -> fsm_rconfack(f, k.id, k.data)
    [] k.code \in {"CONFNAK", "CONFREJ"} -> fsm_rconfnakrej(f, k.code, k.id, k.data)
    [] k.code = "TERMREQ" -> fsm_rtermreq(f, k.id)
    [] k.code = "TERMACK" -> fsm_rtermack(f)
    [] k.code = "CODEREJ" -> fsm_rcoderej(f)
    [] OTHER -> fsm_sdata([f EXCEPT !.id = Next256(@)], "CODEREJ", Next256(f.id), <<>>)

=============================================================================
