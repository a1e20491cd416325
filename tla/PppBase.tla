------------------------------ MODULE PppBase ------------------------------
(* What every PPP control protocol of netif/ppp shares: the fsm structure   *)
(* of fsm.h, the transmission of its packets, and the requests that do not  *)
(* look at configuration options.                                           *)
(*                                                                          *)
(* An fsm is a record; "out" collects the packets a handler writes and      *)
(* "calls" the callbacks it makes to the layer above (up, down, starting,   *)
(* finished), both in order.  Every callback of fsm.c is the first or the   *)
(* last thing its handler does to anything but its own fsm, so Ppp.tla runs *)
(* them, within the same step, when the handler has returned.               *)
EXTENDS Integers, Sequences, SequencesExt, FiniteSets

CONSTANTS FSM_DEFMAXCONFREQS,  \* Configure-Requests sent before giving up
          FSM_DEFMAXTERMREQS,  \* Terminate-Requests sent before giving up
          FSM_DEFMAXNAKLOOPS   \* Naks sent before they turn into Rejects

ASSUME PppFsmBounds ==
  /\ FSM_DEFMAXCONFREQS \in Nat \ {0}
  /\ FSM_DEFMAXTERMREQS \in Nat \ {0}
  /\ FSM_DEFMAXNAKLOOPS \in Nat

LinkStates == {"INITIAL", "STARTING", "CLOSED", "STOPPED", "CLOSING",
               "STOPPING", "REQSENT", "ACKRCVD", "ACKSENT", "OPENED"}

(* The states in which a Configure-Request of ours is outstanding.          *)
Negotiating == {"REQSENT", "ACKRCVD", "ACKSENT"}

(* u_char id: it wraps. *)
Next256(id) == (id + 1) % 256

fsm_init(proto, opts) ==
  [proto |-> proto, state |-> "INITIAL", id |-> 0, reqid |-> 0,
   seen_ack |-> FALSE, retransmits |-> 0, nakloops |-> 0, timer |-> FALSE,
   silent |-> FALSE, passive |-> FALSE, o |-> opts,
   out |-> <<>>, calls |-> <<>>]

fsm_sdata(f, code, id, data) ==
  [f EXCEPT !.out = Append(@, [proto |-> f.proto, code |-> code, id |-> id,
                               data |-> data])]

Call(f, cb) == [f EXCEPT !.calls = Append(@, <<f.proto, cb>>)]
CallIf(c, f, cb) == IF c THEN Call(f, cb) ELSE f
To(f, state) == [f EXCEPT !.state = state]
UNTIMEOUT(f) == [f EXCEPT !.timer = FALSE]

(* One Terminate-Request, with the timer that repeats it. *)
SendTermReq(f) ==
  [fsm_sdata([f EXCEPT !.reqid = Next256(f.id), !.id = Next256(f.id)],
             "TERMREQ", Next256(f.id), <<>>)
     EXCEPT !.timer = TRUE, !.retransmits = @ - 1]

fsm_close(f) ==
  CASE f.state = "STARTING" -> To(f, "INITIAL")
    [] f.state = "STOPPED" -> To(f, "CLOSED")
    [] f.state = "STOPPING" -> To(f, "CLOSING")
    [] f.state \in Negotiating \union {"OPENED"} ->
         To(SendTermReq([CallIf(f.state = "OPENED", f, "down")
                           EXCEPT !.retransmits = FSM_DEFMAXTERMREQS]),
            "CLOSING")
    [] OTHER -> f

-----------------------------------------------------------------------------
(* Configuration options on the wire: a sequence of [t |-> type, v |->      *)
(* value], in the fixed order in which the sender's addci writes them.      *)

Types(p) == {p[i].t : i \in DOMAIN p}

Ordered(p, order) ==
  \A i, j \in DOMAIN p : i < j =>
    \E a, b \in DOMAIN order : a < b /\ order[a] = p[i].t /\ order[b] = p[j].t

(* A Nak is read against the request in the order it was sent; what is left *)
(* over must be options that were not requested.                            *)
GoodNak(p, order, sent) ==
  \E n \in 0..Len(p) :
    /\ Ordered(SubSeq(p, 1, n), order) /\ Types(SubSeq(p, 1, n)) \subseteq sent
    /\ Types(SubSeq(p, n + 1, Len(p))) \intersect sent = {}

(* A Reject must give back options of the request unchanged and in order. *)
GoodRej(p, order, mine) == Ordered(p, order) /\ ToSet(p) \subseteq ToSet(mine)

Value(p, t) == p[CHOOSE i \in DOMAIN p : p[i].t = t].v

(* The answer to a Configure-Request from the verdict on each option:       *)
(* [code, v], v the value to suggest.  One Reject makes the answer a        *)
(* Reject of all rejected options, else one Nak makes it a Nak.             *)
Answer(p, verdict) ==
  LET rejected == SelectSeq(p, LAMBDA ci : verdict[ci.t].code = "CONFREJ")
      naked    == SelectSeq(p, LAMBDA ci : verdict[ci.t].code = "CONFNAK")
  IN  IF rejected # <<>> THEN [code |-> "CONFREJ", data |-> rejected]
      ELSE IF naked # <<>>
        THEN [code |-> "CONFNAK",
              data |-> [i \in DOMAIN naked |->
                          [t |-> naked[i].t, v |-> verdict[naked[i].t].v]]]
      ELSE [code |-> "CONFACK", data |-> p]

Ack == [code |-> "CONFACK", v |-> 0]
Rej == [code |-> "CONFREJ", v |-> 0]
Nak(v) == [code |-> "CONFNAK", v |-> v]

(* Getting fed up with sending Naks: they become Rejects. *)
Tough(verdict, fedup) ==
  IF fedup /\ verdict.code = "CONFNAK" THEN Rej ELSE verdict

=============================================================================
