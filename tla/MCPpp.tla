------------------------------- MODULE MCPpp -------------------------------
(* Small PPP links: a board and the end it dials, in the situations a       *)
(* connection can meet.  plan.case names the situation.                     *)
EXTENDS Ppp

CONSTANTS Losses, Earlies, Echoes

Setting == [refuse_pap |-> FALSE, refuse_chap |-> FALSE, passwd |-> "", secrets |-> FALSE,
            silent |-> FALSE, echo |-> FALSE]
All == {"lcp", "ipcp", "chap", "pap"}

(* The board: no address of its own; the other end gives it one. *)
Board == [side |-> 0, want |-> lcp_wantoptions, allow |-> lcp_allowoptions,
          set |-> [Setting EXCEPT !.passwd = "s"],
          our |-> 0, his |-> 0, dns |-> <<0, 0>>, slots |-> MAX_SLOTS, protos |-> All]
Server == [Board EXCEPT !.side = 1, !.our = 2, !.his = 1, !.dns = <<5, 0>>,
                        !.slots = MAX_SLOTS - 1, !.want.accm = {0},
                        !.set = [Setting EXCEPT !.passwd = "s"]]
Asking == [Server EXCEPT !.set.secrets = TRUE, !.want.neg = @ \union {"chap", "pap"}]

Case(name, a, b, calls) ==
  [name |-> name, a |-> a, b |-> b, calls |-> [A |-> <<"open">> \o calls, B |-> <<"open">>],
   loop |-> FALSE, early |-> Earlies]

Cases ==
  { Case("plain", Board, Server, <<"close">>),
    Case("silent", Board, [Server EXCEPT !.set.silent = TRUE], <<>>),
    Case("chap", Board, Asking, <<"close">>),
    Case("wrong", [Board EXCEPT !.set.passwd = "t"], Asking, <<>>),
    Case("pap", [Board EXCEPT !.set.refuse_chap = TRUE], Asking, <<>>),
    Case("refuse", [Board EXCEPT !.set.refuse_chap = TRUE, !.set.refuse_pap = TRUE],
         Asking, <<>>),
    Case("noaddr", Board, [Server EXCEPT !.our = 0, !.his = 0], <<>>),
    Case("noip", Board, [Server EXCEPT !.protos = @ \ {"ipcp"}], <<>>),
    Case("ethernet",
         [Board EXCEPT !.want = OverEthernet(@), !.allow = OverEthernet(@)],
         [Asking EXCEPT !.allow.neg = @ \ {"mru"}, !.want.mru = PPP_MINMRU - 1], <<>>),
    [Case("cut", [Board EXCEPT !.set.echo = TRUE], Asking, <<>>)
       EXCEPT !.calls["B"] = <<"open", "hup", "open">>, !.early = 0],
    [Case("loop", Board, Board, <<>>) EXCEPT !.loop = TRUE] }

(* Nobody answers the first call; the board dials again and hangs up. *)
Redial == { [Case("redial", Board, Server, <<"open", "close">>) EXCEPT !.calls["B"] = <<>>] }

Dialling(cases) ==
  \E c \in cases :
    /\ end = IF c.loop THEN [e \in {"A"} |-> NewEnd(c.a)]
             ELSE [e \in {"A", "B"} |-> NewEnd(IF e = "A" THEN c.a ELSE c.b)]
    /\ wire = [e \in DOMAIN end |-> <<>>]
    /\ plan = [case |-> c.name, loop |-> c.loop, calls |-> c.calls,
               loss |-> Losses, early |-> c.early, echoes |-> Echoes]

Init == Dialling(Cases)

Spec == Init /\ [][Ppp_Next]_pppvars

(* Packets under way are delivered or lost, and the timers of one end       *)
(* cannot expire for ever while those of the other, of the same length,     *)
(* never do.                                                                *)
OwnDue(e) == e \in DOMAIN end /\ \E t \in Timers \ {"echo"} : Due(e, t)
EchoDue == \E e \in DOMAIN end : Due(e, "echo")
Fairness ==
  /\ []<>Quiet \/ []<><<TRUE>>_pppvars
  /\ \A e \in {"A", "B"} :
       <>[]~OwnDue(e) \/ []<><<OwnDue(e) /\ Quiet /\ end'[e] # end[e]>>_pppvars
  /\ <>[]~EchoDue \/ []<><<\E e \in DOMAIN end : Due(e, "echo") /\ end'[e].echo # end[e].echo>>_pppvars
FairSpec == Spec /\ Fairness
RedialSpec == Dialling(Redial) /\ [][Ppp_Next]_pppvars /\ Fairness

(* Whatever is lost, refused or cut, a link that is dialled ends up open at *)
(* both ends or dead at both: no timer-less wait, no endless renegotiation. *)
LinkProgress == <>[](Settled)
=============================================================================
