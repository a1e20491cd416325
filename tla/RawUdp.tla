------------------------------- MODULE RawUdp -------------------------------
(***************************************************************************)
(* etherraw.ino: an Ethernet program without a stack.  setup() may run one *)
(* of three UDP clients (the calls are there, commented out) and loop()    *)
(* then answers ARP and ping for ever.  The clients poll the receive ring  *)
(* with check_rx, which keeps one datagram in UDP_buff; UDP_lth says that  *)
(* there is one.                                                           *)
(*                                                                         *)
(* The ring is the queue of frames received and not yet handled (its       *)
(* descriptors are in module EnetRing).  A datagram is the number of the   *)
(* request it answers.  The peer answers each request once; the network    *)
(* may lose and duplicate.                                                 *)
(***************************************************************************)
EXTENDS Integers, Sequences, FiniteSets

CONSTANTS
  reps, WPKTS,
  RXSIZE,    \* frames the receive ring can hold
  OTHERS     \* bound: frames of other hosts

\* What the constants may be.
RawConstants ==
  /\ reps \in Nat \ {0} /\ WPKTS \in Nat \ {0} /\ RXSIZE \in Nat \ {0}
  /\ OTHERS \in Nat

Free == -1      \* UDP_lth = 0

VARIABLES
  app,      \* the client that setup() runs
  pc,       \* where the program is
  i, acks,  \* the counters of the client
  ring,     \* frames received
  UDP,      \* what UDP_buff holds, Free when UDP_lth is zero
  net,      \* answers on their way
  others,   \* frames other hosts have sent
  owed,     \* requests of other hosts accepted into the ring
  replied,  \* answers sent to them
  own,      \* whether each datagram taken answered the request last sent
  lost,     \* whether the network has lost an answer
  dup,      \* whether it has duplicated one
  spilled   \* whether a datagram was replaced in UDP_buff

vars == <<app, pc, i, acks, ring, UDP, net, others, owed, replied, own, lost, dup, spilled>>

Init ==
  /\ app \in {"udp_echo", "udp_tcp", "udp_ntp", "none"}
  /\ pc = CASE app = "none" -> "loop" [] app = "udp_tcp" -> "blast" [] OTHER -> "send"
  /\ i = 0 /\ acks = 0 /\ ring = <<>> /\ UDP = Free /\ net = {}
  /\ others = 0 /\ owed = 0 /\ replied = 0 /\ own = TRUE
  /\ lost = FALSE /\ dup = FALSE /\ spilled = FALSE

(***************************************************************************)
(* The network and the ring.                                               *)
(***************************************************************************)

Accept(frame) == ring' = IF Len(ring) < RXSIZE THEN Append(ring, frame) ELSE ring

Deliver(d) ==
  /\ Accept([kind |-> "udp", data |-> d])
  /\ \/ net' = net \ {d} /\ UNCHANGED dup
     \/ dup' = TRUE /\ UNCHANGED net
  /\ UNCHANGED <<app, pc, i, acks, UDP, others, owed, replied, own, lost, spilled>>

Lose(d) ==
  /\ net' = net \ {d} /\ lost' = TRUE
  /\ UNCHANGED <<app, pc, i, acks, ring, UDP, others, owed, replied, own, dup, spilled>>

\* An ARP request for this host, a ping of at most the 1024 bytes ping_reply
\* copies, or else: a longer ping, an ARP answer, TCP, frames for others.
OtherFrame(kind) ==
  /\ others < OTHERS
  /\ others' = others + 1
  /\ Accept([kind |-> kind, data |-> Free])
  /\ owed' = IF Len(ring) < RXSIZE /\ kind \in {"arp", "ping"} THEN owed + 1 ELSE owed
  /\ UNCHANGED <<app, pc, i, acks, UDP, net, replied, own, lost, dup, spilled>>

(***************************************************************************)
(* Handling one frame: check_rx with handle_frame, and loop with incoming. *)
(***************************************************************************)

Answer(frame) ==
  replied' = IF frame.kind \in {"arp", "ping"} THEN replied + 1 ELSE replied

handle_frame(frame) ==
  /\ UDP' = IF frame.kind = "udp" THEN frame.data ELSE UDP
  /\ spilled' = (spilled \/ (frame.kind = "udp" /\ UDP # Free))
  /\ Answer(frame)

incoming(frame) == Answer(frame) /\ UNCHANGED <<UDP, spilled>>

check_rx ==
  /\ ring # <<>>
  /\ handle_frame(Head(ring))
  /\ ring' = Tail(ring)
  /\ UNCHANGED <<app, pc, i, acks, net, others, owed, own, lost, dup>>

loop ==
  /\ pc = "loop" /\ ring # <<>>
  /\ incoming(Head(ring))
  /\ ring' = Tail(ring)
  /\ UNCHANGED <<app, pc, i, acks, net, others, owed, own, lost, dup>>

(***************************************************************************)
(* The clients.                                                            *)
(***************************************************************************)
sendto(d) == net' = net \cup {d}


recvfrom == UDP # Free /\ own' = (own /\ UDP = i) /\ UDP' = Free

\* while(UDP_lth==0) check_rx();
poll == pc \in {"wait", "drain"} /\ UDP = Free /\ check_rx

Rest == UNCHANGED <<app, ring, others, owed, replied, lost, dup, spilled>>

\* udp_echo and udp_ntp send one request and wait for one datagram.
Send ==
  /\ pc = "send" /\ sendto(i)
  /\ pc' = "wait"
  /\ UNCHANGED <<i, acks, UDP, own>> /\ Rest

EndOf(n) == IF n < reps THEN "send" ELSE "loop"

udp_echo ==
  /\ app = "udp_echo" /\ pc = "wait" /\ recvfrom
  /\ i' = i + 1 /\ pc' = EndOf(i + 1)
  /\ UNCHANGED <<acks, net>> /\ Rest

udp_ntp ==
  /\ app = "udp_ntp" /\ pc = "wait" /\ recvfrom
  /\ pc' = "delay"
  /\ UNCHANGED <<i, acks, net>> /\ Rest

\* while(millis() -t < ms) check_rx();
active_delay == pc = "delay" /\ check_rx

delay_over ==
  /\ pc = "delay"
  /\ i' = i + 1 /\ pc' = EndOf(i + 1)
  /\ UNCHANGED <<acks, UDP, net, own>> /\ Rest

\* udp_tcp keeps WPKTS requests on their way.
Blast ==
  /\ pc = "blast" /\ sendto(i)
  /\ i' = i + 1
  /\ pc' = IF i + 1 < WPKTS THEN "blast" ELSE IF i + 1 < reps THEN "wait" ELSE "drain"
  /\ UNCHANGED <<acks, UDP, own>> /\ Rest

\* An answer makes room for the next request.
udp_tcp ==
  /\ app = "udp_tcp" /\ pc = "wait" /\ recvfrom
  /\ acks' = acks + 1
  /\ sendto(i) /\ i' = i + 1
  /\ pc' = IF i + 1 < reps THEN "wait" ELSE "drain"
  /\ Rest

udp_tcp_drain ==
  /\ pc = "drain" /\ acks < reps /\ recvfrom
  /\ acks' = acks + 1
  /\ pc' = IF acks + 1 < reps THEN "drain" ELSE "loop"
  /\ UNCHANGED <<i, net>> /\ Rest

Program ==
  \/ loop \/ poll \/ Send \/ udp_echo \/ udp_ntp \/ active_delay \/ delay_over
  \/ Blast \/ udp_tcp \/ udp_tcp_drain

Next ==
  \/ Program
  \/ \E d \in net : Deliver(d) \/ Lose(d)
  \/ \E kind \in {"arp", "ping", "else"} : OtherFrame(kind)

Spec == Init /\ [][Next]_vars

-----------------------------------------------------------------------------
\* Counters and queues stay within the bounds of the code.
TypeOK ==
  /\ pc \in {"loop", "blast", "send", "wait", "delay", "drain"}
  /\ i \in 0 .. reps + WPKTS /\ acks \in 0 .. reps
  /\ Len(ring) <= RXSIZE /\ UDP \in {Free} \cup (0 .. i)
  /\ net \subseteq 0 .. i /\ others \in 0 .. OTHERS
  /\ {own, lost, dup, spilled} \subseteq BOOLEAN

\* No datagram is lost in the holding area: the clients do not call check_rx
\* while it is full.  Only the active_delay of udp_ntp does, and only when an
\* answer came twice.
NothingSpilled == spilled => app = "udp_ntp" /\ dup

\* Every ARP request and ping that reaches the ring is answered exactly once.
AnswersOwed ==
  owed = replied + Len(SelectSeq(ring, LAMBDA f : f.kind \in {"arp", "ping"}))

\* Without duplicates, a client that sends one request at a time takes the
\* answer of that request: the round trip times it prints are real.
OwnAnswer == ~dup /\ app # "udp_tcp" => own

\* When the network neither loses nor duplicates and nobody else talks, the
\* client finishes and the program goes on to serve: its own answers never
\* overflow the ring.
Served == pc = "loop" \/ lost \/ dup \/ others > 0
=============================================================================
