------------------------------ MODULE PppAuth ------------------------------
(* netif/ppp/chap.c and netif/ppp/pap.c: both sides of both authentication  *)
(* protocols.  As in PppBase, a handler collects the packets it writes in   *)
(* "out" and its calls to auth.c in "calls".                                *)
EXTENDS PppBase

CONSTANTS CHAP_DEFTRANSMITS,   \* challenges sent before giving up
          UPAP_MAXTRANSMITS    \* Authenticate-Requests sent before giving up

(* "chal", "resp" and "again" are the pending timers ChapChallengeTimeout,  *)
(* ChapResponseTimeout and ChapRechallenge.  A challenge is named by its    *)
(* id: ChapGenChallenge draws a new id and a new random string together.    *)
ChapInit(chal_interval) ==
  [proto |-> "chap", client |-> "INITIAL", server |-> "INITIAL", chal_id |-> 0,
   chal_transmits |-> 0, resp |-> [id |-> 0, hash |-> <<>>], timers |-> {},
   chal_interval |-> chal_interval, out |-> <<>>, calls |-> <<>>]

Write(c, code, id, data) ==
  [c EXCEPT !.out = Append(@, [proto |-> c.proto, code |-> code, id |-> id, data |-> data])]
Upcall(c, cb) == [c EXCEPT !.calls = Append(@, <<c.proto, cb>>)]
Start(c, t) == [c EXCEPT !.timers = @ \union {t}]
Stop(c, t) == [c EXCEPT !.timers = @ \ {t}]

ChapGenChallenge(c) == [c EXCEPT !.chal_id = Next256(@), !.chal_transmits = 0]
ChapSendChallenge(c) ==
  [Start(Write(c, "CHALLENGE", c.chal_id, c.chal_id), "chal")
     EXCEPT !.chal_transmits = @ + 1]
ChapSendStatus(c, code) == Write(c, code, c.chal_id, <<>>)
ChapSendResponse(c) ==
  [Start(Write(c, "RESPONSE", c.resp.id, c.resp.hash), "resp") EXCEPT !.client = "RESPONSE"]

(* The digest of the challenge under a secret. *)
MD5(id, secret, challenge) == <<id, secret, challenge>>

ChapAuthWithPeer(c) ==
  [c EXCEPT !.client = IF @ \in {"INITIAL", "PENDING"} THEN "PENDING" ELSE "LISTEN"]

ChapChallenge(c, state) ==
  [ChapSendChallenge(ChapGenChallenge(c)) EXCEPT !.server = state]

ChapAuthPeer(c) ==
  IF c.server \in {"INITIAL", "PENDING"} THEN [c EXCEPT !.server = "PENDING"]
  ELSE ChapChallenge(c, "INITIAL_CHAL")

ChapChallengeTimeout(c) ==
  IF c.server \notin {"INITIAL_CHAL", "RECHALLENGE"} THEN c
  ELSE IF c.chal_transmits >= CHAP_DEFTRANSMITS
    THEN Upcall([c EXCEPT !.server = "BADAUTH"], "peer_fail")
    ELSE ChapSendChallenge(c)

ChapResponseTimeout(c) == IF c.client = "RESPONSE" THEN ChapSendResponse(c) ELSE c

ChapRechallenge(c) == IF c.server = "OPEN" THEN ChapChallenge(c, "RECHALLENGE") ELSE c

ChapLowerUp(c) ==
  LET d == [c EXCEPT !.client = CASE @ = "INITIAL" -> "CLOSED"
                                  [] @ = "PENDING" -> "LISTEN" [] OTHER -> @]
  IN  CASE d.server = "INITIAL" -> [d EXCEPT !.server = "CLOSED"]
        [] d.server = "PENDING" -> ChapChallenge(d, "INITIAL_CHAL")
        [] OTHER -> d

ChapLowerDown(c) ==
  [c EXCEPT
     !.timers = @ \ ((IF c.server \in {"INITIAL_CHAL", "RECHALLENGE"} THEN {"chal"}
                      ELSE IF c.server = "OPEN" /\ c.chal_interval THEN {"again"} ELSE {})
                     \union (IF c.client = "RESPONSE" THEN {"resp"} ELSE {})),
     !.client = "INITIAL", !.server = "INITIAL"]

ChapProtocolReject(c) ==
  LET a == IF c.server \in {"INITIAL", "CLOSED"} THEN c ELSE Upcall(c, "peer_fail")
      b == IF c.client \in {"INITIAL", "CLOSED"} THEN a ELSE Upcall(a, "withpeer_fail")
  IN  ChapLowerDown(b)

ChapReceiveChallenge(c, id, challenge, secret) ==
  IF c.client \in {"CLOSED", "PENDING"} THEN c
  ELSE ChapSendResponse([Stop(c, "resp") EXCEPT
         !.resp = [id |-> id, hash |-> MD5(id, secret, challenge)]])

(* A duplicate response gets the answer of the first. *)
ChapCheck(c, good) ==
  IF good
    THEN LET d == [ChapSendStatus(c, "SUCCESS") EXCEPT !.server = "OPEN"]
             u == IF c.server = "INITIAL_CHAL" THEN Upcall(d, "peer_success") ELSE d
         IN  IF c.chal_interval THEN Start(u, "again") ELSE u
    ELSE Upcall([ChapSendStatus(c, "FAILURE") EXCEPT !.server = "BADAUTH"], "peer_fail")

ChapReceiveResponse(c, id, hash, secret) ==
  IF c.server \in {"CLOSED", "PENDING"} \/ id # c.chal_id THEN c
  ELSE CASE c.server = "OPEN" -> ChapSendStatus(c, "SUCCESS")
         [] c.server = "BADAUTH" -> ChapSendStatus(c, "FAILURE")
         [] OTHER -> ChapCheck(Stop(c, "chal"),
                               hash = MD5(c.chal_id, secret, c.chal_id))

ChapReceiveSuccess(c) ==
  IF c.client # "RESPONSE" THEN c
  ELSE Upcall([Stop(c, "resp") EXCEPT !.client = "OPEN"], "withpeer_success")

ChapReceiveFailure(c) ==
  IF c.client # "RESPONSE" THEN c ELSE Upcall(Stop(c, "resp"), "withpeer_fail")

ChapInput(c, k, secret) ==
  CASE k.code = "CHALLENGE" -> ChapReceiveChallenge(c, k.id, k.data, secret)
    [] k.code = "RESPONSE" -> ChapReceiveResponse(c, k.id, k.data, secret)
    [] k.code = "SUCCESS" -> ChapReceiveSuccess(c)
    [] k.code = "FAILURE" -> ChapReceiveFailure(c)
    [] OTHER -> c

-----------------------------------------------------------------------------
(* PAP: "auth" and "req" are the pending timers upap_timeout, upap_reqtimeout. *)
upap_init ==
  [proto |-> "pap", client |-> "INITIAL", server |-> "INITIAL", id |-> 0,
   transmits |-> 0, timers |-> {}, out |-> <<>>, calls |-> <<>>]

upap_sauthreq(u) ==
  [Start(Write(u, "AUTHREQ", Next256(u.id), <<>>), "auth")
     EXCEPT !.id = Next256(@), !.transmits = @ + 1, !.client = "AUTHREQ"]
upap_sresp(u, code, id) == Write(u, code, id, <<>>)

upap_authwithpeer(u0) ==
  LET u == [u0 EXCEPT !.transmits = 0]
  IN  IF u.client \in {"INITIAL", "PENDING"} THEN [u EXCEPT !.client = "PENDING"]
      ELSE upap_sauthreq(u)

UpapListen(u) == Start([u EXCEPT !.server = "LISTEN"], "req")

upap_authpeer(u) ==
  IF u.server \in {"INITIAL", "PENDING"} THEN [u EXCEPT !.server = "PENDING"]
  ELSE UpapListen(u)

upap_timeout(u) ==
  IF u.client # "AUTHREQ" THEN u
  ELSE IF u.transmits >= UPAP_MAXTRANSMITS
    THEN Upcall([u EXCEPT !.client = "BADAUTH"], "withpeer_fail")
    ELSE upap_sauthreq(u)

(* The server state is set after the link has been taken down. *)
upap_reqtimeout(u) ==
  IF u.server # "LISTEN" THEN u ELSE Upcall(Upcall(u, "peer_fail"), "badauth")

upap_lowerup(u0) ==
  LET u == CASE u0.client = "INITIAL" -> [u0 EXCEPT !.client = "CLOSED"]
             [] u0.client = "PENDING" -> upap_sauthreq(u0) [] OTHER -> u0
  IN  CASE u.server = "INITIAL" -> [u EXCEPT !.server = "CLOSED"]
        [] u.server = "PENDING" -> UpapListen(u) [] OTHER -> u

upap_lowerdown(u) ==
  [u EXCEPT !.timers = @ \ ((IF u.client = "AUTHREQ" THEN {"auth"} ELSE {})
                            \union (IF u.server = "LISTEN" THEN {"req"} ELSE {})),
            !.client = "INITIAL", !.server = "INITIAL"]

upap_protrej(u) ==
  LET a == IF u.client = "AUTHREQ" THEN Upcall(u, "withpeer_fail") ELSE u
      b == IF u.server = "LISTEN" THEN Upcall(a, "peer_fail") ELSE a
  IN  upap_lowerdown(b)

(* check_passwd accepts every name and password. *)
upap_rauthreq(u, id) ==
  CASE u.server \in {"INITIAL", "CLOSED", "PENDING"} -> u
    [] u.server = "OPEN" -> upap_sresp(u, "AUTHACK", id)
    [] u.server = "BADAUTH" -> upap_sresp(u, "AUTHNAK", id)
    [] OTHER -> Stop(Upcall([upap_sresp(u, "AUTHACK", id) EXCEPT !.server = "OPEN"],
                            "peer_success"), "req")

upap_rauthack(u) ==
  IF u.client # "AUTHREQ" THEN u
  ELSE Upcall([Stop(u, "auth") EXCEPT !.client = "OPEN"], "withpeer_success")

(* The timer stays armed; upap_timeout ignores it in BADAUTH. *)
upap_rauthnak(u) ==
  IF u.client # "AUTHREQ" THEN u
  ELSE Upcall([u EXCEPT !.client = "BADAUTH"], "withpeer_fail")

upap_input(u, k) ==
  CASE k.code = "AUTHREQ" -> upap_rauthreq(u, k.id)
    [] k.code = "AUTHACK" -> upap_rauthack(u)
    [] k.code = "AUTHNAK" -> upap_rauthnak(u)
    [] OTHER -> u

=============================================================================
