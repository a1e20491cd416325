---------------------------- MODULE Select_proofs ----------------------------
(***************************************************************************)
(* lwip_select loses no wakeup, for any number of threads, of callers of   *)
(* event_callback and of sockets.  The induction needs that the entries of *)
(* the list are distinct and exactly those of the threads between Enlist   *)
(* and Delist, that select_waiting counts the threads interested, so that  *)
(* event_callback returns early only where it may, and what is known of a  *)
(* thread that is still in its second scan.                                *)
(***************************************************************************)
EXTENDS Select, FiniteSetTheorems, WellFoundedInduction, TLAPS

Place == {"idle", "scan1", "enlist", "enter", "scan2", "wait", "leave", "expired",
          "delist", "giveup", "scan3"}
OnList == {"enter", "scan2", "wait", "leave", "expired", "delist", "giveup"}
Locals == [at : Place, i : Fd, want : SUBSET (Fd \X Kind), found : BOOLEAN,
           timeout : {"none", "poll", "some"}]
Cb == [sock : Fd, cur : Selectors \cup {NoCb}, last : Nat]

Types ==
  /\ events \in [Fd -> [rcv : Int, send : BOOLEAN, err : BOOLEAN]]
  /\ select_waiting \in [Fd -> Int]
  /\ cbs \in [Selectors -> Nat] /\ select_cb_ctr \in Nat
  /\ sem_signalled \in [Selectors -> BOOLEAN] /\ sem \in [Selectors -> Nat]
  /\ sel \in [Selectors -> Locals]
  /\ walk \in [Callers -> Cb]

\* The list holds the threads between Enlist and Delist, each once; a caller
\* that has seen the last change is at an entry of the list.
ListOK ==
  /\ \A t \in Selectors : cbs[t] <= select_cb_ctr /\ (cbs[t] > 0 <=> sel[t].at \in OnList)
  /\ \A t, u \in Selectors : cbs[t] > 0 /\ cbs[t] = cbs[u] => t = u
  /\ \A e \in Callers : walk[e].cur # NoCb =>
       walk[e].last <= select_cb_ctr /\ (walk[e].last = select_cb_ctr => cbs[walk[e].cur] > 0)

\* Between its loops a thread has its index back at the first socket.
IndexOK == \A t \in Selectors : sel[t].at \in {"enlist", "wait"} => sel[t].i = 0

\* A semaphore counts to one, and has the signal until the thread takes it.
SemOK ==
  \A t \in Selectors :
    /\ sem[t] > 0 => sem[t] = 1 /\ sem_signalled[t]
    /\ sel[t].at \in {"enter", "scan2", "wait"} /\ sem_signalled[t] => sem[t] = 1

\* The threads that have counted themselves in for socket s and not out.
CountsIn(l, s) ==
  /\ Interested(l.want, s)
  /\ \/ l.at \in {"scan2", "wait"}
     \/ l.at = "enter" /\ s < l.i
     \/ l.at \in {"leave", "expired"} /\ s >= l.i
Counted(s) == {t \in Selectors : CountsIn(sel[t], s)}

CountOK == \A s \in Fd : select_waiting[s] = Cardinality(Counted(s))

\* A thread that waits, or is past socket s in its second scan, while s is
\* ready has been signalled or will be visited.
Woken(t, s) ==
  Matches(events[s], sel[t].want, s) =>
    \/ sel[t].at = "scan2" /\ (sel[t].found \/ s >= sel[t].i)
    \/ \E e \in Callers : WillVisit(e, s, t)
WakeOK ==
  \A t \in Selectors : sel[t].at \in {"scan2", "wait"} /\ ~sem_signalled[t] =>
    \A s \in Fd : Woken(t, s)

IInv == Types /\ ListOK /\ IndexOK /\ SemOK /\ CountOK /\ WakeOK

USE SelectConstants

-----------------------------------------------------------------------------
\* A non-empty set of naturals has a least element.
LEMMA LeastNat ==
  ASSUME NEW D \in SUBSET Nat, D # {}
  PROVE  \E x \in D : \A y \in D : x <= y
<1> DEFINE R == OpToRel(<, Nat)
<1>1. \A x, y \in Nat : <<y, x>> \in R <=> y < x BY DEF OpToRel
<1>2. \E x \in D : \A y \in D : ~(<<y, x>> \in R)
  <2>1. IsWellFoundedOn(R, Nat) BY NatLessThanWellFounded
  <2> HIDE DEF R
  <2>2. D \subseteq Nat OBVIOUS
  <2>3. \A RR, SS, TT : IsWellFoundedOn(RR, SS) /\ TT \subseteq SS /\ TT # {} =>
          \E x \in TT : \A y \in TT : ~(<<y, x>> \in RR)
    BY ONLY WFMin, Zenon
  <2> QED BY ONLY <2>1, <2>2, <2>3, D # {}, Zenon
<1> HIDE DEF R
<1>3. PICK x \in D : \A y \in D : ~(<<y, x>> \in R) BY <1>2
<1>4. \A y \in D : ~(y < x) BY <1>1, <1>3, ZenonT(60)
<1> QED BY <1>4

\* A non-empty set of entries has a first one: the list is walked from the
\* latest entry on.
LEMMA FirstEntry ==
  ASSUME Types, ListOK, NEW S \in SUBSET Selectors, S # {}
  PROVE  /\ FirstOf(S) \in S
         /\ \A u \in S : cbs[u] <= cbs[FirstOf(S)]
<1> DEFINE D == {select_cb_ctr - cbs[t] : t \in S}
<1>1. D \in SUBSET Nat /\ D # {}
  BY DEF Types, ListOK
<1>3. PICK x \in D : \A y \in D : x <= y
  <2> HIDE DEF D
  <2> QED BY <1>1, LeastNat
<1>4. PICK t \in S : x = select_cb_ctr - cbs[t]
  BY <1>3
<1>5. \A u \in S : cbs[u] <= cbs[t]
  <2> TAKE u \in S
  <2>1. select_cb_ctr - cbs[t] <= select_cb_ctr - cbs[u] BY <1>3, <1>4
  <2>2. select_cb_ctr \in Nat /\ cbs[u] \in Nat /\ cbs[t] \in Nat BY DEF Types
  <2> QED BY <2>1, <2>2
<1> QED BY <1>5 DEF FirstOf

\* At the start no thread is on the list and no socket is waited for.
LEMMA InitInv == Init_Select => IInv
<1> SUFFICES ASSUME Init_Select PROVE IInv OBVIOUS
<1>1. Types
  BY DEF Init_Select, Types, Idle_, NotWalking, Locals, Place, Cb, Fd
<1>2. ListOK /\ IndexOK /\ SemOK /\ WakeOK
  BY DEF Init_Select, ListOK, IndexOK, SemOK, WakeOK, Idle_, NotWalking, OnList
<1>3. CountOK
  <2>1. \A s \in Fd : Counted(s) = {}
    BY DEF Init_Select, Counted, CountsIn, Interested, Idle_
  <2> QED BY <2>1, FS_EmptySet, ZenonT(60) DEF CountOK, Init_Select
<1> QED BY <1>1, <1>2, <1>3 DEF IInv
-----------------------------------------------------------------------------
\* What a scan leaves in the locals of the thread has their type.
LEMMA ScannedType ==
  ASSUME NEW l \in Locals, NEW b \in BOOLEAN
  PROVE  Scanned(l, b) \in Locals
<1>1. AfterScan(l, b) \in Place BY DEF AfterScan, Place
<1>2. Idle_ \in Locals BY DEF Idle_, Locals, Place, Fd
<1>3. l.i + 1 < FDS => l.i + 1 \in Fd BY DEF Locals, Fd
<1>4. 0 \in Fd BY DEF Fd
<1>5. [l EXCEPT !.i = 0, !.found = FALSE, !.at = AfterScan(l, b)] \in Locals
  BY <1>1, <1>4, ZenonT(60) DEF Locals
<1>6. l.i + 1 < FDS => [l EXCEPT !.i = @ + 1, !.found = b] \in Locals
  BY <1>3, ZenonT(60) DEF Locals
<1> QED BY <1>2, <1>5, <1>6 DEF Scanned

\* Nor does a change of place.
LEMMA AtType ==
  ASSUME NEW l \in Locals, NEW p \in Place
  PROVE  [l EXCEPT !.at = p] \in Locals
BY Zenon DEF Locals

\* event_callback leaves a socket's events well typed.
LEMMA RaisedType ==
  ASSUME NEW ev \in [rcv : Int, send : BOOLEAN, err : BOOLEAN], NEW evt
  PROVE  Raised(ev, evt) \in [rcv : Int, send : BOOLEAN, err : BOOLEAN]
<1>1. ev.rcv + 1 \in Int /\ ev.rcv - 1 \in Int OBVIOUS
<1>2. [ev EXCEPT !.rcv = @ + 1] \in [rcv : Int, send : BOOLEAN, err : BOOLEAN]
  BY <1>1, Zenon
<1>3. [ev EXCEPT !.rcv = @ - 1] \in [rcv : Int, send : BOOLEAN, err : BOOLEAN]
  BY <1>1, Zenon
<1>4. \A b \in BOOLEAN : [ev EXCEPT !.send = b] \in [rcv : Int, send : BOOLEAN, err : BOOLEAN]
  BY Zenon
<1>5. [ev EXCEPT !.err = TRUE] \in [rcv : Int, send : BOOLEAN, err : BOOLEAN]
  BY Zenon
<1> QED BY <1>2, <1>3, <1>4, <1>5, Zenon DEF Raised

\* The next entry of a walk is an entry or the end of the list.
LEMMA FirstOfType ==
  ASSUME Types, ListOK, NEW S \in SUBSET Selectors
  PROVE  FirstOf(S) \in Selectors \cup {NoCb}
<1>1. CASE S = {} BY <1>1 DEF FirstOf
<1>2. CASE S # {} BY <1>2, FirstEntry
<1> QED BY <1>1, <1>2

\* A look at an entry leaves the semaphores and the walk well typed.
LEMMA LookTypes ==
  ASSUME Types, NEW e \in Callers, NEW s \in Fd, NEW ev,
         NEW t \in Selectors \cup {NoCb}, Look(e, s, ev, t)
  PROVE  /\ sem_signalled' \in [Selectors -> BOOLEAN]
         /\ sem' \in [Selectors -> Nat]
         /\ walk' \in [Callers -> Cb]
<1>1. sem_signalled' \in [Selectors -> BOOLEAN]
  BY Zenon DEF Types, Look
<1>4. sem' \in [Selectors -> Nat]
  <2>1. t # NoCb => sem[t] + 1 \in Nat BY DEF Types
  <2> QED BY <2>1 DEF Types, Look
<1>2. NotWalking \in Cb BY DEF NotWalking, Cb, Fd
<1>3. [sock |-> s, cur |-> t, last |-> select_cb_ctr] \in Cb BY DEF Cb, Types
<1> QED BY <1>1, <1>2, <1>3, <1>4 DEF Types, Look

\* Every step keeps the types.
LEMMA TypesNext ==
  ASSUME Types, ListOK, Next_Select
  PROVE  Types'
<1>1. ASSUME NEW t \in Selectors, NEW want \in Wants,
             NEW timeout \in {"none", "poll", "some"}, Select(t, want, timeout)
      PROVE  Types'
  <2>1. [at |-> "scan1", i |-> 0, want |-> want, found |-> FALSE, timeout |-> timeout] \in Locals
    BY DEF Locals, Place, Fd
  <2> QED BY <1>1, <2>1 DEF Types, Select
<1>2. ASSUME NEW t \in Selectors, lwip_selscan(t) PROVE Types'
  <2>1. sel[t] \in Locals /\ sel[t].found \in BOOLEAN BY DEF Types, Locals
  <2>2. (sel[t].found \/ Matches(events[sel[t].i], sel[t].want, sel[t].i)) \in BOOLEAN
    OBVIOUS
  <2>3. Scanned(sel[t], sel[t].found \/ Matches(events[sel[t].i], sel[t].want, sel[t].i)) \in Locals
    BY <2>1, <2>2, ScannedType, ZenonT(60)
  <2> QED BY <1>2, <2>3 DEF Types, lwip_selscan
<1>3. ASSUME NEW t \in Selectors, Enlist(t) PROVE Types'
  <2>1. Idle_ \in Locals BY DEF Idle_, Locals, Place, Fd
  <2>2. [sel[t] EXCEPT !.at = "enter"] \in Locals BY AtType, ZenonT(60) DEF Types, Place
  <2>3. sem_signalled' \in [Selectors -> BOOLEAN] BY <1>3, Zenon DEF Types, Enlist
  <2>4. sel' \in [Selectors -> Locals] BY <1>3, <2>1, <2>2, ZenonT(60) DEF Types, Enlist
  <2> QED BY <1>3, <2>3, <2>4 DEF Types, Enlist
<1>4. ASSUME NEW t \in Selectors, NEW d \in {1, -1}, NEW next \in Place, CountLoop(t, d, next)
      PROVE  Types'
  <2>1. sel[t] \in Locals BY DEF Types
  <2>2. sel[t].i \in Fd BY <2>1 DEF Locals
  <2>3. [sel[t] EXCEPT !.i = IF @ + 1 < FDS THEN @ + 1 ELSE 0,
                       !.at = IF sel[t].i + 1 < FDS THEN @ ELSE next] \in Locals
    <3>1. (IF sel[t].i + 1 < FDS THEN sel[t].i + 1 ELSE 0) \in Fd BY <2>2 DEF Fd
    <3>2. (IF sel[t].i + 1 < FDS THEN sel[t].at ELSE next) \in Place BY <2>1 DEF Locals
    <3> QED BY <2>1, <3>1, <3>2, Zenon DEF Locals
  <2>4. sel' \in [Selectors -> Locals] BY <1>4, <2>3 DEF CountLoop, Types
  <2>5. select_waiting' \in [Fd -> Int] BY <1>4, <2>2 DEF CountLoop, Types
  <2> QED BY <1>4, <2>4, <2>5 DEF Types, CountLoop
<1>5. ASSUME NEW t \in Selectors, Enter(t) \/ Leave(t) PROVE Types'
  <2>1. {"scan2", "delist", "giveup"} \subseteq Place BY DEF Place
  <2> QED BY <1>4, <1>5, <2>1 DEF Enter, Leave
<1>6. ASSUME NEW t \in Selectors, Wait(t) PROVE Types'
  <2>1. [sel[t] EXCEPT !.at = "leave"] \in Locals /\ [sel[t] EXCEPT !.at = "expired"] \in Locals
    BY AtType, ZenonT(60) DEF Types, Place
  <2> QED BY <1>6, <2>1, SMTT(60) DEF Types, Wait
<1>7. ASSUME NEW t \in Selectors, Delist(t) PROVE Types'
  <2>1. Idle_ \in Locals BY DEF Idle_, Locals, Place, Fd
  <2>2. [sel[t] EXCEPT !.at = "scan3"] \in Locals BY AtType, ZenonT(60) DEF Types, Place
  <2>3. sem_signalled' \in [Selectors -> BOOLEAN] BY <1>7, Zenon DEF Types, Delist
  <2>4. sel' \in [Selectors -> Locals] BY <1>7, <2>1, <2>2 DEF Types, Delist
  <2> QED BY <1>7, <2>3, <2>4 DEF Types, Delist
<1>8. ASSUME NEW e \in Callers, NEW x \in Events, event_callback(e, x[1], x[2]) PROVE Types'
  <2>1. x[1] \in Fd OBVIOUS
  <2>2. events' \in [Fd -> [rcv : Int, send : BOOLEAN, err : BOOLEAN]]
    BY <1>8, <2>1, RaisedType DEF event_callback, Types
  <2>3. FirstOf(Listed) \in Selectors \cup {NoCb} BY FirstOfType DEF Listed
  <2>4. CASE select_waiting[x[1]] = 0 BY <1>8, <2>2, <2>4 DEF event_callback, Types
  <2>5. CASE select_waiting[x[1]] # 0
    <3>1. Look(e, x[1], Raised(events[x[1]], x[2]), FirstOf(Listed))
      BY <1>8, <2>5 DEF event_callback
    <3> QED BY <1>8, <2>1, <2>2, <2>3, <3>1, LookTypes DEF event_callback, Types
  <2> QED BY <2>4, <2>5
<1>9. ASSUME NEW e \in Callers, Walk(e) PROVE Types'
  <2>1. walk[e].sock \in Fd BY DEF Types, Cb
  <2>2. Onward(e) \in Selectors \cup {NoCb} BY FirstOfType DEF Onward, Listed, Behind
  <2> QED BY <1>9, <2>1, <2>2, LookTypes DEF Walk, Types
<1> QED BY <1>1, <1>2, <1>3, <1>5, <1>6, <1>7, <1>8, <1>9 DEF Next_Select, lwip_select
-----------------------------------------------------------------------------
\* A scan keeps the thread on the list or off it.
LEMMA ScannedAt ==
  ASSUME NEW l \in Locals, NEW b \in BOOLEAN, l.at \in {"scan1", "scan2", "scan3"}
  PROVE  /\ Scanned(l, b).at \in OnList <=> l.at \in OnList
         /\ Scanned(l, b).at \in {"enter", "scan2", "wait"} => l.at = "scan2"
BY DEF Scanned, AfterScan, Idle_, OnList, Locals

\* Steps within lwip_select that leave the list alone keep its shape.
LEMMA ListSame ==
  ASSUME Types, ListOK, UNCHANGED <<cbs, select_cb_ctr, walk>>, NEW t \in Selectors,
         NEW l \in Locals, sel' = [sel EXCEPT ![t] = l], l.at \in OnList <=> sel[t].at \in OnList
  PROVE  ListOK'
<1>1. \A u \in Selectors : sel'[u].at \in OnList <=> sel[u].at \in OnList
  BY DEF Types
<1> QED BY <1>1 DEF ListOK

\* The entry looked at is on the list.
LEMMA LookList ==
  ASSUME Types, ListOK, NEW e \in Callers, NEW s \in Fd, NEW ev, NEW S \in SUBSET Listed,
         Look(e, s, ev, FirstOf(S)), UNCHANGED <<cbs, select_cb_ctr, sel>>
  PROVE  ListOK'
<1>1. FirstOf(S) # NoCb => FirstOf(S) \in Selectors /\ cbs[FirstOf(S)] > 0
  BY FirstEntry DEF Listed, FirstOf
<1>2. walk' = [walk EXCEPT ![e] = IF FirstOf(S) = NoCb THEN NotWalking
                 ELSE [sock |-> s, cur |-> FirstOf(S), last |-> select_cb_ctr]]
  BY DEF Look
<1>3. ASSUME NEW f \in Callers, walk'[f].cur # NoCb
      PROVE  walk'[f].last <= select_cb_ctr /\ (walk'[f].last = select_cb_ctr => cbs[walk'[f].cur] > 0)
  <2>1. CASE f = e
    <3>1. FirstOf(S) # NoCb BY <1>2, <1>3, <2>1 DEF NotWalking, Types
    <3>2. walk'[f].last = select_cb_ctr /\ walk'[f].cur = FirstOf(S)
      BY <1>2, <2>1, <3>1 DEF Types
    <3> QED BY <1>1, <3>1, <3>2 DEF Types
  <2>2. CASE f # e BY <1>2, <1>3, <2>2 DEF Types, ListOK
  <2> QED BY <2>1, <2>2
<1> QED BY <1>3 DEF ListOK

\* Every step keeps the list.
LEMMA ListNext ==
  ASSUME Types, ListOK, Next_Select
  PROVE  ListOK'
<1>1. ASSUME NEW t \in Selectors, NEW want \in Wants,
             NEW timeout \in {"none", "poll", "some"}, Select(t, want, timeout)
      PROVE  ListOK'
  BY <1>1 DEF Select, ListOK, Types, OnList
<1>2. ASSUME NEW t \in Selectors, lwip_selscan(t) PROVE ListOK'
  <2> DEFINE b == sel[t].found \/ Matches(events[sel[t].i], sel[t].want, sel[t].i)
  <2>1. sel[t] \in Locals BY DEF Types
  <2>2. b \in BOOLEAN OBVIOUS
  <2> HIDE DEF b
  <2>3. sel' = [sel EXCEPT ![t] = Scanned(sel[t], b)] BY <1>2 DEF lwip_selscan, b
  <2>4. Scanned(sel[t], b).at \in OnList <=> sel[t].at \in OnList
    BY <1>2, <2>1, <2>2, ScannedAt DEF lwip_selscan
  <2> QED BY <1>2, <2>1, <2>2, <2>3, <2>4, ScannedType, ListSame, ZenonT(60) DEF lwip_selscan
<1>3. ASSUME NEW t \in Selectors, Enlist(t) PROVE ListOK'
  <2>1. CASE select_cb_ctr' = select_cb_ctr + 1
    <3>1. cbs' = [cbs EXCEPT ![t] = select_cb_ctr + 1]
      BY <1>3, <2>1 DEF Enlist, Types
    <3>2. sel' = [sel EXCEPT ![t].at = "enter"]
      BY <1>3, <2>1 DEF Enlist, Types
    <3>3. walk' = walk BY <1>3 DEF Enlist
    <3>4. \A u \in Selectors : sel'[u].at = (IF u = t THEN "enter" ELSE sel[u].at)
      BY <3>2 DEF Types, Locals
    <3>5. "enter" \in OnList BY DEF OnList
    <3>6. \A u \in Selectors : cbs'[u] <= select_cb_ctr' /\ (cbs'[u] > 0 <=> sel'[u].at \in OnList)
      BY <2>1, <3>1, <3>4, <3>5 DEF ListOK, Types
    <3>7. \A u, v \in Selectors : cbs'[u] > 0 /\ cbs'[u] = cbs'[v] => u = v
      BY <3>1 DEF ListOK, Types
    <3>8. \A e \in Callers : walk'[e].cur # NoCb =>
            walk'[e].last <= select_cb_ctr' /\ walk'[e].last # select_cb_ctr'
      BY <2>1, <3>3 DEF ListOK, Types, Cb
    <3> QED BY <3>6, <3>7, <3>8 DEF ListOK
  <2>2. CASE UNCHANGED <<cbs, select_cb_ctr>> /\ sel' = [sel EXCEPT ![t] = Idle_]
    BY <1>3, <2>2 DEF ListOK, Types, OnList, Idle_, Enlist
  <2> QED BY <1>3, <2>1, <2>2 DEF Enlist
<1>4. ASSUME NEW t \in Selectors, NEW d \in {1, -1}, NEW next \in OnList, sel[t].at \in OnList,
             CountLoop(t, d, next)
      PROVE  ListOK'
  <2>1. \A u \in Selectors : sel'[u].at \in OnList <=> sel[u].at \in OnList
    BY <1>4 DEF CountLoop, Types, Locals
  <2> QED BY <1>4, <2>1, ZenonT(60) DEF CountLoop, ListOK
<1>5. ASSUME NEW t \in Selectors, Enter(t) \/ Leave(t) PROVE ListOK'
  <2>1. {"scan2", "delist", "giveup", "enter", "leave", "expired"} \subseteq OnList BY DEF OnList
  <2> QED BY <1>4, <1>5, <2>1 DEF Enter, Leave
<1>6. ASSUME NEW t \in Selectors, Wait(t) PROVE ListOK'
  <2>1. \A u \in Selectors : sel'[u].at \in OnList <=> sel[u].at \in OnList
    <3>1. \A u \in Selectors : u # t => sel'[u] = sel[u] BY <1>6 DEF Wait, Types
    <3>2. sel'[t].at \in {"leave", "expired"} BY <1>6 DEF Wait, Types, Locals
    <3> QED BY <1>6, <3>1, <3>2 DEF Wait, OnList
  <2> QED BY <1>6, <2>1 DEF Wait, ListOK
<1>7. ASSUME NEW t \in Selectors, Delist(t) PROVE ListOK'
  <2>1. \A u \in Selectors : sel'[u].at \in OnList <=> sel[u].at \in OnList /\ u # t
    BY <1>7 DEF Delist, Types, Locals, OnList, Idle_
  <2> QED BY <1>7, <2>1 DEF Delist, ListOK, Types, Cb
<1>8. ASSUME NEW e \in Callers, NEW x \in Events, event_callback(e, x[1], x[2]) PROVE ListOK'
  <2>1. x[1] \in Fd OBVIOUS
  <2>2. CASE select_waiting[x[1]] = 0 BY <1>8, <2>2 DEF event_callback, ListOK
  <2>3. CASE select_waiting[x[1]] # 0
    <3>1. Look(e, x[1], Raised(events[x[1]], x[2]), FirstOf(Listed))
      BY <1>8, <2>3 DEF event_callback
    <3> QED BY <1>8, <2>1, <3>1, LookList DEF event_callback
  <2> QED BY <2>2, <2>3, SMTT(60)
<1>9. ASSUME NEW e \in Callers, Walk(e) PROVE ListOK'
  <2>1. walk[e].sock \in Fd BY DEF Types, Cb
  <2> DEFINE S == IF walk[e].last # select_cb_ctr THEN Listed ELSE Behind(walk[e].cur)
  <2>2. S \in SUBSET Listed BY DEF Behind
  <2>3. Onward(e) = FirstOf(S) BY DEF Onward
  <2> HIDE DEF S
  <2> QED BY <1>9, <2>1, <2>2, <2>3, LookList DEF Walk
<1> QED BY <1>1, <1>2, <1>3, <1>5, <1>6, <1>7, <1>8, <1>9 DEF Next_Select, lwip_select
-----------------------------------------------------------------------------
\* event_callback signals a semaphore that has no signal.
LEMMA LookSem ==
  ASSUME Types, SemOK, NEW e \in Callers, NEW s \in Fd, NEW ev,
         NEW t \in Selectors \cup {NoCb}, Look(e, s, ev, t), UNCHANGED sel
  PROVE  SemOK'
<1>1. CASE UNCHANGED <<sem_signalled, sem>> BY <1>1 DEF SemOK
<1>2. CASE /\ t \in Selectors /\ ~sem_signalled[t]
           /\ sem_signalled' = [sem_signalled EXCEPT ![t] = TRUE]
           /\ sem' = [sem EXCEPT ![t] = @ + 1]
  <2>1. sem[t] = 0 BY <1>2 DEF SemOK, Types
  <2>2. sem'[t] = 1 /\ sem_signalled'[t] BY <1>2, <2>1 DEF Types
  <2>3. \A u \in Selectors : u # t => sem'[u] = sem[u] /\ (sem_signalled'[u] <=> sem_signalled[u])
    BY <1>2 DEF Types
  <2> QED BY <2>2, <2>3 DEF SemOK
<1> QED BY <1>1, <1>2 DEF Look

\* Every step keeps the semaphores.
LEMMA SemNext ==
  ASSUME Types, ListOK, SemOK, Next_Select
  PROVE  SemOK'
<1> DEFINE Signalable == {"enter", "scan2", "wait"}
<1>0. ASSUME UNCHANGED <<sem_signalled, sem>>,
             \A u \in Selectors : sel'[u].at \in Signalable => sel[u].at \in Signalable
      PROVE  SemOK'
  BY <1>0 DEF SemOK
<1>1. ASSUME NEW t \in Selectors, NEW want \in Wants,
             NEW timeout \in {"none", "poll", "some"}, Select(t, want, timeout)
      PROVE  SemOK'
  <2>1. \A u \in Selectors : sel'[u].at \in Signalable => sel[u].at \in Signalable
    BY <1>1, SMTT(60) DEF Select, Types
  <2> QED BY <1>0, <1>1, <2>1 DEF Select
<1>2. ASSUME NEW t \in Selectors, lwip_selscan(t) PROVE SemOK'
  <2> DEFINE b == sel[t].found \/ Matches(events[sel[t].i], sel[t].want, sel[t].i)
  <2>1. sel[t] \in Locals BY DEF Types
  <2>2. b \in BOOLEAN OBVIOUS
  <2> HIDE DEF b
  <2>3. sel' = [sel EXCEPT ![t] = Scanned(sel[t], b)] BY <1>2 DEF lwip_selscan, b
  <2>4. Scanned(sel[t], b).at \in Signalable => sel[t].at = "scan2"
    BY <1>2, <2>1, <2>2, ScannedAt DEF lwip_selscan
  <2>5. \A u \in Selectors : sel'[u].at \in Signalable => sel[u].at \in Signalable
    BY <2>3, <2>4 DEF Types
  <2> QED BY <1>0, <1>2, <2>5 DEF lwip_selscan
<1>3. ASSUME NEW t \in Selectors, Enlist(t) PROVE SemOK'
  <2>1. CASE select_cb_ctr' = select_cb_ctr + 1
    <3>1. /\ sem_signalled' = [sem_signalled EXCEPT ![t] = FALSE]
          /\ sem' = [sem EXCEPT ![t] = 0] /\ sel' = [sel EXCEPT ![t].at = "enter"]
      BY <1>3, <2>1 DEF Enlist, Types
    <3>2. sem'[t] = 0 /\ ~sem_signalled'[t] BY <3>1 DEF Types
    <3>3. \A u \in Selectors : u # t => sem'[u] = sem[u] /\ (sem_signalled'[u] <=> sem_signalled[u])
                                        /\ sel'[u] = sel[u]
      BY <3>1 DEF Types
    <3> QED BY <3>2, <3>3 DEF SemOK
  <2>2. CASE UNCHANGED <<sem_signalled, sem>> /\ sel' = [sel EXCEPT ![t] = Idle_]
    <3>1. \A u \in Selectors : sel'[u].at \in Signalable => sel[u].at \in Signalable
      BY <2>2 DEF Idle_, Types
    <3> QED BY <1>0, <2>2, <3>1
  <2> QED BY <1>3, <2>1, <2>2 DEF Enlist
<1>5. ASSUME NEW t \in Selectors, Enter(t) \/ Leave(t) PROVE SemOK'
  <2>1. \A u \in Selectors : u # t => sel'[u] = sel[u]
    BY <1>5 DEF Enter, Leave, CountLoop, Types
  <2>2. sel'[t].at \in Signalable => sel[t].at \in Signalable
    BY <1>5 DEF Enter, Leave, CountLoop, Types, Locals
  <2>3. UNCHANGED <<sem_signalled, sem>> BY <1>5 DEF Enter, Leave, CountLoop
  <2> QED BY <1>0, <2>1, <2>2, <2>3
<1>6. ASSUME NEW t \in Selectors, Wait(t) PROVE SemOK'
  <2>1. \A u \in Selectors : u # t => sel'[u] = sel[u] /\ sem'[u] = sem[u] BY <1>6 DEF Wait, Types
  <2>2. sel'[t].at \in {"leave", "expired"} BY <1>6 DEF Wait, Types, Locals
  <2>3. sem'[t] = 0 BY <1>6 DEF Wait, Types, SemOK
  <2> QED BY <1>6, <2>1, <2>2, <2>3 DEF SemOK, Wait
<1>7. ASSUME NEW t \in Selectors, Delist(t) PROVE SemOK'
  <2>1. sem'[t] = 0 /\ sel'[t].at \notin Signalable BY <1>7 DEF Delist, Types, Locals, Idle_
  <2>2. \A u \in Selectors : u # t => sem'[u] = sem[u] /\ (sem_signalled'[u] <=> sem_signalled[u])
                                      /\ sel'[u] = sel[u]
    BY <1>7 DEF Delist, Types
  <2> QED BY <2>1, <2>2 DEF SemOK
<1>8. ASSUME NEW e \in Callers, NEW x \in Events, event_callback(e, x[1], x[2]) PROVE SemOK'
  <2>1. x[1] \in Fd OBVIOUS
  <2>2. CASE select_waiting[x[1]] = 0 BY <1>8, <2>2 DEF event_callback, SemOK
  <2>3. CASE select_waiting[x[1]] # 0
    <3>1. Look(e, x[1], Raised(events[x[1]], x[2]), FirstOf(Listed))
      BY <1>8, <2>3 DEF event_callback
    <3>2. FirstOf(Listed) \in Selectors \cup {NoCb} BY FirstOfType DEF Listed
    <3> QED BY <1>8, <2>1, <3>1, <3>2, LookSem DEF event_callback
  <2> QED BY <2>2, <2>3
<1>9. ASSUME NEW e \in Callers, Walk(e) PROVE SemOK'
  <2>1. walk[e].sock \in Fd BY DEF Types, Cb
  <2>2. Onward(e) \in Selectors \cup {NoCb} BY FirstOfType, SMTT(60) DEF Onward, Listed, Behind
  <2> QED BY <1>9, <2>1, <2>2, LookSem DEF Walk
<1> QED BY <1>1, <1>2, <1>3, <1>5, <1>6, <1>7, <1>8, <1>9, SMTT(60) DEF Next_Select, lwip_select
-----------------------------------------------------------------------------
\* Every loop over the sockets ends with the index at the first one.
LEMMA IndexNext ==
  ASSUME Types, IndexOK, Next_Select
  PROVE  IndexOK'
<1>0. ASSUME NEW t \in Selectors, \A u \in Selectors : u # t => sel'[u] = sel[u],
             sel'[t].at \in {"enlist", "wait"} => sel'[t].i = 0
      PROVE  IndexOK'
  BY <1>0 DEF IndexOK
<1>1. ASSUME NEW t \in Selectors, NEW want \in Wants,
             NEW timeout \in {"none", "poll", "some"}, Select(t, want, timeout)
      PROVE  IndexOK'
  BY <1>0, <1>1, SMTT(60) DEF Select, Types
<1>2. ASSUME NEW t \in Selectors, lwip_selscan(t) PROVE IndexOK'
  <2> DEFINE b == sel[t].found \/ Matches(events[sel[t].i], sel[t].want, sel[t].i)
  <2>1. sel[t] \in Locals BY DEF Types
  <2>2. sel' = [sel EXCEPT ![t] = Scanned(sel[t], b)] BY <1>2 DEF lwip_selscan
  <2> HIDE DEF b
  <2>3. sel'[t] = Scanned(sel[t], b) /\ \A u \in Selectors : u # t => sel'[u] = sel[u]
    BY <2>2 DEF Types
  <2>4. Scanned(sel[t], b).at \in {"enlist", "wait"} => Scanned(sel[t], b).i = 0
    BY <1>2, <2>1 DEF lwip_selscan, Scanned, Idle_, Locals
  <2> QED BY <1>0, <2>3, <2>4
<1>3. ASSUME NEW t \in Selectors, Enlist(t) PROVE IndexOK'
  BY <1>0, <1>3 DEF Enlist, Types, Locals, Idle_
<1>5. ASSUME NEW t \in Selectors, Enter(t) \/ Leave(t) PROVE IndexOK'
  <2>1. \A u \in Selectors : u # t => sel'[u] = sel[u]
    BY <1>5 DEF Enter, Leave, CountLoop, Types
  <2>2. sel'[t].at \notin {"enlist", "wait"}
    BY <1>5 DEF Enter, Leave, CountLoop, Types, Locals
  <2> QED BY <1>0, <2>1, <2>2
<1>6. ASSUME NEW t \in Selectors, Wait(t) PROVE IndexOK'
  <2>1. sel'[t].at \in {"leave", "expired"} BY <1>6 DEF Wait, Types, Locals
  <2>2. \A u \in Selectors : u # t => sel'[u] = sel[u] BY <1>6 DEF Wait, Types
  <2> QED BY <1>0, <2>1, <2>2
<1>7. ASSUME NEW t \in Selectors, Delist(t) PROVE IndexOK'
  BY <1>0, <1>7 DEF Delist, Types, Locals, Idle_
<1>8. ASSUME UNCHANGED sel PROVE IndexOK'
  BY <1>8 DEF IndexOK
<1> QED BY <1>1, <1>2, <1>3, <1>5, <1>6, <1>7, <1>8
        DEF Next_Select, lwip_select, event_callback, Walk

\* Counts stay right when no thread changes what it counts in.
LEMMA CountSame ==
  ASSUME Types, CountOK, UNCHANGED select_waiting,
         \A u \in Selectors, s \in Fd : CountsIn(sel'[u], s) <=> CountsIn(sel[u], s)
  PROVE  CountOK'
<1>1. \A s \in Fd : Counted(s)' = Counted(s) BY DEF Counted
<1> QED BY <1>1 DEF CountOK

\* A scan does not change what the thread counts in.
LEMMA ScannedCount ==
  ASSUME NEW l \in Locals, NEW b \in BOOLEAN, l.at \in {"scan1", "scan2", "scan3"}, NEW s \in Fd
  PROVE  CountsIn(Scanned(l, b), s) <=> CountsIn(l, s)
<1>1. CASE l.i + 1 < FDS
  <2>1. Scanned(l, b).at = l.at /\ Scanned(l, b).want = l.want BY <1>1 DEF Scanned, Locals
  <2> QED BY <2>1 DEF CountsIn
<1>2. CASE ~(l.i + 1 < FDS) /\ l.at = "scan2"
  <2>1. AfterScan(l, b) = IF b THEN "leave" ELSE "wait" BY <1>2 DEF AfterScan
  <2>2. Scanned(l, b).at = AfterScan(l, b) /\ Scanned(l, b).want = l.want /\ Scanned(l, b).i = 0
    BY <1>2, <2>1 DEF Scanned, Locals
  <2> QED BY <1>2, <2>1, <2>2 DEF CountsIn, Fd
<1>3. CASE ~(l.i + 1 < FDS) /\ l.at # "scan2"
  <2>1. Scanned(l, b).at \in {"idle", "enlist"} BY <1>3 DEF Scanned, AfterScan, Idle_, Locals
  <2> QED BY <1>3, <2>1 DEF CountsIn
<1> QED BY <1>1, <1>2, <1>3

\* Each turn of a counting loop counts the thread in, or out, for one socket.
LEMMA CountTurn ==
  ASSUME Types, CountOK, NEW t \in Selectors, NEW d \in {1, -1}, NEW next,
         CountLoop(t, d, next),
         d = 1 => sel[t].at = "enter" /\ next = "scan2",
         d = -1 => sel[t].at \in {"leave", "expired"} /\ next \in {"delist", "giveup"}
  PROVE  CountOK'
<1> DEFINE l == sel[t]
           m == sel'[t]
<1>a. PICK j \in Fd : j = l.i BY DEF Types, Locals
<1>0. l \in Locals BY DEF Types
<1>1. \A u \in Selectors : u # t => sel'[u] = sel[u] BY DEF CountLoop, Types
<1>2. /\ m.want = l.want
      /\ m.i = (IF j + 1 < FDS THEN j + 1 ELSE 0)
      /\ m.at = (IF j + 1 < FDS THEN l.at ELSE next)
  BY <1>0, <1>a DEF CountLoop, Types, Locals
<1> HIDE DEF l, m
<1>3. \A s \in Fd : s # j => (CountsIn(m, s) <=> CountsIn(l, s))
  BY <1>0, <1>2, <1>a DEF CountsIn, Fd, l
<1>4. d = 1 => ~CountsIn(l, j) /\ (CountsIn(m, j) <=> Interested(l.want, j))
  BY <1>0, <1>2, <1>a DEF CountsIn, Fd, l
<1>5. d = -1 => ~CountsIn(m, j) /\ (CountsIn(l, j) <=> Interested(l.want, j))
  BY <1>0, <1>2, <1>a, SMTT(60) DEF CountsIn, Fd, l
<1>6. \A s \in Fd : s # j => Counted(s)' = Counted(s)
  BY <1>1, <1>3 DEF Counted, l, m
<1>7. \A s \in Fd : s # j => select_waiting'[s] = select_waiting[s]
  BY <1>a DEF CountLoop, Types, l
<1>8. IsFiniteSet(Counted(j))
  <2>1. Counted(j) \in SUBSET Selectors BY DEF Counted
  <2> QED BY <2>1, FS_Subset
<1>9. Cardinality(Counted(j)) \in Nat BY <1>8, FS_CardinalityType
<1>10. select_waiting'[j] = Cardinality(Counted(j)')
  <2>1. CASE ~Interested(l.want, j)
    <3>1. Counted(j)' = Counted(j) BY <1>1, <1>4, <1>5, <2>1 DEF Counted, CountsIn, l, m
    <3>2. select_waiting'[j] = select_waiting[j] BY <1>a, <2>1, SMTT(60) DEF CountLoop, l
    <3> QED BY <1>0, <3>1, <3>2, SMTT(60) DEF CountOK
  <2>2. CASE Interested(l.want, j) /\ d = 1
    <3>1. Counted(j)' = Counted(j) \cup {t} /\ t \notin Counted(j)
      BY <1>1, <1>4, <2>2 DEF Counted, l, m
    <3>2. select_waiting'[j] = select_waiting[j] + 1 BY <1>a, <2>2 DEF CountLoop, Types, l
    <3>3. Cardinality(Counted(j) \cup {t}) = Cardinality(Counted(j)) + 1
      BY <1>8, <3>1, FS_AddElement, ZenonT(60)
    <3> QED BY <1>0, <3>1, <3>2, <3>3, SMTT(60) DEF CountOK
  <2>3. CASE Interested(l.want, j) /\ d = -1
    <3>1. Counted(j)' = Counted(j) \ {t} /\ t \in Counted(j)
      BY <1>1, <1>5, <2>3 DEF Counted, l, m
    <3>2. select_waiting'[j] = select_waiting[j] - 1 BY <1>a, <2>3 DEF CountLoop, Types, l
    <3>3. Cardinality(Counted(j) \ {t}) = Cardinality(Counted(j)) - 1
      BY <1>8, <3>1, FS_RemoveElement, ZenonT(60)
    <3> QED BY <1>0, <1>9, <3>1, <3>2, <3>3, SMTT(60) DEF CountOK
  <2> QED BY <2>1, <2>2, <2>3
<1> QED BY <1>6, <1>7, <1>10 DEF CountOK

\* Every step keeps the counts.
LEMMA CountNext ==
  ASSUME Types, IndexOK, CountOK, Next_Select
  PROVE  CountOK'
<1>0. ASSUME NEW t \in Selectors, UNCHANGED select_waiting,
             \A u \in Selectors : u # t => sel'[u] = sel[u],
             \A s \in Fd : CountsIn(sel'[t], s) <=> CountsIn(sel[t], s)
      PROVE  CountOK'
  <2>1. \A u \in Selectors, s \in Fd : CountsIn(sel'[u], s) <=> CountsIn(sel[u], s)
    BY <1>0
  <2> QED BY <1>0, <2>1, CountSame, SMTT(60)
<1>1. ASSUME NEW t \in Selectors, NEW want \in Wants,
             NEW timeout \in {"none", "poll", "some"}, Select(t, want, timeout)
      PROVE  CountOK'
  <2>1. sel'[t].at = "scan1" /\ sel[t].at = "idle" BY <1>1 DEF Select, Types
  <2>2. \A u \in Selectors : u # t => sel'[u] = sel[u] BY <1>1 DEF Select, Types
  <2>3. \A s \in Fd : CountsIn(sel'[t], s) <=> CountsIn(sel[t], s) BY <2>1, SMTT(60) DEF CountsIn
  <2> QED BY <1>0, <1>1, <2>2, <2>3, ZenonT(60) DEF Select
<1>2. ASSUME NEW t \in Selectors, lwip_selscan(t) PROVE CountOK'
  <2> DEFINE b == sel[t].found \/ Matches(events[sel[t].i], sel[t].want, sel[t].i)
  <2>1. sel[t] \in Locals BY DEF Types
  <2>2. b \in BOOLEAN OBVIOUS
  <2> HIDE DEF b
  <2>3. sel' = [sel EXCEPT ![t] = Scanned(sel[t], b)] BY <1>2 DEF lwip_selscan, b
  <2>4. sel'[t] = Scanned(sel[t], b) /\ \A u \in Selectors : u # t => sel'[u] = sel[u]
    BY <2>3, SMTT(60) DEF Types
  <2>5. \A s \in Fd : CountsIn(sel'[t], s) <=> CountsIn(sel[t], s)
    BY <1>2, <2>1, <2>2, <2>4, ScannedCount DEF lwip_selscan
  <2> QED BY <1>0, <1>2, <2>4, <2>5 DEF lwip_selscan
<1>3. ASSUME NEW t \in Selectors, Enlist(t) PROVE CountOK'
  <2>1. sel[t].at = "enlist" /\ ((sel'[t].at = "enter" /\ sel'[t].i = sel[t].i) \/ sel'[t].at = "idle")
    BY <1>3 DEF Enlist, Types, Locals, Idle_
  <2>2. \A u \in Selectors : u # t => sel'[u] = sel[u] BY <1>3 DEF Enlist, Types
  <2>3. sel[t].i = 0 BY <2>1 DEF IndexOK
  <2>4. \A s \in Fd : CountsIn(sel'[t], s) <=> CountsIn(sel[t], s)
    BY <2>1, <2>3 DEF CountsIn, Fd
  <2> QED BY <1>0, <1>3, <2>2, <2>4 DEF Enlist
<1>5. ASSUME NEW t \in Selectors, Enter(t) \/ Leave(t) PROVE CountOK'
  BY <1>5, CountTurn DEF Enter, Leave
<1>6. ASSUME NEW t \in Selectors, Wait(t) PROVE CountOK'
  <2>1. \A u \in Selectors : u # t => sel'[u] = sel[u] BY <1>6 DEF Wait, Types
  <2>2. sel'[t].at \in {"leave", "expired"} /\ sel[t].at = "wait" /\ sel'[t].want = sel[t].want
        /\ sel'[t].i = sel[t].i
    BY <1>6 DEF Wait, Types, Locals
  <2>3. sel[t].i = 0 BY <2>2 DEF IndexOK
  <2>4. \A s \in Fd : CountsIn(sel'[t], s) <=> CountsIn(sel[t], s)
    BY <2>2, <2>3 DEF CountsIn, Fd
  <2> QED BY <1>0, <1>6, <2>1, <2>4 DEF Wait
<1>7. ASSUME NEW t \in Selectors, Delist(t) PROVE CountOK'
  <2>1. sel[t].at \in {"delist", "giveup"} /\ sel'[t].at \in {"scan3", "idle"}
    BY <1>7 DEF Delist, Types, Locals, Idle_
  <2>2. \A u \in Selectors : u # t => sel'[u] = sel[u] BY <1>7 DEF Delist, Types
  <2>3. \A s \in Fd : CountsIn(sel'[t], s) <=> CountsIn(sel[t], s) BY <2>1, SMTT(60) DEF CountsIn
  <2> QED BY <1>0, <1>7, <2>2, <2>3 DEF Delist
<1>8. ASSUME NEW e \in Callers, NEW x \in Events, event_callback(e, x[1], x[2]) PROVE CountOK'
  BY <1>8, CountSame DEF event_callback
<1>9. ASSUME NEW e \in Callers, Walk(e) PROVE CountOK'
  BY <1>9, CountSame, SMTT(60) DEF Walk
<1> QED BY <1>1, <1>2, <1>3, <1>5, <1>6, <1>7, <1>8, <1>9, SMTT(60) DEF Next_Select, lwip_select
-----------------------------------------------------------------------------
Unsignalled(t) == sel[t].at \in {"scan2", "wait"} /\ ~sem_signalled[t]
StillToScan(t, s) == sel[t].at = "scan2" /\ (sel[t].found \/ s >= sel[t].i)

\* A thread on its way to the list, or from it, does not hide a ready socket
\* from the others.
LEMMA WakeOther ==
  ASSUME Types, ListOK, WakeOK, UNCHANGED <<events, walk>>, NEW t \in Selectors,
         \A u \in Selectors : u # t =>
           sel'[u] = sel[u] /\ cbs'[u] = cbs[u] /\ (sem_signalled'[u] <=> sem_signalled[u]),
         \/ UNCHANGED <<cbs, select_cb_ctr>>
         \/ select_cb_ctr' = select_cb_ctr + 1,
         Unsignalled(t)' => \A s \in Fd : Woken(t, s)'
  PROVE  WakeOK'
<1>1. ASSUME NEW u \in Selectors, u # t, Unsignalled(u)', NEW s \in Fd
      PROVE  Woken(u, s)'
  <2>1. Woken(u, s) BY <1>1, SMTT(60) DEF WakeOK, Unsignalled
  <2>2. \A e \in Callers : WillVisit(e, s, u) => WillVisit(e, s, u)'
    <3>1. CASE UNCHANGED <<cbs, select_cb_ctr>> BY <3>1 DEF WillVisit
    <3>2. CASE select_cb_ctr' = select_cb_ctr + 1
      <4>1. \A e \in Callers : walk[e].cur # NoCb => walk[e].last # select_cb_ctr'
        BY <3>2 DEF ListOK, Types, Cb
      <4> QED BY <4>1, SMTT(60) DEF WillVisit
    <3> QED BY <3>1, <3>2, SMTT(60)
  <2> QED BY <1>1, <2>1, <2>2, SMTT(60) DEF Woken
<1> QED BY <1>1, SMTT(60) DEF WakeOK, Unsignalled

\* The second scan finds each socket that is ready when it comes to it.
LEMMA ScanWake ==
  ASSUME Types, ListOK, WakeOK, NEW t \in Selectors, lwip_selscan(t)
  PROVE  WakeOK'
<1> DEFINE l == sel[t]
           b == l.found \/ Matches(events[l.i], l.want, l.i)
<1>1. l \in Locals /\ l.i \in Fd BY DEF Types, Locals
<1>2. sel'[t] = Scanned(l, b) BY DEF lwip_selscan, Types
<1>3. \A u \in Selectors : u # t => sel'[u] = sel[u] BY SMTT(60) DEF lwip_selscan, Types
<1>4. l.at \in {"scan1", "scan2", "scan3"} /\ b \in BOOLEAN BY SMTT(60) DEF lwip_selscan
<1>5. ASSUME Unsignalled(t)', NEW s \in Fd, Matches(events[s], sel'[t].want, s)
      PROVE  StillToScan(t, s)' \/ \E e \in Callers : WillVisit(e, s, t)
  <2> HIDE DEF b
  <2>1. l.at = "scan2" BY <1>1, <1>2, <1>4, <1>5, ScannedAt, SMTT(60) DEF Unsignalled
  <2>2. ~sem_signalled[t] BY <1>5, SMTT(60) DEF Unsignalled, lwip_selscan
  <2>3. Matches(events[s], l.want, s) =>
          StillToScan(t, s) \/ \E e \in Callers : WillVisit(e, s, t)
    BY <2>1, <2>2, SMTT(60) DEF WakeOK, Woken, StillToScan
  <2>4. CASE l.i + 1 < FDS
    <3>1. sel'[t] = [l EXCEPT !.i = @ + 1, !.found = b] BY <1>2, <2>4 DEF Scanned
    <3>2. sel'[t].i = l.i + 1 /\ sel'[t].at = "scan2" /\ sel'[t].want = l.want
      BY <1>1, <2>1, <3>1 DEF Locals
    <3>3. sel'[t].found = b BY <1>1, <3>1, SMTT(60) DEF Locals
    <3>4. s = l.i => b BY <1>5, <3>2, SMTT(60) DEF b
    <3>5. l.found => b BY DEF b
    <3>6. StillToScan(t, s) => StillToScan(t, s)'
      BY <1>1, <3>2, <3>3, <3>4, <3>5, SMTT(60) DEF StillToScan, Fd
    <3> QED BY <1>5, <2>3, <3>2, <3>6
  <2>5. CASE ~(l.i + 1 < FDS)
    <3>1. AfterScan(l, b) = IF b THEN "leave" ELSE "wait" BY <2>1 DEF AfterScan
    <3>2. sel'[t].at = AfterScan(l, b) /\ sel'[t].want = l.want
      BY <1>1, <1>2, <2>5, <3>1, SMTT(60) DEF Scanned, Locals
    <3>3. ~b BY <1>5, <3>1, <3>2, SMTT(60) DEF Unsignalled
    <3>4. ~StillToScan(t, s)
      BY <1>1, <1>5, <2>5, <3>2, <3>3, SMTT(60) DEF StillToScan, b, Fd
    <3> QED BY <1>5, <2>3, <3>2, <3>4
  <2> QED BY <2>4, <2>5, SMTT(60)
<1>6. UNCHANGED <<events, walk, cbs, select_cb_ctr, sem_signalled>> BY SMTT(60) DEF lwip_selscan
<1>7. \A e \in Callers, s \in Fd : WillVisit(e, s, t)' <=> WillVisit(e, s, t)
  BY <1>6, SMTT(60) DEF WillVisit
<1>8. Unsignalled(t)' => \A s \in Fd : Woken(t, s)'
  BY <1>5, <1>6, <1>7, ZenonT(60) DEF Woken, StillToScan
<1> QED BY <1>3, <1>6, <1>8, WakeOther

\* Every thread that waits for socket s in state ev is among the entries S, or
\* somebody else will see to it.
Covered(e, s, ev, S) ==
  \A t \in Selectors : Unsignalled(t) /\ Matches(ev, sel[t].want, s) =>
    \/ t \in S
    \/ StillToScan(t, s)
    \/ \E f \in Callers : f # e /\ WillVisit(f, s, t)
\* A step that leaves socket s in state ev and the others as they are.
Sets(s, ev) == events'[s] = ev /\ \A r \in Fd : r # s => events'[r] = events[r]
\* e is not on its way for another socket.
Free(e, s) == walk[e].cur = NoCb \/ walk[e].sock = s

\* A look at the first of the entries S wakes its thread, and the others of S
\* are still ahead.
LEMMA LookWake ==
  ASSUME Types, ListOK, WakeOK, UNCHANGED <<cbs, select_cb_ctr, sel>>,
         NEW e \in Callers, NEW s \in Fd, NEW ev, NEW S \in SUBSET Listed,
         Look(e, s, ev, FirstOf(S)), Sets(s, ev), Free(e, s), Covered(e, s, ev, S)
  PROVE  WakeOK'
<1> DEFINE h == FirstOf(S)
<1>a. UNCHANGED <<cbs, select_cb_ctr, sel>> BY SMTT(60)
<1>1. \A f \in Callers : f # e => walk'[f] = walk[f] BY SMTT(60) DEF Look, Types
<1>2. \A t \in Selectors : ~sem_signalled'[t] => ~sem_signalled[t]
  BY DEF Look, Types
<1>3. ASSUME NEW t \in Selectors, Unsignalled(t)', NEW r \in Fd,
             Matches(events'[r], sel[t].want, r)
      PROVE  StillToScan(t, r) \/ \E f \in Callers : WillVisit(f, r, t)'
  <2>1. Unsignalled(t) BY ONLY <1>a, <1>2, <1>3 DEF Unsignalled
  <2>2. \A f \in Callers : f # e /\ WillVisit(f, r, t) => WillVisit(f, r, t)'
    BY ONLY <1>a, <1>1 DEF WillVisit
  <2>3. CASE r # s
    <3>1. StillToScan(t, r) \/ \E f \in Callers : WillVisit(f, r, t)
      BY ONLY <1>3, <2>1, <2>3, WakeOK, Sets(s, ev), SMTT(60)
         DEF WakeOK, Woken, Unsignalled, StillToScan, Sets
    <3>2. ~WillVisit(e, r, t) BY ONLY <2>3, Free(e, s) DEF WillVisit, Free
    <3> QED BY ONLY <2>2, <3>1, <3>2, SMTT(60)
  <2>4. CASE r = s /\ t \in S
    <3>1. h \in S /\ cbs[t] <= cbs[h] BY <2>4, FirstEntry, ZenonT(60) DEF Listed
    <3>2. h \in Selectors /\ h # NoCb /\ cbs[h] > 0
      BY ONLY <3>1, S \in SUBSET Listed, SelectConstants, SMTT(60) DEF Listed
    <3>3. t # h
      <4>1. SUFFICES ASSUME t = h PROVE FALSE OBVIOUS
      <4>2. Matches(ev, sel[t].want, s) BY ONLY <1>3, <2>4, Sets(s, ev) DEF Sets
      <4>a. sem_signalled' = [sem_signalled EXCEPT ![h] = TRUE]
        BY ONLY <2>1, <3>2, <4>1, <4>2, Look(e, s, ev, FirstOf(S)), ZenonT(60) DEF Look, Unsignalled
      <4>3. sem_signalled'[t] BY ONLY <3>2, <4>1, <4>a, Types DEF Types
      <4> QED BY ONLY <1>3, <4>3 DEF Unsignalled
    <3>4. cbs[t] < cbs[h]
      <4> HIDE DEF h
      <4>1. cbs[t] \in Nat /\ cbs[h] \in Nat BY ONLY <3>2, t \in Selectors, Types, SMTT(60) DEF Types
      <4>2. cbs[t] # cbs[h] BY ONLY <3>2, <3>3, t \in Selectors, ListOK, SMTT(60) DEF ListOK
      <4> QED BY ONLY <3>1, <4>1, <4>2
    <3>5. walk'[e] = [sock |-> s, cur |-> h, last |-> select_cb_ctr]
      BY ONLY <3>2, Look(e, s, ev, FirstOf(S)), e \in Callers, Types DEF Look, Types
    <3>6. WillVisit(e, r, t)'
      <4> HIDE DEF h
      <4> QED BY ONLY <1>a, <2>4, <3>2, <3>4, <3>5 DEF WillVisit
    <3> QED BY ONLY <3>6, e \in Callers, SMTT(60)
  <2>5. CASE r = s /\ t \notin S
    <3>1. StillToScan(t, s) \/ \E f \in Callers : f # e /\ WillVisit(f, s, t)
      BY ONLY <1>3, <2>1, <2>5, Sets(s, ev), Covered(e, s, ev, S) DEF Sets, Covered
    <3> QED BY ONLY <2>2, <2>5, <3>1, SMTT(60)
  <2> QED BY ONLY <2>3, <2>4, <2>5
<1>4. ASSUME NEW t \in Selectors, Unsignalled(t)', NEW r \in Fd PROVE Woken(t, r)'
  <2>1. CASE Matches(events'[r], sel[t].want, r)
    BY ONLY <1>a, <1>3, <1>4, <2>1 DEF Woken, StillToScan
  <2>2. CASE ~Matches(events'[r], sel[t].want, r) BY ONLY <1>a, <2>2 DEF Woken
  <2> QED BY ONLY <2>1, <2>2
<1> QED BY ONLY <1>4 DEF WakeOK, Unsignalled

\* event_callback returns at once only when no thread waits for the socket.
LEMMA NobodyWaits ==
  ASSUME Types, CountOK, NEW s \in Fd, select_waiting[s] = 0, NEW t \in Selectors, Unsignalled(t), NEW ev
  PROVE  ~Matches(ev, sel[t].want, s)
<1>1. SUFFICES ASSUME Matches(ev, sel[t].want, s) PROVE FALSE OBVIOUS
<1>2. Interested(sel[t].want, s) BY <1>1 DEF Matches, Interested, Kind
<1>3. t \in Counted(s) BY <1>2 DEF Counted, CountsIn, Unsignalled
<1>4. Counted(s) \in SUBSET Selectors BY DEF Counted
<1>5. IsFiniteSet(Counted(s)) BY <1>4, FS_Subset
<1>6. Cardinality(Counted(s)) = 0 BY DEF CountOK
<1> QED BY <1>3, <1>5, <1>6, FS_EmptySet

\* Every step keeps the wakeups.
LEMMA WakeNext ==
  ASSUME Types, ListOK, CountOK, WakeOK, Next_Select
  PROVE  WakeOK'
<1>1. ASSUME NEW t \in Selectors, NEW want \in Wants,
             NEW timeout \in {"none", "poll", "some"}, Select(t, want, timeout)
      PROVE  WakeOK'
  <2>1. sel'[t].at = "scan1" /\ \A u \in Selectors : u # t => sel'[u] = sel[u]
    BY <1>1, SMTT(60) DEF Select, Types
  <2>2. ~Unsignalled(t)' BY <2>1 DEF Unsignalled
  <2> QED BY <1>1, <2>1, <2>2, WakeOther, ZenonT(60) DEF Select
<1>2. ASSUME NEW t \in Selectors, lwip_selscan(t) PROVE WakeOK'
  BY <1>2, ScanWake
<1>3. ASSUME NEW t \in Selectors, Enlist(t) PROVE WakeOK'
  <2>1. sel'[t].at \in {"enter", "idle"} BY <1>3, SMTT(60) DEF Enlist, Types, Locals, Idle_
  <2>2. ~Unsignalled(t)' BY <2>1 DEF Unsignalled
  <2>3. \A u \in Selectors : u # t =>
          sel'[u] = sel[u] /\ cbs'[u] = cbs[u] /\ (sem_signalled'[u] <=> sem_signalled[u])
    BY <1>3 DEF Enlist, Types
  <2>4. UNCHANGED <<cbs, select_cb_ctr>> \/ select_cb_ctr' = select_cb_ctr + 1
    BY <1>3, SMTT(60) DEF Enlist
  <2> QED BY <1>3, <2>2, <2>3, <2>4, WakeOther DEF Enlist
<1>4. ASSUME NEW t \in Selectors, Enter(t) \/ Leave(t) PROVE WakeOK'
  <2>1. \A u \in Selectors : u # t => sel'[u] = sel[u]
    BY <1>4 DEF Enter, Leave, CountLoop, Types
  <2>2. sel'[t].at \in {"scan2", "wait"} => sel'[t].at = "scan2" /\ sel'[t].i = 0
    BY <1>4, SMTT(60) DEF Enter, Leave, CountLoop, Types, Locals
  <2>3. Unsignalled(t)' => \A s \in Fd : Woken(t, s)'
    BY <2>2 DEF Unsignalled, Woken, Fd
  <2>4. UNCHANGED <<events, walk, cbs, select_cb_ctr, sem_signalled>>
    BY <1>4 DEF Enter, Leave, CountLoop
  <2> QED BY <2>1, <2>3, <2>4, WakeOther, ZenonT(60)
<1>6. ASSUME NEW t \in Selectors, Wait(t) PROVE WakeOK'
  <2>1. sel'[t].at \in {"leave", "expired"} BY <1>6 DEF Wait, Types, Locals
  <2>2. \A u \in Selectors : u # t => sel'[u] = sel[u] BY <1>6, SMTT(60) DEF Wait, Types
  <2>3. ~Unsignalled(t)' BY <2>1 DEF Unsignalled
  <2> QED BY <1>6, <2>2, <2>3, WakeOther DEF Wait
<1>7. ASSUME NEW t \in Selectors, Delist(t) PROVE WakeOK'
  <2>1. sel'[t].at \in {"scan3", "idle"} BY <1>7 DEF Delist, Types, Locals, Idle_
  <2>2. ~Unsignalled(t)' BY <2>1 DEF Unsignalled
  <2>3. \A u \in Selectors : u # t =>
          sel'[u] = sel[u] /\ cbs'[u] = cbs[u] /\ (sem_signalled'[u] <=> sem_signalled[u])
    BY <1>7 DEF Delist, Types
  <2> QED BY <1>7, <2>2, <2>3, WakeOther DEF Delist
<1>8. ASSUME NEW e \in Callers, NEW s \in Fd, NEW evt, event_callback(e, s, evt) PROVE WakeOK'
  <2>1. events'[s] = Raised(events[s], evt) /\ \A r \in Fd : r # s => events'[r] = events[r]
    BY <1>8 DEF event_callback, Types
  <2>2. UNCHANGED <<select_waiting, cbs, select_cb_ctr, sel>> /\ walk[e].cur = NoCb
    BY <1>8, SMTT(60) DEF event_callback
  <2>3. CASE select_waiting[s] = 0
    <3>1. UNCHANGED <<sem_signalled, walk>> BY <1>8, <2>3, SMTT(60) DEF event_callback
    <3>2. \A t \in Selectors : Unsignalled(t) => ~Matches(events'[s], sel[t].want, s)
      BY <2>3, NobodyWaits, SMTT(60)
    <3>3. \A t \in Selectors, r \in Fd, f \in Callers : WillVisit(f, r, t)' <=> WillVisit(f, r, t)
      BY <2>2, <3>1, SMTT(60) DEF WillVisit
    <3> QED BY <2>1, <2>2, <3>1, <3>2, <3>3 DEF WakeOK, Woken, Unsignalled
  <2>4. CASE select_waiting[s] # 0
    <3>1. Look(e, s, Raised(events[s], evt), FirstOf(Listed)) BY <1>8, <2>4, SMTT(60) DEF event_callback
    <3>2. \A t \in Selectors : Unsignalled(t) => t \in Listed
      BY DEF Unsignalled, Listed, ListOK, OnList
    <3>3. Sets(s, Raised(events[s], evt)) /\ Free(e, s) BY ONLY <2>1, <2>2 DEF Sets, Free
    <3>4. Covered(e, s, Raised(events[s], evt), Listed) BY ONLY <3>2 DEF Covered
    <3>5. Listed \in SUBSET Listed BY ONLY TRUE
    <3> QED BY ONLY <2>2, <3>1, <3>3, <3>4, <3>5, Types, ListOK, WakeOK, e \in Callers, s \in Fd,
                    LookWake, ZenonT(60)
  <2> QED BY <2>3, <2>4
<1>9. ASSUME NEW e \in Callers, Walk(e) PROVE WakeOK'
  <2>1. PICK s \in Fd : s = walk[e].sock BY DEF Types, Cb
  <2>2. PICK S \in SUBSET Listed :
          S = IF walk[e].last # select_cb_ctr THEN Listed ELSE Behind(walk[e].cur)
    BY ZenonT(60) DEF Behind
  <2>3. Onward(e) = FirstOf(S) BY <2>2 DEF Onward
  <2>4. \A t \in Selectors : Unsignalled(t) /\ Matches(events[s], sel[t].want, s) =>
          t \in S \/ StillToScan(t, s) \/ \E f \in Callers : f # e /\ WillVisit(f, s, t)
    <3> SUFFICES ASSUME NEW t \in Selectors, Unsignalled(t), Matches(events[s], sel[t].want, s)
                 PROVE  t \in S \/ StillToScan(t, s) \/ \E f \in Callers : f # e /\ WillVisit(f, s, t)
      OBVIOUS
    <3>1. StillToScan(t, s) \/ \E f \in Callers : WillVisit(f, s, t)
      BY DEF WakeOK, Woken, Unsignalled, StillToScan
    <3>2. t \in Listed BY DEF Unsignalled, Listed, ListOK, OnList
    <3>3. WillVisit(e, s, t) => t \in S BY <2>2, <3>2, SMTT(60) DEF WillVisit, Behind
    <3> QED BY <3>1, <3>3
  <2>5. Look(e, s, events[s], FirstOf(S)) BY <1>9, <2>1, <2>3 DEF Walk
  <2>6. UNCHANGED <<events, cbs, select_cb_ctr, sel>> BY <1>9 DEF Walk
  <2>7. Sets(s, events[s]) BY ONLY <2>6 DEF Sets
  <2>8. Free(e, s) BY ONLY <2>1 DEF Free
  <2>9. Covered(e, s, events[s], S) BY ONLY <2>4 DEF Covered
  <2> QED BY ONLY <2>5, <2>6, <2>7, <2>8, <2>9, Types, ListOK, WakeOK, e \in Callers, s \in Fd,
                  S \in SUBSET Listed, LookWake, ZenonT(60)
<1>10. \A x \in Events : x[1] \in Fd OBVIOUS
<1> QED BY <1>1, <1>2, <1>3, <1>4, <1>6, <1>7, <1>8, <1>9, <1>10, SMTT(60) DEF Next_Select, lwip_select

-----------------------------------------------------------------------------
\* A step that changes nothing keeps everything.
LEMMA StutterInv == IInv /\ UNCHANGED vars_Select => IInv'
<1> SUFFICES ASSUME IInv, UNCHANGED vars_Select PROVE IInv' BY SMTT(60)
<1>1. Types' /\ ListOK' /\ IndexOK' /\ SemOK'
  BY DEF IInv, Types, ListOK, IndexOK, SemOK, vars_Select
<1>2. CountOK' BY CountSame, SMTT(60) DEF IInv, vars_Select
<1>3. WakeOK' BY DEF IInv, WakeOK, Woken, WillVisit, vars_Select
<1> QED BY <1>1, <1>2, <1>3 DEF IInv

\* The inductive invariant holds in every state.
THEOREM Inductive == Spec_Select => []IInv
<1>1. ASSUME IInv, [Next_Select]_vars_Select PROVE IInv'
  <2>1. CASE Next_Select
    BY <1>1, <2>1, TypesNext, ListNext, IndexNext, SemNext, CountNext, WakeNext DEF IInv
  <2>2. CASE UNCHANGED vars_Select BY <1>1, <2>2, StutterInv
  <2> QED BY <1>1, <2>1, <2>2
<1> QED BY InitInv, <1>1, PTL DEF Spec_Select

\* lwip_select never sleeps through an event: a waiting thread with a ready
\* socket has its signal, or an event_callback on its way to it.
THEOREM WakeupsKept == Spec_Select => []NoLostWakeup
<1>1. IInv => NoLostWakeup
  <2> SUFFICES ASSUME IInv, NEW t \in Selectors, sel[t].at = "wait", sem[t] = 0,
                      NEW s \in Fd, Matches(events[s], sel[t].want, s)
               PROVE  \E e \in Callers : WillVisit(e, s, t)
    BY DEF NoLostWakeup
  <2>1. ~sem_signalled[t] BY DEF IInv, SemOK
  <2> QED BY <2>1, SMTT(60) DEF IInv, WakeOK, Woken
<1> QED BY <1>1, Inductive, PTL

\* A semaphore is signalled once, and the signal stays until it is taken.
THEOREM SignalsSound == Spec_Select => []SignalledOnce
<1>1. IInv => SignalledOnce BY DEF IInv, SemOK, SignalledOnce
<1> QED BY <1>1, Inductive, PTL
=============================================================================
