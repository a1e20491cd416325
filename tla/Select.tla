------------------------------- MODULE Select -------------------------------
(***************************************************************************)
(* lwip_select and the event_callback that wakes it (api/sockets.c), cut   *)
(* at the places where SYS_ARCH_UNPROTECT lets another thread in.  Callers *)
(* of event_callback are the TCP/IP thread and the threads that read.      *)
(*                                                                         *)
(* select_cb_list: a new entry goes on top and the counter that tells of a *)
(* change has then a value no other entry was put there with.  The list is *)
(* kept as this value of each entry, zero for one that is not on it; the   *)
(* entries run from the highest to the lowest.  (The int of the code       *)
(* overflows after 2^31 changes.)                                          *)
(*                                                                         *)
(* The sockets selected stay open.  lastdata, which only their reader      *)
(* changes and which raises no event, is left out.                         *)
(***************************************************************************)
EXTENDS Integers, FiniteSets

CONSTANTS
  Selectors,   \* the threads that call lwip_select
  Callers,     \* the threads that run event_callback
  FDS,         \* maxfdp1, the number of sockets
  NoCb,        \* the NULL at the end of the list
  Wants,       \* the descriptor sets passed: sets of <<socket, kind>>
  Events,      \* the events that occur: <<socket, event>>
  MaxRcv,      \* bound of rcvevent
  MaxCtr       \* bound of select_cb_ctr

Fd == 0 .. FDS - 1
Kind == {"read", "write", "except"}
Event == {"RCVPLUS", "RCVMINUS", "SENDPLUS", "SENDMINUS", "ERROR"}

ASSUME SelectConstants ==
  /\ IsFiniteSet(Selectors) /\ NoCb \notin Selectors
  /\ FDS \in Nat \ {0}
  /\ Wants \subseteq SUBSET (Fd \X Kind) /\ Events \subseteq Fd \X Event

VARIABLES
  events,          \* rcvevent, sendevent and errevent of each socket
  select_waiting,
  cbs,             \* select_cb_list
  select_cb_ctr,
  sem_signalled,
  sem,             \* the semaphore of each entry
  sel,             \* where each thread is in lwip_select, and its locals
  walk             \* where each caller is in event_callback, and its locals

vars_Select == <<events, select_waiting, cbs, select_cb_ctr, sem_signalled, sem, sel, walk>>

NotWalking == [sock |-> 0, cur |-> NoCb, last |-> 0]
Idle_ == [at |-> "idle", i |-> 0, want |-> {}, found |-> FALSE, timeout |-> "none"]

Init_Select ==
  /\ events = [s \in Fd |-> [rcv |-> 0, send |-> FALSE, err |-> FALSE]]
  /\ select_waiting = [s \in Fd |-> 0]
  /\ cbs = [t \in Selectors |-> 0] /\ select_cb_ctr = 0
  /\ sem_signalled = [t \in Selectors |-> FALSE]
  /\ sem = [t \in Selectors |-> 0]
  /\ sel = [t \in Selectors |-> Idle_]
  /\ walk = [e \in Callers |-> NotWalking]

-----------------------------------------------------------------------------
(* lwip_select                                                               *)

\* Socket s in state ev matches one of the sets.
Matches(ev, want, s) ==
  \/ <<s, "read">> \in want /\ ev.rcv > 0
  \/ <<s, "write">> \in want /\ ev.send
  \/ <<s, "except">> \in want /\ ev.err

Interested(want, s) == \E k \in Kind : <<s, k>> \in want

Select(t, want, timeout) ==
  /\ sel[t].at = "idle"
  /\ sel' = [sel EXCEPT ![t] = [at |-> "scan1", i |-> 0, want |-> want,
                                found |-> FALSE, timeout |-> timeout]]
  /\ UNCHANGED <<events, select_waiting, cbs, select_cb_ctr, sem_signalled, sem, walk>>

\* Where lwip_select goes on after a scan.
AfterScan(l, found) ==
  CASE l.at = "scan1" -> IF found \/ l.timeout = "poll" THEN "idle" ELSE "enlist"
    [] l.at = "scan2" -> IF found THEN "leave" ELSE "wait"
    [] OTHER -> "idle"

Scanned(l, found) ==
  IF l.i + 1 < FDS
  THEN [l EXCEPT !.i = @ + 1, !.found = found]
  ELSE IF AfterScan(l, found) = "idle" THEN Idle_
  ELSE [l EXCEPT !.i = 0, !.found = FALSE, !.at = AfterScan(l, found)]

\* One turn of the loop of lwip_selscan.
lwip_selscan(t) ==
  /\ sel[t].at \in {"scan1", "scan2", "scan3"}
  /\ sel' = [sel EXCEPT ![t] =
               Scanned(@, @.found \/ Matches(events[@.i], @.want, @.i))]
  /\ UNCHANGED <<events, select_waiting, cbs, select_cb_ctr, sem_signalled, sem, walk>>

\* The entry goes on top of the list, or there is no semaphore for it.
Enlist(t) ==
  /\ sel[t].at = "enlist" /\ select_cb_ctr < MaxCtr
  /\ \/ /\ sem_signalled' = [sem_signalled EXCEPT ![t] = FALSE]
        /\ sem' = [sem EXCEPT ![t] = 0]
        /\ select_cb_ctr' = select_cb_ctr + 1
        /\ cbs' = [cbs EXCEPT ![t] = select_cb_ctr + 1]
        /\ sel' = [sel EXCEPT ![t].at = "enter"]
     \/ /\ sel' = [sel EXCEPT ![t] = Idle_]
        /\ UNCHANGED <<sem_signalled, sem, select_cb_ctr, cbs>>
  /\ UNCHANGED <<events, select_waiting, walk>>

\* One turn of a loop that counts the waiting threads of the sockets by d;
\* the loop is followed by next.
CountLoop(t, d, next) ==
  /\ select_waiting' = IF Interested(sel[t].want, sel[t].i)
                       THEN [select_waiting EXCEPT ![sel[t].i] = @ + d]
                       ELSE select_waiting
  /\ sel' = [sel EXCEPT ![t].i = IF @ + 1 < FDS THEN @ + 1 ELSE 0,
                        ![t].at = IF sel[t].i + 1 < FDS THEN @ ELSE next]
  /\ UNCHANGED <<events, cbs, select_cb_ctr, sem_signalled, sem, walk>>

Enter(t) == sel[t].at = "enter" /\ CountLoop(t, 1, "scan2")

Leave(t) ==
  /\ sel[t].at \in {"leave", "expired"}
  /\ CountLoop(t, -1, IF sel[t].at = "leave" THEN "delist" ELSE "giveup")

\* sys_arch_sem_wait returns: the semaphore was signalled, or time is up.
Wait(t) ==
  /\ sel[t].at = "wait"
  /\ \/ /\ sem[t] > 0
        /\ sem' = [sem EXCEPT ![t] = @ - 1]
        /\ sel' = [sel EXCEPT ![t].at = "leave"]
     \/ /\ sem[t] = 0 /\ sel[t].timeout = "some"
        /\ sel' = [sel EXCEPT ![t].at = "expired"]
        /\ UNCHANGED sem
  /\ UNCHANGED <<events, select_waiting, cbs, select_cb_ctr, sem_signalled, walk>>

\* The entry is taken off the list and the semaphore freed.  What woke the
\* thread is found by a last scan, except after a timeout.
Delist(t) ==
  /\ sel[t].at \in {"delist", "giveup"}
  /\ cbs' = [cbs EXCEPT ![t] = 0]
  /\ select_cb_ctr' = select_cb_ctr + 1
  /\ sel' = [sel EXCEPT ![t] = IF @.at = "delist" THEN [@ EXCEPT !.at = "scan3"] ELSE Idle_]
  /\ sem_signalled' = [sem_signalled EXCEPT ![t] = FALSE]
  /\ sem' = [sem EXCEPT ![t] = 0]
  /\ UNCHANGED <<events, select_waiting, walk>>

lwip_select(t) ==
  \/ \E want \in Wants, timeout \in {"none", "poll", "some"} : Select(t, want, timeout)
  \/ lwip_selscan(t) \/ Enlist(t) \/ Enter(t) \/ Wait(t) \/ Leave(t) \/ Delist(t)

-----------------------------------------------------------------------------
(* event_callback                                                            *)

Listed == {t \in Selectors : cbs[t] > 0}

\* The first of the entries S of the list.
FirstOf(S) == IF S = {} THEN NoCb ELSE CHOOSE t \in S : \A u \in S : cbs[u] <= cbs[t]

\* The entries behind that of thread t.
Behind(t) == {u \in Listed : cbs[u] < cbs[t]}

\* e looks at entry t for socket s, in state ev, and unprotects; at the end
\* of the list it returns.
Look(e, s, ev, t) ==
  /\ IF t # NoCb /\ ~sem_signalled[t] /\ Matches(ev, sel[t].want, s)
     THEN /\ sem_signalled' = [sem_signalled EXCEPT ![t] = TRUE]
          /\ sem' = [sem EXCEPT ![t] = @ + 1]
     ELSE UNCHANGED <<sem_signalled, sem>>
  /\ walk' = [walk EXCEPT ![e] = IF t = NoCb THEN NotWalking
                                 ELSE [sock |-> s, cur |-> t, last |-> select_cb_ctr]]

\* The event is set; nothing more is done when no thread waits for the socket.
Raised(ev, evt) ==
  CASE evt = "RCVPLUS" -> [ev EXCEPT !.rcv = @ + 1]
    [] evt = "RCVMINUS" -> [ev EXCEPT !.rcv = @ - 1]
    [] evt = "SENDPLUS" -> [ev EXCEPT !.send = TRUE]
    [] evt = "SENDMINUS" -> [ev EXCEPT !.send = FALSE]
    [] OTHER -> [ev EXCEPT !.err = TRUE]

\* A reader may have taken a message before the thread that posted it raises
\* RCVPLUS: rcvevent is then -1 for a while.
event_callback(e, s, evt) ==
  /\ walk[e].cur = NoCb
  /\ evt = "RCVPLUS" => events[s].rcv < MaxRcv
  /\ evt = "RCVMINUS" => events[s].rcv >= 0
  /\ events' = [events EXCEPT ![s] = Raised(@, evt)]
  /\ IF select_waiting[s] = 0
     THEN UNCHANGED <<sem_signalled, sem, walk>>
     ELSE Look(e, s, Raised(events[s], evt), FirstOf(Listed))
  /\ UNCHANGED <<select_waiting, cbs, select_cb_ctr, sel>>

\* Mutant: the walk goes on with the next entry although the list has changed.
Onward_next(e) == FirstOf(Behind(walk[e].cur))

\* The next entry to look at: the first one again if the list has changed.
Onward(e) == FirstOf(IF walk[e].last # select_cb_ctr THEN Listed ELSE Behind(walk[e].cur))

Walk(e) ==
  /\ walk[e].cur # NoCb
  /\ Look(e, walk[e].sock, events[walk[e].sock], Onward(e))
  /\ UNCHANGED <<events, select_waiting, cbs, select_cb_ctr, sel>>

Next_Select ==
  \/ \E t \in Selectors : lwip_select(t)
  \/ \E e \in Callers : Walk(e) \/ \E x \in Events : event_callback(e, x[1], x[2])

Spec_Select == Init_Select /\ [][Next_Select]_vars_Select

-----------------------------------------------------------------------------
\* e runs event_callback for socket s and will still come to the entry of t.
WillVisit(e, s, t) ==
  /\ walk[e].cur # NoCb /\ walk[e].sock = s
  /\ walk[e].last # select_cb_ctr \/ cbs[t] < cbs[walk[e].cur]

\* No wakeup is lost: a thread that waits in lwip_select while one of its
\* sockets is ready has its semaphore signalled, or an event_callback for this
\* socket is on its way to its entry.  The event may come at any point of the
\* two scans and of the enlisting, other threads enter and leave the list under
\* the walk, and another reader may take the data.
NoLostWakeup ==
  \A t \in Selectors : sel[t].at = "wait" /\ sem[t] = 0 =>
    \A s \in Fd : Matches(events[s], sel[t].want, s) => \E e \in Callers : WillVisit(e, s, t)

\* A semaphore is signalled at most once and only while its entry is on the
\* list: lwip_select frees it right after it has taken the entry off.
SignalledOnce ==
  /\ \A t \in Selectors : sem[t] > 0 => sem[t] = 1 /\ sem_signalled[t]
  /\ \A t \in Selectors : sel[t].at = "wait" /\ sem_signalled[t] => sem[t] = 1
=============================================================================
