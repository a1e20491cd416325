----------------------------- MODULE LwipTimers -----------------------------
(***************************************************************************)
(* The timeouts of lwIP without an OS (core/timers.c): one list of pending *)
(* timeouts, each holding its delay after the one before it, walked by     *)
(* sys_check_timeouts, which ether_poll calls.  The periodic handlers      *)
(* re-arm themselves; the TCP timer runs only while a PCB needs it.        *)
(***************************************************************************)
EXTENDS Integers, FiniteSets, FiniteSetsExt, Sequences, SequencesExt

CONSTANTS
  Periodic,      \* the handlers sys_timeouts_init starts, in that order (a sequence)
  Tcp,           \* tcpip_tcp_timer
  Interval,      \* the period of each handler, in ms
  ClockMod,      \* sys_now counts modulo this (2^32 in the code)
  Advance,       \* by how many ms the clock may move at once
  MaxLag,        \* bound: how far the clock gets ahead of timeouts_last_time
  MaxElapsed,    \* bound: the history variable elapsed saturates here
  LateHistory,   \* bound: whether the history is kept once a check was late
  AllocFails     \* TRUE: memp_malloc(MEMP_SYS_TIMEOUT) may return NULL

Handler == Range(Periodic) \cup {Tcp}

\* What the constants may be.
TimerConstants ==
  /\ Interval \in [Handler -> Nat \ {0}]
  /\ \A h \in Handler : 2 * Interval[h] < ClockMod
  /\ Tcp \notin Range(Periodic)
  /\ MaxLag < ClockMod

VARIABLES
  now,        \* systick_millis_count, as sys_now returns it
  list,       \* next_timeout and its successors: [h, time]
  last_time,  \* timeouts_last_time
  active,     \* tcpip_tcp_timer_active
  pcbs,       \* tcp_active_pcbs or tcp_tw_pcbs is not empty
  pc,         \* where sys_check_timeouts is: "idle", "loop", "handler"
  check_now,  \* its local now
  diff,       \* its local diff
  cur,        \* the handler it is calling
  elapsed,    \* ms since each handler was last armed (history, saturating)
  polled,     \* sys_check_timeouts ran since the clock last moved (history)
  punctual    \* it has run in every millisecond so far (history)

vars == <<now, list, last_time, active, pcbs, pc, check_now, diff, cur, elapsed, polled,
          punctual>>

-----------------------------------------------------------------------------
\* The delay of the first k timeouts of the list together.
Due(l, k) == FoldLeft(LAMBDA sum, t : sum + t.time, 0, SubSeq(l, 1, k))

\* Mutant: the new timeout always goes first.
InsertFirst(l, h, msecs) ==
  <<[h |-> h, time |-> msecs]>> \o (IF l = << >> THEN l ELSE [l EXCEPT ![1].time = @ - msecs])

\* sys_timeout: the new timeout goes after all that are due no later; the one
\* behind it now waits that much less.
Insert(l, h, msecs) ==
  LET k == CHOOSE k \in 0 .. Len(l) :
             Due(l, k) <= msecs /\ (k < Len(l) => Due(l, k + 1) > msecs)
      rest == SubSeq(l, k + 1, Len(l))
      wait == msecs - Due(l, k)
  IN  SubSeq(l, 1, k) \o <<[h |-> h, time |-> wait]>>
        \o (IF rest = << >> THEN rest ELSE [rest EXCEPT ![1].time = @ - wait])

\* sys_timeout(Interval[h], h, NULL) as a step.
sys_timeout(h) ==
  \/ /\ list' = Insert(list, h, Interval[h])
     /\ elapsed' = [elapsed EXCEPT ![h] = 0]
  \/ AllocFails /\ UNCHANGED <<list, elapsed>>

\* sys_timeouts_init at time n, with TCP idle.
sys_timeouts_init(n) ==
  /\ list = FoldLeft(LAMBDA l, h : Insert(l, h, Interval[h]), << >>, Periodic)
  /\ last_time = n

Init ==
  /\ now \in {0, ClockMod - 1}
  /\ sys_timeouts_init(now)
  /\ active = FALSE /\ pcbs = FALSE
  /\ pc = "idle" /\ check_now = 0 /\ diff = 0 /\ cur = Tcp
  /\ elapsed = [h \in Handler |-> 0]
  /\ polled = FALSE /\ punctual = TRUE

-----------------------------------------------------------------------------
LWIP_U32_DIFF(a, b) == IF a >= b THEN a - b ELSE a + (ClockMod - 1 - b) + 1

\* The systick interrupt.  (Were the stack not polled for a whole turn of the
\* clock, 49 days, no difference of times would mean anything.)
Tick(d) ==
  /\ LWIP_U32_DIFF(now, last_time) + d <= MaxLag
  /\ now' = (now + d) % ClockMod
  /\ polled' = FALSE
  /\ punctual' = (punctual /\ polled /\ pc = "idle" /\ d = 1)
  /\ elapsed' = [h \in Handler |-> IF punctual' \/ LateHistory THEN Min({elapsed[h] + d, MaxElapsed}) ELSE 0]
  /\ UNCHANGED <<list, last_time, active, pcbs, pc, check_now, diff, cur>>

\* sys_check_timeouts is called.
sys_check_timeouts ==
  /\ pc = "idle"
  /\ polled' = TRUE
  /\ IF list = << >>
       THEN UNCHANGED <<pc, check_now, diff>>
       ELSE /\ check_now' = now
            /\ diff' = LWIP_U32_DIFF(now, last_time)
            /\ pc' = "loop"
  /\ UNCHANGED <<now, list, last_time, active, pcbs, cur, elapsed, punctual>>

\* The first timeout has expired: it is unlinked, freed and its handler called.
expire ==
  /\ pc = "loop" /\ list # << >> /\ Head(list).time <= diff
  /\ last_time' = check_now
  /\ diff' = diff - Head(list).time
  /\ list' = Tail(list)
  /\ cur' = Head(list).h
  /\ pc' = "handler"
  /\ UNCHANGED <<now, active, pcbs, check_now, elapsed, polled, punctual>>

\* The first timeout has not expired: sys_check_timeouts returns.
check_done ==
  /\ pc = "loop" /\ list # << >> /\ Head(list).time > diff
  /\ pc' = "idle"
  /\ UNCHANGED <<now, list, last_time, active, pcbs, check_now, diff, cur, elapsed, polled, punctual>>

\* arp_timer, dhcp_timer_coarse, dhcp_timer_fine and igmp_timer.
periodic_timer ==
  /\ pc = "handler" /\ cur # Tcp
  /\ sys_timeout(cur)
  /\ pc' = "loop"
  /\ UNCHANGED <<now, last_time, active, pcbs, check_now, diff, cur, polled, punctual>>

\* tcpip_tcp_timer: tcp_tmr may remove the last PCB, or open one in a callback
\* (tcp_timer_needed then finds the timer active and does nothing).
tcpip_tcp_timer ==
  /\ pc = "handler" /\ cur = Tcp
  /\ pcbs' \in BOOLEAN
  /\ IF pcbs' THEN sys_timeout(Tcp) /\ UNCHANGED active
              ELSE active' = FALSE /\ UNCHANGED <<list, elapsed>>
  /\ pc' = "loop"
  /\ UNCHANGED <<now, last_time, check_now, diff, cur, polled, punctual>>

\* Mutant: the timer is started although it runs.
tcp_timer_always ==
  /\ pc = "idle"
  /\ pcbs' = TRUE /\ active' = TRUE
  /\ sys_timeout(Tcp)
  /\ UNCHANGED <<now, last_time, pc, check_now, diff, cur, polled, punctual>>

\* TCP_REG of a PCB outside the timers, and the tcp_timer_needed in it.
tcp_timer_needed ==
  /\ pc = "idle"
  /\ pcbs' = TRUE
  /\ IF ~active THEN active' = TRUE /\ sys_timeout(Tcp)
                ELSE UNCHANGED <<active, list, elapsed>>
  /\ UNCHANGED <<now, last_time, pc, check_now, diff, cur, polled, punctual>>

\* TCP_RMV of the last PCB outside the timers.
tcp_pcb_remove ==
  /\ pc = "idle" /\ pcbs
  /\ pcbs' = FALSE
  /\ UNCHANGED <<now, list, last_time, active, pc, check_now, diff, cur, elapsed, polled, punctual>>

-----------------------------------------------------------------------------
Ticks == \E d \in Advance : Tick(d)
InCheck == expire \/ check_done \/ periodic_timer \/ tcpip_tcp_timer

Next == Ticks \/ sys_check_timeouts \/ InCheck \/ tcp_timer_needed \/ tcp_pcb_remove

Spec == Init /\ [][Next]_vars

-----------------------------------------------------------------------------
(* Properties *)

TypeOK ==
  /\ now \in 0 .. ClockMod - 1 /\ last_time \in 0 .. ClockMod - 1
  /\ check_now \in 0 .. ClockMod - 1 /\ diff \in 0 .. ClockMod - 1
  /\ \A i \in DOMAIN list : list[i].h \in Handler /\ list[i].time \in 0 .. ClockMod - 1
  /\ active \in BOOLEAN /\ pcbs \in BOOLEAN /\ polled \in BOOLEAN /\ punctual \in BOOLEAN
  /\ pc \in {"idle", "loop", "handler"} /\ cur \in Handler
  /\ elapsed \in [Handler -> 0 .. MaxElapsed]

Pending(h) == {i \in DOMAIN list : list[i].h = h}
Calling(h) == pc = "handler" /\ cur = h

(* Every periodic handler is in the list exactly once, or is being called;    *)
(* the TCP timer is there exactly while tcpip_tcp_timer_active says so, and   *)
(* it says so whenever a PCB needs it.  A second copy would double the pace   *)
(* of every TCP timeout, a lost one would stop it.  In particular the list is *)
(* not empty where sys_check_timeouts reads next_timeout->time without a test *)
(* for NULL.                                                                  *)
ScheduledOnce ==
  /\ \A h \in Range(Periodic) : Cardinality(Pending(h)) = IF Calling(h) THEN 0 ELSE 1
  /\ Cardinality(Pending(Tcp)) = IF active /\ ~Calling(Tcp) THEN 1 ELSE 0
  /\ pcbs => active

\* expire is about to call the handler of the first timeout.
Fires == pc = "loop" /\ pc' = "handler"

(* When sys_check_timeouts runs in every millisecond, a periodic handler is   *)
(* called exactly each Interval, whatever else is scheduled and cancelled     *)
(* around it, across the wraparound of the clock.                             *)
PeriodicExact ==
  [][punctual /\ Fires /\ cur' # Tcp => elapsed[cur'] = Interval[cur']]_vars

(* "repeat until all expired timers have been called" (timers.c:392): when    *)
(* sys_check_timeouts returns, no pending timeout is overdue.                 *)
AllExpiredCalled ==
  polled /\ pc = "idle" => \A i \in DOMAIN list : elapsed[list[i].h] < Interval[list[i].h]

(* As long as sys_check_timeouts runs in every millisecond, it leaves none    *)
(* overdue.                                                                   *)
NoneOverdue == punctual => AllExpiredCalled
=============================================================================
