-------------------------------- MODULE RTCms --------------------------------
(***************************************************************************)
(* RTCms.ino: rtc_ms combines the seconds register of the real-time clock  *)
(* with its prescaler, which the clock changes while they are read.        *)
(*                                                                         *)
(* A time is a count of prescaler ticks.  A register read in the moment it *)
(* changes may return anything, but of two reads in a row one is outside   *)
(* such a moment.  Stall is the number of ticks that pass at most from the *)
(* moment secs is first settled to the end of the call: what interrupts    *)
(* take from it.                                                           *)
(***************************************************************************)
EXTENDS Integers

CONSTANTS
  TICKS,     \* 32768, prescaler ticks of a second
  USECS,     \* 1000000, microseconds of a second
  MSEC,      \* 1000, microseconds of a millisecond
  RECENT,    \* 100: the microseconds in which the prescaler is taken to be new
  SECONDS,   \* bound: the seconds the clock runs
  Stall

NULL == -1

VARIABLES
  now,             \* the clock, in ticks
  changing,        \* the registers are changing now
  glitch,          \* the last read was in such a moment
  pc, read1, secs, \* rtc_ms
  tpr,             \* the prescaler count that us is computed from
  started,         \* when it was called
  stalled,         \* ticks since secs was settled
  result           \* what the last call returned

vars == <<now, changing, glitch, pc, read1, secs, tpr, started, stalled, result>>

\* Prescaler counts rounded to microseconds.
us(t) == (t * USECS + TICKS \div 2) \div TICKS

ms(s, t) == s * (USECS \div MSEC) + us(t) \div MSEC

TSR == now \div TICKS
TPR == now % TICKS

Init ==
  /\ now = 0 /\ changing = FALSE /\ glitch = FALSE
  /\ pc = "idle" /\ read1 = 0 /\ secs = 0 /\ tpr = 0
  /\ started = 0 /\ stalled = 0 /\ result = NULL

Settled == pc \notin {"idle", "tsr1", "tsr2"}

Tick ==
  /\ now < SECONDS * TICKS - 1
  /\ Settled => stalled < Stall
  /\ now' = now + 1 /\ changing' = TRUE
  /\ stalled' = IF Settled THEN stalled + 1 ELSE 0
  /\ UNCHANGED <<glitch, pc, read1, secs, tpr, started, result>>

\* The values a read may return; the seconds change when the prescaler is 0.
ReadTSR == IF changing /\ ~glitch /\ TPR = 0 THEN 0 .. SECONDS ELSE {TSR}
ReadTPR == IF changing /\ ~glitch THEN 0 .. TICKS - 1 ELSE {TPR}
Read == changing' = FALSE /\ glitch' = (changing /\ ~glitch)

call ==
  /\ pc = "idle"
  /\ pc' = "tsr1" /\ started' = now
  /\ result' = NULL /\ read1' = 0 /\ secs' = 0 /\ tpr' = 0 /\ stalled' = 0
  /\ UNCHANGED <<now, changing, glitch>>

\* read1 = RTC_TSR; of the first loop, or of the one after the rollover.
read_tsr ==
  /\ pc \in {"tsr1", "refetch1"}
  /\ read1' \in ReadTSR /\ Read
  /\ pc' = IF pc = "tsr1" THEN "tsr2" ELSE "refetch2"
  /\ UNCHANGED <<now, secs, tpr, started, stalled, result>>

\* read2 = RTC_TSR; and the test.
again_tsr ==
  /\ pc \in {"tsr2", "refetch2"} /\ Read
  /\ \E read2 \in ReadTSR :
       IF read1 = read2
       THEN secs' = read1 /\ pc' = IF pc = "tsr2" THEN "tpr1" ELSE "return"
       ELSE UNCHANGED secs /\ pc' = IF pc = "tsr2" THEN "tsr1" ELSE "refetch1"
  /\ UNCHANGED <<now, read1, tpr, started, stalled, result>>

read_tpr ==
  /\ pc = "tpr1"
  /\ read1' \in ReadTPR /\ Read
  /\ pc' = "tpr2"
  /\ UNCHANGED <<now, secs, tpr, started, stalled, result>>

\* The seconds are not read again.
after_tpr_keep(count) == "return"

\* The prescaler has just rolled over: the seconds are read again.
after_tpr(count) == IF us(count) < RECENT THEN "refetch1" ELSE "return"

again_tpr ==
  /\ pc = "tpr2" /\ Read
  /\ \E read2 \in ReadTPR :
       IF read1 = read2 THEN tpr' = read1 /\ pc' = after_tpr(read1)
       ELSE UNCHANGED tpr /\ pc' = "tpr1"
  /\ UNCHANGED <<now, read1, secs, started, stalled, result>>

return ==
  /\ pc = "return"
  /\ result' = ms(secs, tpr)
  /\ pc' = "idle"
  /\ UNCHANGED <<now, changing, glitch, read1, secs, tpr, started, stalled>>

rtc_ms == call \/ read_tsr \/ again_tsr \/ read_tpr \/ again_tpr \/ return

Next == Tick \/ rtc_ms

Spec == Init /\ [][Next]_vars

-----------------------------------------------------------------------------
\* The values rtc_ms reads and returns stay in range.
TypeOK ==
  /\ now \in 0 .. SECONDS * TICKS - 1 /\ changing \in BOOLEAN /\ glitch \in BOOLEAN
  /\ read1 \in Nat /\ secs \in 0 .. SECONDS /\ tpr \in 0 .. TICKS - 1
  /\ started \in 0 .. now /\ stalled \in 0 .. Stall
  /\ result \in {NULL} \cup (0 .. ms(SECONDS + 1, 0))

Clock(t) == ms(t \div TICKS, t % TICKS)

\* "double reads insure consistent" (line 3): the time returned is one the
\* clock showed between the call and the return, to the millisecond, whatever
\* registers change between and during the reads.
Consistent == result # NULL => result \in Clock(started) .. Clock(now)

\* No call is under way.  Again and again this is so, even if the clock stands
\* still: the loops that wait for two equal reads wait for nothing else.
Returned == pc = "idle"
==============================================================================
