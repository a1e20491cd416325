------------------------------ MODULE MCSketches ------------------------------
(***************************************************************************)
(* The programs without a stack, and the timeouts of the stack: five       *)
(* sketches that share data with an interrupt handler, a DMA channel or a  *)
(* running clock, etherraw, and lwiptst as the loop that checks timeouts.  *)
(* One of them is loaded, and runs.                                        *)
(***************************************************************************)
EXTENDS Integers, Sequences

VARIABLES
  sketch,
  rx_buffer, bytes, i, printed,                              \* uartdma
  dac_buffer, raw_idx, SADDR, k, dac, expected, since,       \* dacpong
  irq, dest,                                                 \* both
  TOF, CHF, C5V, ovf_count, prev_val, count, ic_flag, inc,   \* ftmcapture
  first, edge, last, quiet,
  changing, glitch, pc, read1, secs, tpr, started, stalled, result,  \* RTCms
  now,                                                       \* both, timeouts
  pulses, TCF, msw, ticks, dataReady, prev, at, pending, told, samples,  \* lptmrcnt
  busy,                                                      \* and ftmcapture
  app, acks, ring, UDP, net, others, owed, replied,          \* etherraw
  own, lost, dup, spilled,
  list, last_time, active, pcbs, check_now, diff, cur,       \* timeouts
  elapsed, polled, punctual

\* Halves of four bytes; the buffer is gone around four times.
U == INSTANCE UartDma WITH Half <- 4, InTime <- TRUE, HALVES <- 8

\* Halves of six samples and a table of four halves; the handler ends before
\* the DMA has played the other half.
D == INSTANCE DacPong WITH SAMPLES <- 6, RAW_SIZE <- 24, Budget <- 5

\* A counter of five counts, of which the last two are above LIMIT.
F == INSTANCE FtmCapture WITH MOD <- 5, LIMIT <- 2, WORDS <- 2, LATENCY <- 2, GAP <- 3

\* Seconds of eight ticks; a call loses fewer ticks to interrupts than the
\* refetch makes up for.
R == INSTANCE RTCms WITH TICKS <- 8, USECS <- 100, MSEC <- 20, RECENT <- 40,
                         SECONDS <- 3, Stall <- 3

\* A counter of four pulses and three overflows.
L == INSTANCE LptmrCount WITH WORD <- 4, WORDS <- 3, InTime <- TRUE, SAMPLES <- 4

\* Three requests and a ring no larger than the window.
W == INSTANCE RawUdp WITH reps <- 3, WPKTS <- 2, RXSIZE <- 2, OTHERS <- 1

\* The intervals scaled down (arp 5 s, dhcp fine 500 ms, igmp 100 ms, tcp 250
\* ms in the code) and a clock that wraps; checks come in time or late.
Intervals == [arp |-> 5, fine |-> 4, igmp |-> 2, tcp |-> 3]
T == INSTANCE LwipTimers WITH Periodic <- <<"arp", "fine", "igmp">>, Tcp <- "tcp",
       Interval <- Intervals, ClockMod <- 11, MaxLag <- 3, MaxElapsed <- 6,
       Advance <- {1, 2}, LateHistory <- FALSE, AllocFails <- FALSE

ASSUME SketchConstants == W!RawConstants /\ T!TimerConstants

uartdma == <<rx_buffer, bytes, printed>>
dacpong == <<dac_buffer, raw_idx, SADDR, k, dac, expected, since>>
dma == <<irq, dest>>
ftmcapture == <<TOF, CHF, C5V, ovf_count, prev_val, count, ic_flag, inc, first,
                edge, last, quiet>>
RTC == <<changing, glitch, read1, secs, tpr, started, stalled, result>>
lptmrcnt == <<pulses, TCF, msw, ticks, dataReady, prev, at, pending, told, samples>>
etherraw == <<app, acks, ring, UDP, net, others, owed, replied, own, lost, dup, spilled>>
timeouts == <<list, last_time, active, pcbs, check_now, diff, cur, elapsed, polled, punctual>>
vars == <<sketch, uartdma, i, dacpong, dma, ftmcapture, RTC, now, pc, lptmrcnt, busy, etherraw, timeouts>>

\* All the variables of a program.
uartvars == <<uartdma, i, dma>>
dacvars == <<dacpong, dma>>
rtcvars == <<RTC, now, pc>>
rawvars == <<etherraw, i, pc>>
timervars == <<timeouts, now, pc>>

\* The variables of a sketch that is not loaded.
uartdmaOff == rx_buffer = 0 /\ bytes = 0 /\ printed = 0
dacpongOff ==
  /\ dac_buffer = 0 /\ raw_idx = 0 /\ SADDR = 0 /\ k = 0
  /\ dac = 0 /\ expected = 0 /\ since = 0
dmaOff == irq = 0 /\ dest = 0
ftmcaptureOff ==
  /\ TOF = 0 /\ CHF = 0 /\ C5V = 0 /\ ovf_count = 0 /\ prev_val = 0 /\ count = 0
  /\ ic_flag = 0 /\ inc = 0 /\ first = 0 /\ edge = 0 /\ last = 0 /\ quiet = 0
RTCOff ==
  /\ changing = 0 /\ glitch = 0 /\ read1 = 0 /\ secs = 0
  /\ tpr = 0 /\ started = 0 /\ stalled = 0 /\ result = 0
lptmrcntOff ==
  /\ pulses = 0 /\ TCF = 0 /\ msw = 0 /\ ticks = 0 /\ dataReady = 0
  /\ prev = 0 /\ at = 0 /\ pending = 0 /\ told = 0 /\ samples = 0

etherrawOff ==
  /\ app = 0 /\ acks = 0 /\ ring = 0 /\ UDP = 0 /\ net = 0 /\ others = 0
  /\ owed = 0 /\ replied = 0 /\ own = 0 /\ lost = 0 /\ dup = 0 /\ spilled = 0
timeoutsOff ==
  /\ list = 0 /\ last_time = 0 /\ active = 0 /\ pcbs = 0 /\ check_now = 0
  /\ diff = 0 /\ cur = 0 /\ elapsed = 0 /\ polled = 0 /\ punctual = 0

Init ==
  \/ /\ sketch = "uartdma" /\ U!Init
     /\ dacpongOff /\ ftmcaptureOff /\ RTCOff /\ lptmrcntOff
     /\ etherrawOff /\ timeoutsOff /\ now = 0 /\ pc = 0 /\ busy = 0
  \/ /\ sketch = "dacpong" /\ D!Init
     /\ uartdmaOff /\ ftmcaptureOff /\ RTCOff /\ lptmrcntOff
     /\ etherrawOff /\ timeoutsOff /\ i = 0 /\ now = 0 /\ pc = 0 /\ busy = 0
  \/ /\ sketch = "ftmcapture" /\ F!Init
     /\ uartdmaOff /\ dacpongOff /\ dmaOff /\ RTCOff
     /\ lptmrcntOff /\ etherrawOff /\ timeoutsOff /\ i = 0 /\ pc = 0
  \/ /\ sketch = "RTCms" /\ R!Init
     /\ uartdmaOff /\ dacpongOff /\ dmaOff /\ ftmcaptureOff
     /\ lptmrcntOff /\ etherrawOff /\ timeoutsOff /\ i = 0 /\ busy = 0
  \/ /\ sketch = "lptmrcnt" /\ L!Init
     /\ uartdmaOff /\ dacpongOff /\ dmaOff /\ ftmcaptureOff
     /\ RTCOff /\ etherrawOff /\ timeoutsOff /\ i = 0 /\ now = 0 /\ pc = 0
  \/ /\ sketch = "etherraw" /\ W!Init
     /\ uartdmaOff /\ dacpongOff /\ dmaOff /\ ftmcaptureOff
     /\ RTCOff /\ lptmrcntOff /\ timeoutsOff /\ now = 0 /\ busy = 0
  \/ /\ sketch = "timeouts" /\ T!Init
     /\ uartdmaOff /\ dacpongOff /\ dmaOff /\ ftmcaptureOff
     /\ RTCOff /\ lptmrcntOff /\ etherrawOff /\ i = 0 /\ busy = 0

Next ==
  /\ UNCHANGED sketch
  /\ \/ /\ sketch = "uartdma" /\ U!Next
        /\ UNCHANGED <<dacpong, ftmcapture, RTC, lptmrcnt, etherraw, timeouts, now, pc, busy>>
     \/ /\ sketch = "dacpong" /\ D!Next
        /\ UNCHANGED <<uartdma, ftmcapture, RTC, lptmrcnt, etherraw, timeouts, i, now, pc, busy>>
     \/ /\ sketch = "ftmcapture" /\ F!Next
        /\ UNCHANGED <<uartdma, dacpong, dma, RTC, lptmrcnt, etherraw, timeouts, i, pc>>
     \/ /\ sketch = "RTCms" /\ R!Next
        /\ UNCHANGED <<uartdma, dacpong, dma, ftmcapture, lptmrcnt, etherraw, timeouts, i, busy>>
     \/ /\ sketch = "lptmrcnt" /\ L!Next
        /\ UNCHANGED <<uartdma, dacpong, dma, ftmcapture, RTC, etherraw, timeouts, i, now, pc>>
     \/ /\ sketch = "etherraw" /\ W!Next
        /\ UNCHANGED <<uartdma, dacpong, dma, ftmcapture, RTC, lptmrcnt, timeouts, now, busy>>
     \/ /\ sketch = "timeouts" /\ T!Next
        /\ UNCHANGED <<uartdma, dacpong, dma, ftmcapture, RTC, lptmrcnt, etherraw, i, busy>>

\* Interrupts are taken and loop() is called again and again; the timer of
\* dacpong goes on.  The clock of RTCms is not fair to its reader.  etherraw
\* never stops polling, and a network that does not lose delivers.  The system
\* clock never stops and the handlers of timeouts return.
FairSpec ==
  /\ Init /\ [][Next]_vars
  /\ WF_uartvars(sketch = "uartdma" /\ U!isr)
  /\ WF_uartvars(sketch = "uartdma" /\ U!loop)
  /\ WF_dacvars(sketch = "dacpong" /\ D!Play)
  /\ WF_dacvars(sketch = "dacpong" /\ D!handler)
  /\ WF_rtcvars(sketch = "RTCms" /\ R!rtc_ms)
  /\ WF_rawvars(sketch = "etherraw" /\ W!Program)
  /\ \A d \in 0 .. 5 : WF_rawvars(sketch = "etherraw" /\ d \in net /\ W!Deliver(d))
  /\ WF_timervars(sketch = "timeouts" /\ T!Ticks)
  /\ WF_timervars(sketch = "timeouts" /\ T!InCheck)
  /\ WF_timervars(sketch = "timeouts" /\ T!sys_check_timeouts)

-----------------------------------------------------------------------------
\* Two halves of a buffer change hands.  uartdma prints them in the order
\* received, whole and unmixed, and every half received is printed, being
\* printed or about to be.  dacpong plays its table over and over without a
\* gap or a mixed sample, and its handler never writes the half being played.
HalvesInTurn ==
  /\ sketch = "uartdma" => U!TypeOK /\ U!InOrder /\ U!NoneLost
  /\ sketch = "dacpong" => D!TypeOK /\ D!Continuous /\ D!OtherHalf

\* A running counter is read exactly.  ftmcapture keeps the 32-bit time of the
\* edge, in every order of the edge, the overflow and the reads of their
\* flags, and prints one measurement.  rtc_ms returns a time the clock showed
\* between its call and its return.  A sample of lptmrcnt is the number of
\* pulses, or one turn of the counter short when an overflow waits for its
\* handler; what is printed adds up to the last sample.
CountersExact ==
  /\ sketch = "ftmcapture" => F!TypeOK /\ F!EdgeTimed /\ F!OneMeasurement
  /\ sketch = "RTCms" => R!TypeOK /\ R!Consistent
  /\ sketch = "lptmrcnt" => L!TypeOK /\ L!ShortByATurn /\ L!AddsUp


\* Every handler of the stack is scheduled once, and the TCP timer exactly
\* while its flag says so; a check in every millisecond leaves none overdue.
TimeoutsKept ==
  sketch = "timeouts" => T!TypeOK /\ T!ScheduledOnce /\ T!NoneOverdue

\* Checked in every millisecond, a periodic handler is called exactly each
\* interval, whatever else is scheduled around it.
PeriodicExact ==
  [][sketch = "timeouts" /\ punctual /\ T!Fires /\ cur' # "tcp"
       => elapsed[cur'] = Intervals[cur']]_vars

\* uartdma prints every half it receives in the end, dacpong starts its table
\* again and again, every call of rtc_ms ends, a client of etherraw finishes
\* when the network is quiet, and every handler of the stack is called again
\* and again.
Progress ==
  /\ []<>(sketch = "uartdma" => U!CaughtUp)
  /\ []<>(sketch = "dacpong" => D!Start)
  /\ []<>(sketch = "RTCms" => R!Returned)
  /\ <>(sketch = "etherraw" => W!Served)
  /\ \A h \in {"arp", "fine", "igmp"} : []<>(sketch = "timeouts" => T!Calling(h))
  /\ <>[](sketch = "timeouts" /\ pcbs) => []<>(sketch = "timeouts" /\ T!Calling("tcp"))
===============================================================================
