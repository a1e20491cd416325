------------------------------ MODULE FtmCapture ------------------------------
(***************************************************************************)
(* ftmcapture.ino: the time between rising edges, measured with a 16-bit   *)
(* timer that captures its counter at an edge, and an overflow counter     *)
(* kept by the interrupt handler.  The one handler serves both interrupts  *)
(* and tells from the captured value whether an overflow it sees together  *)
(* with an edge came before or after the edge.                             *)
(*                                                                         *)
(* Time passes between any two steps of the handler.  Assumed is that it   *)
(* ends within LATENCY counts of the flag that it serves being set, and    *)
(* that edges are further apart than that.                                 *)
(***************************************************************************)
EXTENDS Integers

CONSTANTS
  MOD,       \* 0xFFFF + 1, where the counter overflows
  LIMIT,     \* 0xE000
  WORDS,     \* the overflows that 32 bits count, 2^16
  LATENCY,
  GAP        \* counts between two edges, at least

NULL == -1
Turn == MOD * WORDS     \* 2^32

VARIABLES
  now,         \* counts since the start, modulo Turn; the counter is its low word
  TOF, CHF,    \* the flags: NULL, or the counts since the flag was set
  C5V,         \* the captured count
  ovf_count, prev_val, count, ic_flag,
  busy,        \* NULL, or the counts since the flag was set that the handler serves
  inc,         \* the local of the handler
  first,       \* what the main loop read of count for gap; NULL outside the if
  edge,        \* ghost: when the last edge came
  last,        \* ghost: when the edge that prev_val stands for came
  quiet        \* counts since the last edge, up to GAP

vars == <<now, TOF, CHF, C5V, ovf_count, prev_val, count, ic_flag, busy, inc,
          first, edge, last, quiet>>

CNT == now % MOD
Minus(a, b) == (a - b) % Turn

Init ==
  /\ now = 0 /\ TOF = NULL /\ CHF = NULL /\ C5V = 0
  /\ ovf_count = 0 /\ prev_val = 0 /\ count = 0 /\ ic_flag = FALSE
  /\ busy = NULL /\ inc = FALSE /\ first = NULL
  /\ edge = NULL /\ last = 0 /\ quiet = GAP

Older(flag) == IF flag = NULL THEN NULL ELSE flag + 1

Tick ==
  /\ TOF < LATENCY /\ CHF < LATENCY /\ busy < LATENCY
  /\ now' = (now + 1) % Turn
  /\ TOF' = IF CNT = MOD - 1 /\ TOF = NULL THEN 0 ELSE Older(TOF)
  /\ CHF' = Older(CHF) /\ busy' = Older(busy)
  /\ quiet' = IF quiet < GAP THEN quiet + 1 ELSE GAP
  /\ UNCHANGED <<C5V, ovf_count, prev_val, count, ic_flag, inc, first, edge, last>>

Edge ==
  /\ quiet = GAP
  /\ quiet' = 0
  /\ C5V' = CNT
  /\ CHF' = IF CHF = NULL THEN 0 ELSE CHF
  /\ edge' = now
  /\ UNCHANGED <<now, TOF, ovf_count, prev_val, count, ic_flag, busy, inc, first, last>>

(***************************************************************************)
(* ftm0_isr: the overflow, then the edge.                                  *)
(***************************************************************************)
isr_overflow ==
  /\ busy = NULL /\ (TOF # NULL \/ CHF # NULL)
  /\ inc' = (TOF # NULL)
  /\ ovf_count' = IF TOF # NULL THEN (ovf_count + 1) % WORDS ELSE ovf_count
  /\ TOF' = NULL
  /\ busy' = IF TOF > CHF THEN TOF ELSE CHF
  /\ UNCHANGED <<now, CHF, C5V, prev_val, count, ic_flag, first, edge, last, quiet>>

\* An overflow seen together with a high count came after the edge.
Extended(val) ==
  IF val <= LIMIT \/ ~inc THEN (val + ovf_count * MOD) % Turn
  ELSE (val + ((ovf_count - 1) % WORDS) * MOD) % Turn

Leave == busy # NULL /\ busy' = NULL /\ CHF' = NULL

isr_capture ==
  /\ Leave /\ CHF # NULL /\ ~ic_flag
  /\ count' = Minus(Extended(C5V), prev_val)
  /\ prev_val' = Extended(C5V) /\ last' = edge
  /\ ic_flag' = TRUE
  /\ UNCHANGED <<now, TOF, C5V, ovf_count, inc, first, edge, quiet>>

\* No edge, or one that comes before the last has been printed.
isr_no_capture ==
  /\ Leave /\ (CHF = NULL \/ ic_flag)
  /\ UNCHANGED <<now, TOF, C5V, ovf_count, prev_val, count, ic_flag, inc, first,
                 edge, last, quiet>>

(***************************************************************************)
(* loop: count is read for gap and ppm, and again when it is printed.      *)
(***************************************************************************)
loop_gap ==
  /\ ic_flag /\ first = NULL
  /\ first' = count
  /\ UNCHANGED <<now, TOF, CHF, C5V, ovf_count, prev_val, count, ic_flag, busy, inc,
                 edge, last, quiet>>

loop_print ==
  /\ first # NULL
  /\ first' = NULL /\ ic_flag' = FALSE
  /\ UNCHANGED <<now, TOF, CHF, C5V, ovf_count, prev_val, count, busy, inc,
                 edge, last, quiet>>

ftm0_isr == isr_overflow \/ isr_capture \/ isr_no_capture
loop == loop_gap \/ loop_print

Next == Tick \/ Edge \/ ftm0_isr \/ loop

Spec == Init /\ [][Next]_vars

-----------------------------------------------------------------------------
\* The counters of ftm0_isr stay within their widths.
TypeOK ==
  /\ now \in 0 .. Turn - 1 /\ TOF \in {NULL} \cup (0 .. LATENCY)
  /\ CHF \in {NULL} \cup (0 .. LATENCY) /\ C5V \in 0 .. MOD - 1
  /\ ovf_count \in 0 .. WORDS - 1 /\ prev_val \in 0 .. Turn - 1 /\ count \in 0 .. Turn - 1
  /\ ic_flag \in BOOLEAN /\ inc \in BOOLEAN /\ busy \in {NULL} \cup (0 .. LATENCY)
  /\ first \in {NULL} \cup (0 .. Turn - 1) /\ quiet \in 0 .. GAP

\* The handler takes into account "any overflows that have occured" (line
\* 124): the value it keeps is the 32-bit time of the edge, in every order of
\* the edge, the overflow and the reads of the two flags.
EdgeTimed == prev_val = last

\* The main loop prints one measurement: what it reads of count first is what
\* it reads last, whatever edges come in between.
OneMeasurement == first # NULL => first = count
===============================================================================
