------------------------------ MODULE LptmrCount ------------------------------
(***************************************************************************)
(* lptmrcnt.ino: a pulse counter of 16 bits whose overflows an interrupt   *)
(* handler counts in msw; a second handler, of an interval timer, combines *)
(* the two into ticks every second, and the main loop prints by how much   *)
(* ticks has grown.  Neither handler interrupts the other: they have the   *)
(* same priority.                                                          *)
(*                                                                         *)
(* An overflow is served before the counter has gone halfway around again. *)
(* With InTime, the main loop has printed a sample before the next one.    *)
(***************************************************************************)
EXTENDS Integers

CONSTANTS
  WORD,     \* 2^16
  WORDS,    \* the overflows that 32 bits count, 2^16
  InTime,
  SAMPLES   \* bound: the samples taken

Turn == WORD * WORDS     \* 2^32

VARIABLES
  pulses,     \* pulses counted, modulo Turn
  TCF, msw,
  ticks, dataReady,
  prev,
  busy,       \* the main loop is between println and dataReady = 0
  at,         \* ghost: the pulses when ticks was sampled
  pending,    \* ghost: whether an overflow was not counted then
  told,       \* ghost: the sum of what was printed, modulo Turn
  samples     \* samples taken

vars == <<pulses, TCF, msw, ticks, dataReady, prev, busy, at, pending, told, samples>>

CNR == pulses % WORD

Init ==
  /\ pulses = 0 /\ TCF = FALSE /\ msw = 0 /\ ticks = 0 /\ dataReady = FALSE
  /\ prev = 0 /\ busy = FALSE /\ at = 0 /\ pending = FALSE /\ told = 0 /\ samples = 0

\* The compare flag rises when the counter goes from CMR, 0xffff, to zero.
Pulse ==
  /\ TCF => CNR < WORD \div 2
  /\ pulses' = (pulses + 1) % Turn
  /\ TCF' = (TCF \/ CNR = WORD - 1)
  /\ UNCHANGED <<msw, ticks, dataReady, prev, busy, at, pending, told, samples>>

lptmr_isr ==
  /\ TCF /\ TCF' = FALSE
  /\ msw' = (msw + 1) % WORDS
  /\ UNCHANGED <<pulses, ticks, dataReady, prev, busy, at, pending, told, samples>>

it1cb ==
  /\ InTime => ~dataReady
  /\ samples < SAMPLES /\ samples' = samples + 1
  /\ ticks' = CNR + msw * WORD
  /\ dataReady' = TRUE
  /\ at' = pulses /\ pending' = TCF
  /\ UNCHANGED <<pulses, TCF, msw, prev, busy, told>>

\* println(ticks - prev)
loop_print ==
  /\ dataReady /\ ~busy
  /\ busy' = TRUE
  /\ told' = (told + ticks - prev) % Turn
  /\ UNCHANGED <<pulses, TCF, msw, ticks, dataReady, prev, at, pending, samples>>

\* prev = ticks, which is read again; dataReady = 0
loop_reset ==
  /\ busy /\ busy' = FALSE
  /\ prev' = ticks
  /\ dataReady' = FALSE
  /\ UNCHANGED <<pulses, TCF, msw, ticks, at, pending, told, samples>>

loop == loop_print \/ loop_reset

Next == Pulse \/ lptmr_isr \/ it1cb \/ loop

Spec == Init /\ [][Next]_vars

-----------------------------------------------------------------------------
\* The counters of the two handlers stay within their widths.
TypeOK ==
  /\ pulses \in 0 .. Turn - 1 /\ msw \in 0 .. WORDS - 1 /\ ticks \in 0 .. Turn - 1
  /\ prev \in 0 .. Turn - 1 /\ told \in 0 .. Turn - 1 /\ samples \in 0 .. SAMPLES
  /\ {TCF, dataReady, busy, pending} \subseteq BOOLEAN

\* A sample is the number of pulses, or one whole turn of the counter short
\* of it, and that only when the overflow was waiting for its handler.
ShortByATurn == at = (ticks + IF pending THEN WORD ELSE 0) % Turn

\* What is printed adds up to the last sample: no pulse is left out of the
\* sums or counted in two of them.
AddsUp == told = IF busy THEN ticks ELSE prev
===============================================================================
