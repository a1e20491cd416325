------------------------------- MODULE DacPong -------------------------------
(***************************************************************************)
(* dacpong.ino: a DMA channel, paced by a timer, plays a circular buffer   *)
(* of two halves to the DAC and interrupts when it has played either half; *)
(* the interrupt handler fills that half with the next samples of          *)
(* raw_data while the DMA goes on with the other.                          *)
(*                                                                         *)
(* A sample is its index in raw_data.  The handler copies sample by sample *)
(* (memcpy), concurrently with the DMA.  Budget is the number of samples   *)
(* the DMA plays at most from an interrupt until its handler ends: 2.9 ms  *)
(* are SAMPLES of them.                                                    *)
(***************************************************************************)
EXTENDS Integers

CONSTANTS
  SAMPLES, RAW_SIZE,
  Budget

NULL == -1
Silence == -1      \* nothing played yet

VARIABLES
  dac_buffer, raw_idx,
  SADDR,      \* the index the DMA plays next
  irq,        \* the interrupt of the channel is pending
  dest, k,    \* the handler: where it copies to, NULL when it does not run
  dac,        \* the sample in the DAC
  expected,   \* the sample that must follow it
  since       \* samples played since the interrupt that is not handled yet

vars == <<dac_buffer, raw_idx, SADDR, irq, dest, k, dac, expected, since>>

\* setup() fills both halves and starts the DMA.
Init ==
  /\ dac_buffer = [j \in 0 .. 2 * SAMPLES - 1 |-> j % RAW_SIZE]
  /\ raw_idx = (2 * SAMPLES) % RAW_SIZE
  /\ SADDR = 0 /\ irq = FALSE /\ dest = NULL /\ k = 0
  /\ dac = Silence /\ expected = 0 /\ since = 0

Play ==
  /\ irq \/ dest # NULL => since < Budget
  /\ dac' = dac_buffer[SADDR]
  /\ expected' = (expected + 1) % RAW_SIZE
  /\ SADDR' = (SADDR + 1) % (2 * SAMPLES)
  /\ irq' = (irq \/ SADDR' % SAMPLES = 0)
  /\ since' = IF irq \/ dest # NULL THEN since + 1 ELSE 0
  /\ UNCHANGED <<dac_buffer, raw_idx, dest, k>>

isr ==
  /\ irq /\ dest = NULL
  /\ irq' = FALSE
  /\ dest' = IF SADDR < SAMPLES THEN SAMPLES ELSE 0
  /\ k' = 0
  /\ UNCHANGED <<dac_buffer, raw_idx, SADDR, dac, expected, since>>

\* The memcpy of next_sample.
copy ==
  /\ dest # NULL /\ k < SAMPLES
  /\ dac_buffer' = [dac_buffer EXCEPT ![dest + k] = raw_idx + k]
  /\ k' = k + 1
  /\ UNCHANGED <<raw_idx, SADDR, irq, dest, dac, expected, since>>

wrap(idx) == IF idx >= RAW_SIZE THEN 0 ELSE idx

next_sample ==
  /\ dest # NULL /\ k = SAMPLES
  /\ raw_idx' = wrap(raw_idx + SAMPLES)
  /\ dest' = NULL
  /\ UNCHANGED <<dac_buffer, SADDR, irq, k, dac, expected, since>>

handler == isr \/ copy \/ next_sample

Next == Play \/ handler

Spec == Init /\ [][Next]_vars

-----------------------------------------------------------------------------
\* The indices stay within the table and the buffer that isr and next_sample use.
TypeOK ==
  /\ dac_buffer \in [0 .. 2 * SAMPLES - 1 -> 0 .. RAW_SIZE - 1]
  /\ raw_idx \in 0 .. RAW_SIZE - 1 /\ SADDR \in 0 .. 2 * SAMPLES - 1
  /\ irq \in BOOLEAN /\ dest \in {NULL, 0, SAMPLES} /\ k \in 0 .. SAMPLES
  /\ dac \in {Silence} \cup (0 .. RAW_SIZE - 1) /\ expected \in 0 .. RAW_SIZE - 1
  /\ since \in 0 .. Budget

\* What the DAC plays is raw_data over and over, without a gap, a repeated or
\* a mixed sample, although it is copied while the DMA plays.
Continuous == dac # Silence => (dac + 1) % RAW_SIZE = expected

\* The handler never writes the half the DMA is playing ("DMA is transmitting
\* the first half of the buffer so we must fill the second half").
OtherHalf == dest # NULL /\ k < SAMPLES => ~(SADDR \in dest .. dest + SAMPLES - 1)

\* The DAC starts raw_data (again and again; the rest follows, by Continuous).
Start == dac = 0
==============================================================================
