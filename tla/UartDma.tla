------------------------------- MODULE UartDma -------------------------------
(***************************************************************************)
(* uartdma.ino: a DMA channel stores what UART3 receives in a circular     *)
(* buffer and interrupts when it has filled either half; the interrupt     *)
(* handler leaves a pointer to the full half in dest, and loop() prints    *)
(* what dest points to, character by character, and clears dest.           *)
(*                                                                         *)
(* The three run concurrently.  A byte is the number of the half it came   *)
(* in.  An interrupt is taken long before the DMA has filled another half, *)
(* which takes a second (512 bytes at 4800 baud).  With InTime, loop() has *)
(* also printed a half by then.                                            *)
(***************************************************************************)
EXTENDS Integers, Sequences

CONSTANTS
  Half,     \* SAMPLES / 2
  InTime,   \* whether loop() keeps the pace
  HALVES    \* bound: the halves received; one more may be printed

NULL == -1
None == -1      \* a byte of rx_buffer never written

VARIABLES
  rx_buffer,
  bytes,     \* bytes received; DADDR is its remainder
  irq,       \* the interrupt of the channel is pending
  dest,      \* NULL, or the index dest points to
  i,         \* the character loop() prints next, NULL outside the for
  printed    \* what loop() has printed, a sequence of bytes for each half

vars == <<rx_buffer, bytes, irq, dest, i, printed>>

DADDR == bytes % (2 * Half)

Init ==
  /\ rx_buffer = [k \in 0 .. 2 * Half - 1 |-> None]
  /\ bytes = 0 /\ irq = FALSE
  /\ dest = NULL /\ i = NULL /\ printed = <<>>


\* dmainit sets INTHALF and INTMAJOR: an interrupt at the end of either half.
interrupts(n) == n % Half = 0

\* The DMA stores a byte.
Receive ==
  LET last == (bytes + 1) % Half = 0 IN
  /\ bytes < HALVES * Half
  /\ last => ~irq
  /\ InTime /\ last => dest = NULL
  /\ rx_buffer' = [rx_buffer EXCEPT ![DADDR] = bytes \div Half]
  /\ bytes' = bytes + 1
  /\ irq' = (irq \/ interrupts(bytes + 1))
  /\ UNCHANGED <<dest, i, printed>>

\* The half that the DMA is filling, rather than the other.
isr_same ==
  /\ irq /\ irq' = FALSE
  /\ dest' = IF DADDR < Half THEN 0 ELSE Half
  /\ UNCHANGED <<rx_buffer, bytes, i, printed>>

isr ==
  /\ irq /\ irq' = FALSE
  /\ dest' = IF DADDR < Half THEN Half ELSE 0
  /\ UNCHANGED <<rx_buffer, bytes, i, printed>>

loop_start ==
  /\ i = NULL /\ dest # NULL /\ Len(printed) < HALVES + 1
  /\ i' = 0 /\ printed' = Append(printed, <<>>)
  /\ UNCHANGED <<rx_buffer, bytes, irq, dest>>

\* dest is read again for every character, as the interrupt may have left it.
loop_print ==
  /\ i # NULL /\ i < Half
  /\ i' = i + 1
  /\ printed' = [printed EXCEPT ![Len(printed)] = Append(@, rx_buffer[dest + i])]
  /\ UNCHANGED <<rx_buffer, bytes, irq, dest>>

loop_end ==
  /\ i = Half
  /\ i' = NULL /\ dest' = NULL
  /\ UNCHANGED <<rx_buffer, bytes, irq, printed>>

loop == loop_start \/ loop_print \/ loop_end

Next == Receive \/ isr \/ loop

Spec == Init /\ [][Next]_vars

-----------------------------------------------------------------------------
Done == IF i = NULL THEN Len(printed) ELSE Len(printed) - 1

\* The buffer, the pointer and the index stay within what isr and loop set.
TypeOK ==
  /\ bytes \in 0 .. HALVES * Half /\ irq \in BOOLEAN
  /\ dest \in {NULL, 0, Half} /\ i \in {NULL} \cup (0 .. Half)
  /\ rx_buffer \in [0 .. 2 * Half - 1 -> {None} \cup (0 .. HALVES)]
  /\ \A k \in 1 .. Len(printed) : Len(printed[k]) <= Half

\* loop() prints the halves in the order they were received, each of them
\* once and whole: no character comes from a half that the DMA has begun to
\* overwrite, whatever the DMA stores while it prints.
InOrder == \A k \in 1 .. Len(printed) : \A c \in 1 .. Len(printed[k]) : printed[k][c] = k - 1

\* The interrupt says which half "we must print" (lines 18 to 26): every half
\* received is printed, being printed or about to be, so none is left behind.
NoneLost == bytes \div Half <= Done + (IF dest # NULL THEN 1 ELSE 0) + (IF irq THEN 1 ELSE 0)

\* Everything received so far has been printed (it holds again and again).
CaughtUp == Done = bytes \div Half
==============================================================================
