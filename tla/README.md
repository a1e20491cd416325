# teensy3: TLA+ verification

The repository is a collection of programs for the Teensy 3.x boards: sketches
that drive one peripheral each (DMA, timers, DAC, RTC, UART, SD card, W5100),
`etherraw.ino`, an Ethernet program without a stack, and `k66lwip`, the lwIP 1.4
TCP/IP stack with a driver for the Ethernet controller of the K66 and a test
application. There is no operating system: what runs concurrently is the main
loop, interrupt handlers, DMA engines and peripherals, and the network.

This directory holds TLA+ models of the parts that have state worth checking,
TLC runs on small instances of them, and TLAPS proofs for instances of any size.

    tlc -workers 2 -config MCEtharp.cfg MCEtharp     # one run
    tlapm Etharp_proofs.tla                          # one module of proofs

`PROJECT.json` lists the components, runs, mutants, hazards and theorems, and
maps every definition that models code to the lines it models.

## 1. Inventory

What the system consists of, the state each part keeps, its operations, what it
interacts with, what is hard about it and what should hold. Parts that no module
models yet are marked (-).

| Part | State | Operations | Hard behaviours | Should hold |
|---|---|---|---|---|
| ENET driver (`lwipk66.c`, `etherraw.ino`) | two descriptor rings shared with the MAC, cursors of CPU and MAC, RDAR, TDAR | `etherk66_init`, `ether_poll`, `handle_frame`, `k66_low_level_output` | MAC and CPU move concurrently; replies sent while a frame is handled; full rings | both sides agree on who owns a buffer; FIFO; the busy wait ends |
| lwIP timeouts (`timers.c`) | the delta list, `timeouts_last_time`, the flag of the TCP timer, a wrapping clock | `sys_timeout`, `sys_check_timeouts`, the handlers | irregular polling, handlers that re-arm themselves, a timer that stops and starts | each handler scheduled once, called on time and for ever |
| ARP cache (`etharp.c`) | the table, the cached index, one queued packet per entry | `etharp_output`, `etharp_query`, `etharp_arp_input`, `etharp_tmr` | recycling, stale cached index, failing allocations | one entry per address, packets go to the right host, none leaks |
| DHCP client (`dhcp.c`) | client state, tries, three timers, lease, address of the interface | two timers, reception, start/stop/release/renew, link change | lost, late, repeated replies of two servers; allocation failures; counters that wrap | only granted addresses are used; one lease at a time; never stuck |
| `etherraw.ino` | the holding area for one datagram, counters of three clients | `check_rx`, `loop`, `udp_echo`, `udp_tcp`, `udp_ntp` | polling in the middle of a wait; loss and duplicates | no datagram overwritten, requests of others answered, clients finish |
| `uartdma.ino`, `dacpong.ino` | circular DMA buffers, a pointer set by an interrupt | interrupt handler, main loop, DMA | three concurrent actors | nothing lost, mixed or played twice |
| `ftmcapture.ino`, `lptmrcnt.ino`, `RTCms.ino` | 16-bit counters extended in software, a clock read in two registers | interrupt handlers, main loop | overflow pending when the counter is read; rollover between two reads | the 32-bit value is the true one |
| TCP (`tcp.c`, `tcp_in.c`, `tcp_out.c`) | PCB lists, windows, queues of segments, timers | input, output, the application's calls | reordering, loss, simultaneous close, aborts in callbacks | stream delivered once and in order, PCBs freed once |
| packet buffers (`pbuf.c`) | chains of buffers with reference counts and lengths | alloc, free, ref, cat, chain, dechain, realloc, header, coalesce, the readers | shared ownership, a pool that runs out | counts are exact, lengths and bytes are the packet's |
| netif, IP, ICMP, UDP (`netif.c`, `ip.c`, `icmp.c`, `udp.c`) | the interfaces and their addresses, the PCB list, the loopback queue | add, remove, set addresses; bind, connect, send, input, forward | addresses that change under PCBs, a list that reorders itself | the right PCB, a source address that is ours |
| SNMP agent and MIB-II (`core/snmp`), not compiled | slots of concurrent requests, pools, the object tree with its index tables | GET, GETNEXT, SET; insertion and deletion of rows by the stack | requests suspended on external objects, exhausted pools, two-pass encoding | tables mirror the stack, each request is answered as asked |
| PPP (`netif/ppp`), not compiled | LCP and IPCP automata, CHAP and PAP machines, the link phase | events of RFC 1661, authentication, open, close, hang-up | crossing requests, loss, timers, a looped line | both ends agree; every attempt ends open or dead |
| sockets and netconn API (`api`), not compiled | sockets, netconns, mailboxes, a semaphore per netconn, the list of `select` calls | the socket calls, the callbacks of TCP and UDP, `event_callback` | application threads against `tcpip_thread`, full mailboxes, resets | each call answered once, no event or wakeup lost, exact window |
| IGMP (-) | groups, use counts, delay timers | join, leave, query, report | late queries | a joined group answers |
| SDHC, W5100 (-) | controller registers, ring buffers | card identification, transfers | busy controller, 16-bit pointers | data arrives whole |
| DNS, AutoIP, raw PCBs, SLIP, IP fragments (-), not compiled | | | | |
| benchmarks and register sketches (-) | none beyond a flag | | | |

How the parts interact: `ether_poll` takes a frame from the ring and hands it to
`ethernet_input`, which updates the ARP cache and passes IP to UDP (DHCP) and
TCP; their answers go through `etharp_output` into the transmit ring before the
frame's descriptor is re-armed. The same function then calls
`sys_check_timeouts`, which runs the timers of ARP, DHCP, IGMP and TCP. Since
this is one thread, a handler of the stack is one atomic step, and the
interleaving is with the MAC, the network and the clock. The configurations of
lwIP that the sketch does not compile are modelled as their source has them: the
sequential API brings threads, of which `tcpip_thread` alone runs the stack; PPP
takes the place of the Ethernet driver; the SNMP agent is a UDP application whose
tables the rest of the stack keeps.

## 2. Plan

Order of work, most central first. Done: the driver and its refinement
(`EnetRing`, `EnetLink`), the timeouts (`LwipTimers`), the ARP cache (`Etharp`),
the DHCP client (`Dhcp`), TCP (`Tcp`), the raw Ethernet program (`RawUdp`), the
interrupt sketches (`UartDma`, `DacPong`, `FtmCapture`, `RTCms`, `LptmrCount`);
then packet buffers (`Pbuf`), PPP (`PppBase`, `Lcp`, `Ipcp`, `PppFsm`, `PppAuth`,
`Ppp`), the stack above the driver (`Netif`, `Ip`, `Udp`, `IpStack`) with the SNMP
agent on it (`MibTree`, `Mib2`, `Asn1`, `SnmpMsg`, `SnmpAgent`), and the API
(`Netconn`, `Sockets`, `Select`).

Next:
1. `Tcp`: an abstract specification (two byte streams) that the module implements;
   the PCB lists with several connections; calls from inside callbacks.
2. `Igmp`, `Sdhc`, `W5100`.
3. Proofs: the delta list (each handler once), that DHCP uses only granted
   addresses, the exactness of the extended counters, `Pbuf` counts.

## 3. Modules

### `EnetRing`, `EnetLink`: the ENET driver

A descriptor is its ownership bit, its wrap bit and its buffer. The CPU counts
its cursor (`rxnum`, `txnum`), the MAC follows the wrap bit it reads from memory,
so losing that bit once sends the MAC past the ring. A buffer that is being
written holds `Torn`. The MAC (external) stores a frame in two steps
(`MacRxStart`, `MacRxDone`), stops at a descriptor it does not own and clears
RDAR (`MacRxStop`), and likewise sends. The CPU's actions are `handle_frame`
(and `handle_frame_memerr`, no pbuf), `ether_poll_rearm`, and
`low_level_output` with `_spin`, `_copy`, `_ready`, `_kick`, the order of stores
of `k66_low_level_output`; it may be called any number of times inside
`handle_frame`. `EnetLink` is the promise: two bounded FIFO links from which a
reader may also drop. `rxq` and `txq` are the refinement mapping.

### `LwipTimers`: timeouts

The list is a sequence of handlers with delays relative to the predecessor.
`sys_check_timeouts` reads the clock once; `expire` takes the head and calls its
handler; the handler re-arms itself (`periodic_timer`), or only while a PCB needs
it (`tcpip_tcp_timer`, `tcp_timer_needed`). `now` wraps at `ClockMod` (2^32).
History variables: time since each handler was armed, and whether every
millisecond has been polled so far.

### `Etharp`: the ARP cache

Entries with state, addresses, age and the one queued packet (`ARP_QUEUEING` is 0).
`find_entry` is a set with at most one index: the entry of the address, else what
`Recycle` gives up, in the order empty, oldest stable, oldest pending without a
packet, oldest pending with one. `etharp_output` tries `etharp_cached_entry` first.
`heard` (history) is the address each host claimed last; `copies` counts pbufs.

### `Dhcp`: the DHCP client

The fields of `struct dhcp` the control depends on; each handler is a chain of
operators on the state, as the C functions call each other. A server is named by
the one address it leases. Requests under the current transaction number draw
replies that may arrive at any time and any number of times; replies of earlier
numbers stay in `late`. `request_timeout` is running or not, so it may expire at any
fine tick; `t1_timeout`, `t2_timeout` are counted, with their 16 bits. `ERR_MEM`
bounds how many allocations fail. `leased` and `age` are history variables.

### `Tcp`: TCP

Both ends run the modelled code. A PCB is a record with the fields of `struct
tcp_pcb` that the control depends on; `net` holds the segments under way. Each
function of `tcp_out.c`, `tcp_in.c` and `tcp.c` is an operator that maps a work record
(the PCB and the segments sent) to the next, as the functions call each other;
`tcp_process` has an operator per state. The actions are `tcp_input` (a segment for a
connection, with the callbacks, in which the application may refuse data or close),
`tcp_input_other` (listening, TIME-WAIT, no PCB), the timers, the application's
calls, and `Lose` and `Duplicate` of the network; taking a segment out of turn is
reordering. Bytes are numbered as they are written and a segment carries an interval
of them next to its sequence number, so `StreamIntegrity` can compare what
arrives with what was written. Sequence numbers wrap at `MOD`. Time is abstract: a
running timer may expire at any slow tick; a tick while segments are under way
counts as a fault. `nrtx` beyond its limit is one value.

A plan (`PLANS`) bounds a behaviour: bytes written, who may shut down or waits for the
other's end, and the number of faults (loss, duplicate, overtaking, refusal,
early tick, abort). The client and the server close their connection once; the
server stops listening when it accepts. `Tidy` leaves out one call, see section 6.

### `RawUdp`: `etherraw.ino`

The ring is a queue (its descriptors are those of `EnetRing`); `UDP` is the holding
area. `app` says which of the three clients `setup()` runs. The peer answers each
request once; the network loses and duplicates (`lost`, `dup` record it).

### The sketches: `UartDma`, `DacPong`, `FtmCapture`, `RTCms`, `LptmrCount`

Each has the peripheral (external), the interrupt handler and the main loop as
actions, split where the others can come in between: character by character
(`loop_print`), sample by sample (`copy`), read by read (`read_tsr`, `again_tsr`).
The deadlines that the sketches live by are constants: how long an interrupt may
wait (`LATENCY`, `Budget`, `Stall`) and that the main loop keeps the pace
(`InTime`). `MCSketches` instantiates the five, `RawUdp` and `LwipTimers`; one of them
is loaded and runs.

### `Pbuf`: packet buffers

`heap` maps memory blocks to pbufs; a pbuf has its payload, the room before it, `tot_len`,
`next` and `ref`. `held` counts the references the callers own. Each function of
`pbuf.c` is an operator on the heap; the actions are the calls of users who keep to the
notes of the functions (cut, shrink and append at the head, one chain per pbuf).
`pbuf_alloc` from the pool takes blocks until there are none left and then frees what it
took. The readers (`pbuf_copy_partial`, `pbuf_get_at`, `pbuf_memfind`, `pbuf_copy`) are
compared with the packet, the concatenation of the payloads.

### PPP: `PppBase`, `Lcp`, `Ipcp`, `PppFsm`, `PppAuth`, `Ppp`

`PppBase` has the records and packets. `Lcp` and `Ipcp` are the option handling of
`lcp.c` and `ipcp.c` (`addci`, `ackci`, `nakci`, `rejci`, `reqci` for every option);
`PppFsm` is `fsm.c` over either of them, with an operator per event. `PppAuth` has CHAP and
PAP, client and server. `Ppp` puts the phases of `auth.c` and the calls of `ppp.c` around
them: `end[e]` is one end with its automata, and `todo` the stack of callbacks that
`fsm.c`, `lcp.c` and `auth.c` call from each other, run to its end within one
step. A packet arrives whole, in order, or is lost; a timer may expire when the line is
quiet, and a bounded number of times earlier. `MCPpp` has eleven situations: open and
close, a silent server, CHAP, a wrong secret, PAP, everything refused, no address, no
IPCP, options over Ethernet, a hang-up and redial, a looped line.

### The stack and its MIB: `Netif`, `Ip`, `Udp`, `IpStack`, `MibTree`, `Mib2`

The operators take the whole state as a record and return it changed, as the C functions
call each other through global variables. `MibTree` is `mib_structs.c`: the four kinds of
nodes, lists that grow and shrink from a bounded pool, `snmp_search_tree`,
`snmp_expand_tree` with its stack of right siblings. `Mib2` is the tree of `mib2.c`, its
counters and values, and the functions that keep the index tables. `Netif`, `Ip` (with
ICMP) and `Udp` call them where the code does. An address has `AddrLen` components, a packet
its addresses, ports, TTL and at most one fault. `IpStack` has the actions: calls on
interfaces and PCBs, ARP entries that become stable or expire, packets that come in, the
loopback queue. A behaviour is of one `part`: calls on interfaces ("netif"), the same
with a pool that runs out ("lean"), PCBs and datagrams ("udp"), packets of every kind
("ip"), or the agent.

### The SNMP agent: `Asn1`, `SnmpMsg`, `SnmpAgent`

`Asn1` has the encoder and decoder of lengths, integers, object identifiers and strings in
base `Radix` (256 in the code), with the two ways of counting and writing; `SnmpMsg` the
message around them, both passes of the encoder and the decoder with its early
returns. `SnmpAgent` has the slots of concurrent requests: a datagram is decoded octet by
octet, GET, GETNEXT and SET loop over the bindings and stop at an external object until its
answer comes (`External`), while other requests come in and an interface may be
unplugged. Varbinds, values and the pbuf of the response may run out. `asked` and `wrote` are
history variables.

### The API: `Netconn`, `Sockets`, `Select`

`Netconn` is `api_msg.c`: what `tcpip_thread` does for the messages of the applications
(`do_*`) and in the callbacks of TCP and UDP, as operators on a world of netconns, PCBs and
sockets. The PCBs below are what the callbacks show of them (state, send buffer, refused
data, window); the protocol is module `Tcp`. `Sockets` has the threads: a socket call
runs in steps cut at every mailbox, semaphore and protected section. One handler of
`tcpip_thread` is one step. Freed netconns are used again by the next `socket` or
accept. A socket is used by one thread at a time, since all its calls
share the semaphore `op_completed`; the passing run leaves out `MSG_PEEK`, half shutdowns and an accept mailbox that overflows (section 6).
`Select` is `lwip_select` with its two scans against `event_callback`, cut wherever the
code unprotects; the list is kept as the value of `select_cb_ctr` at which each entry was
put on it.

## 4. Runs

| Run | Checks | Instance |
|---|---|---|
| `enet_rings` | ownership arcs, refinement of `EnetLink`, progress | 2+2 descriptors, 2 frames |
| `enet_stall` (violation) | the receiver resumes after a full ring | same |
| `etharp` | unique entries, right host, no leak, recycling order, pending ends | 2 entries, 3 hosts, 2 Ethernet addresses |
| `dhcp` | lease held, rebinding in time (setting "lease"); a waiting client has a timer, no request for ever ("retries") | 2 servers and 3 kinds of lease; 1 server, every call and a failing allocation |
| `dhcp_link_up` (violation) | granted addresses only, with link changes | 2 servers |
| `sketches` | halves in turn, exact counters, clients of `etherraw` served, timeouts kept and periodic, progress | one of seven programs per behaviour |
| `lwip_timers_drift` (violation) | no timeout is overdue after a check | 3 handlers, late polls |
| `tcp` | stream in order and once, complete queues, window respected, PCBs freed | window 2, MSS 2, sequence numbers modulo 32, five plans with up to 3 bytes and 2 faults |
| `tcp_close` (violation) | a closed connection sends what it has queued | window 3, no fault |
| `ppp` | an interface that is up rests on everything below it, both ends agree, every attempt ends | 11 situations, one loss, one early timer |
| `ip_stack` | pools conserved, tables mirror the stack, GETNEXT in order, right PCB, own source address; answers fit, encoded, SET atomic, every request served | 2 interfaces, 2 PCBs, 2 slots, 3 requests, 1 external object |
| `sockets` | one answer per call, events and window exact, calls return; no lost wakeup; reference counts and bytes of pbufs | 2 threads, 2 netconns, mailboxes of 1; 2 selecting threads, 2 callers; 3 blocks |

**Why the bounds are enough.** Rings: with two descriptors every descriptor is
first or last, full and empty rings and both wraparounds occur; larger rings are
covered by the proofs. Timeouts: three handlers give insertions at the
front, in the middle and at the end, and the clock wraps during every run; `MaxLag`
bounds the lateness of a poll beyond the shortest period. ARP: three
hosts compete for two entries, so every class of `Recycle` is met, and ages reach
their limits. DHCP: two servers are what it takes to mix two leases; timers of three
bits and tries of two or three bits wrap. `etherraw`: a window of two with a ring of
two is the tightest that can work. TCP: two segments of which the second does not fit
the window bring probes, merged and partly acknowledged segments; the initial
sequence numbers are just below the wraparound; two faults are a loss and the
loss, or the duplicate, of what repairs it. Sketches: buffers are gone around several
times, and the extended counters wrap in both words. PPP: each situation is a path through
the automata that differs in kind; a loss at any point brings the retransmission of
every packet, and the counters of retries, Naks, echoes and loops all reach their
limits. Stack: addresses of two components make index trees of more than one level; two
interfaces on two networks meet every case of routing and acceptance; the lean pool runs
out in the middle of an insertion. Agent: two slots and two requests at a time, of one and
two bindings, over internal and external objects, with five varbinds for four bindings in
and as many out; `Radix` 64 brings one, two and three octets of length into small messages.
Sockets: a server with an accepted connection, a client and a datagram socket, five calls
each, with a mailbox that is full after one message, one failing allocation and a reset at
any point; netconns are used again. `select`: two threads and two callers are what it takes
to change the list under a walk; larger numbers are covered by the proof. Buffers: three
blocks hold a chain of two and one more, a packet of three bytes crosses their limit.

**Deadlock** is checked except in `sketches`, `tcp`, `ppp`, `ip_stack` and `sockets`, whose
inputs are bounded and which end with them, and where a client of `etherraw` waits for
ever for a datagram that was lost.

**Fairness.** `EnetRing`: the program calls `ether_poll` for ever and a call of the
output function goes on (weak fairness of the CPU's steps); the MAC goes on
with what it has begun and sends what is ready. No frame need arrive. `LwipTimers`:
time passes and the main loop polls. `Etharp`: the timer runs (that is what
`Progress` says of `LwipTimers`). `Dhcp`: both timers run; nothing of the servers.
`RawUdp`: the program never stops, and what the network neither loses
nor keeps is delivered. `Tcp`: segments are delivered unless lost, the timers tick
for ever (also after moments in which the network was not quiet, hence strong
fairness), and an application that may read or close does so in the end. `AllFreed`
asks nothing of a connection whose application waits to be told of the end: without
keepalive (off) a PCB whose peer is gone waits with it. Sketches:
interrupts are taken, `loop()` is called again. `Ppp`: packets under way arrive or are lost,
and running timers of each end expire in the end. `SnmpAgent`: external objects
answer. `Sockets`: `tcpip_thread` and the threads that can run do not all stop; the peer takes
what is sent, answers a connection request, and TCP polls (the slow timer of `LwipTimers`).

**Mutants.** Each property of a passing run has a variant of a definition, beside
the definition it varies and with the change a plausible bug would make, for which
TLC finds the property violated.

## 5. Proofs

All for any values of the constants that satisfy the named assumptions.

- `EnetRing_proofs` (assumes `RingSizes`, `DistinctFrames`): `RingInvariant`,
  `RingTypes`, `CursorsAgree`, `FramesAreWhole`. The properties are not inductive by
  themselves: that the MAC stays in its ring needs the wrap bit to be set in the last
  descriptor and only there (`WrapBits`); that buffers are whole needs to know which
  side may touch which buffer (`RxOwner`, `TxOwner`). `IInv` is their conjunction; the
  proof goes action by action, the receive and the transmit side separately.
- `EnetRing_refinement`: `RingsImplementLink`, that the driver and the MAC implement
  `EnetLink`. Each action changes the window of a ring by appending, dropping the
  head, or not at all; lemmas about windows going around the ring carry it.
- `Etharp_proofs` (assumes `ArpConstants`): `CacheInvariant`, `CacheTypes`,
  `OneEntryEach`, `QueuedWhereDue`, `NeverWrongHost`. The induction needs that an entry
  in use has a host's address and that a stable one holds the Ethernet address
  this host claimed last (`EntryOK`).

- `Select_proofs` (assumes `SelectConstants`): `Inductive`, `WakeupsKept`, `SignalsSound`,
  for any number of selecting threads, of callers and of sockets. That no wakeup is lost
  needs the list to hold exactly the threads between their enlisting and their leaving,
  each once (`ListOK`), `select_waiting` to be the number of threads interested, because
  `event_callback` returns early when it is zero (`CountOK`), a semaphore to be signalled at
  most once (`SemOK`), and the claim itself already for a thread in its second scan, for the
  sockets it has passed (`WakeOK`).

Only model-checked: everything under fairness (liveness is out of the prover's
reach), `NoLeak` and `LeastDestructive` of the ARP cache, the timeouts, DHCP, TCP,
`etherraw`, the sketches, PPP, the stack and its agent, the socket calls and the packet
buffers. Several of these walk chains and trees with recursive operators, about which the
prover cannot argue by induction.

## 6. Where code and comments disagree

Shown by a run (see the findings in `PROJECT.json`): a receiver that met a full ring
stays stopped (`enet_stall`); a late check leaves overdue timeouts uncalled
(`lwip_timers_drift`); a change of link can bind an address nobody granted
(`dhcp_link_up`); the acknowledgement of what was sent frees a closed TCP connection
whose last data and FIN were not (`tcp_close`).

Seen while modelling, without a run of their own:
- `sys_timeout` counts from `timeouts_last_time` and not from now, so a timeout set
  between two checks is early by the difference (`timers.c:289`).
- `tcp_timer_needed` sets its flag before `sys_timeout`, which may fail to allocate;
  the TCP timer is then never started again (`timers.c:104`).
- An offer without a server identifier stops `request_timeout` and nothing starts
  it again (`dhcp.c:1604`); constant `SERVER_ID`.
- A request that cannot be allocated keeps the old transaction number, and an
  acknowledgement of the earlier request is then taken for its answer
  (`dhcp.c:1652`).
- `dhcp_release` clears the server's address before it sends to it (`dhcp.c:1204`).
- The 256th renewal wraps `tries` to 0 and leaves no timeout (`dhcp.c:1064`).
- `t2_timeout--` also counts a timer that is 0, "not active" (`dhcp.c:342`).
- The acknowledgement of a renewal does not update the lease time (`dhcp.c:1591`).
- `dhcp_start` on a running client leaves the interface's address in use
  (`dhcp.c:687`).
- FIN_WAIT_1 makes the same comparison with `snd_nxt` and may enter FIN_WAIT_2, whose
  timeout frees the PCB, before the FIN is acknowledged (`tcp_in.c:750`).
- A fast retransmit counts in `nrtx` too, and `tcp_slowtmr` compares `nrtx` with
  `TCP_MAXRTX` for equality: the limit can be stepped over (`tcp.c:781`), and
  `tcp_backoff[nrtx]` is then read beyond its 13 entries.
- `tcp_close` in TIME_WAIT with unread data, possible after `tcp_shutdown`, registers
  the PCB on `tcp_tw_pcbs` a second time (`tcp.c:160`), against "A PCB is only in one of
  the lists" of `tcp_impl.h`.
- A FIN put into the last unsent segment takes no byte of `snd_buf`, but its
  acknowledgement gives one back: `snd_buf` reaches `TCP_SND_BUF` + 1 (`tcp_out.c:132`).
- A FIN that comes with data the application refuses is reported before that data
  (`tcp_in.c:382`).
- `pcb->acked` keeps its value when `tcp_process` returns early, and `sent` is then
  called again for the same bytes (`tcp_in.c:341`).
- An application that shut down its sending side in CLOSE_WAIT is not told when the
  last acknowledgement frees its PCB (`tcp_in.c:331`).
- `rtc_ms` reads the seconds again only within 100 us of the rollover: an interrupt
  that takes longer between the two reads gives a time a second early (`RTCms.ino:20`);
  with `Stall` 4 instead of 3 in `MCSketches` TLC finds it. "double reads insure consistent" (`:3`).
- `it1cb` combines a counter that went around with an `msw` whose handler still waits:
  the sample is a turn short and the next one a turn long (`lptmrcnt.ino:39`).
- `uartdma.ino` loses halves when printing is slower than the line (`:65`).
- `ftmcapture.ino` skips an edge that comes while the last is printed, and the next
  measurement spans two periods (`:121`).
- After `dhcp_start` failed to allocate, the wait loop of the driver glue reads
  `netif.dhcp->state` through a null pointer (`lwipk66.c:227`).
- The clients of `etherraw.ino` wait without a timeout (`:594`), and `udp_ntp` takes a
  duplicate for the next answer (`:665`).

Found by TLC with a property that a comment or an assertion states and that is defined
beside the others, put into the configuration in place of its properties:
- `WalkComplete` (`MCIpStack.cfg`): `snmp_insert_iprteidx_tree` says "enable getnext traversal on
  filled table" (`mib2.c:1504`) but enables the table also when nothing was inserted, and
  GETNEXT then ends the walk at the empty table.
- `StillAvailable` (`MCIpStack.cfg`): "check if object is still available" (`msg_in.c:732`);
  when it is not, the loop goes on with the next binding without counting this one, and does
  not end.
- `EmptyListCounted` (`MCIpStack.cfg`): a tooBig response for want of varbinds is to have its
  lengths recalculated "for empty varbind-list" (`msg_out.c:133`); the list counted is still
  that of the request.
- `NonLcpTossed` (`MCPpp.cfg`): "Toss all non-LCP packets unless LCP is OPEN" (`ppp.c:1620`) compares
  phases, and PHASE_TERMINATE is above PHASE_AUTHENTICATE: packets are taken while LCP closes.
- `CloseLeavesDead` (`MCPpp.cfg` with `RedialSpec`): `pppClose` "will leave us at PHASE_DEAD" (`ppp.c:669`);
  closing a link that is being dialled again while nobody answers does not.
- `RecvForItsPcb` (`MCSockets.cfg` with `Shuts = {"WR"}`): `recv_tcp` asserts "recv for wrong pcb!"
  (`api_msg.c:225`), but a shutdown of the sending side sets `conn->pcb.tcp` to NULL and leaves
  the callback (`api_msg.c:784`).
- `FindsOccurrence` (`Pbuf`, with a packet `<<1, 1, 2>>` and the search for `<<1, 2>>`): `pbuf_memfind` returns
  "the index where it was found" (`pbuf.c:1116`), but goes on behind the byte that differed
  and misses occurrences that overlap the failed attempt.

Seen while modelling PPP, the stack, the agent and the API, without a property:
- The CHAP client in LISTEN has no timer: it relies on the server to start or to hang up.
- `netif_add` renumbers the interfaces, and rows of the ARP tables keep the old index;
  `netif_remove` leaves the ARP rows and the row of the network route, and does not
  free the loopback queue. Two interfaces on one network share one route row.
- A PCB bound a second time keeps the row of its first binding in udpTable; `udp_bind` that fails
  with ERR_USE has already changed `local_ip`.
- `ip_forward` counts a missing route twice; a TTL of 0 wraps to 255 before it is tested. An echo request to
  another interface's directed broadcast address is answered.
- `icmp_send_response` counts every response as a time exceeded message, although the comment
  says "increase number of destination unreachable messages attempted to send" (`icmp.c:328`).
- `snmp_send_trap` uses the result of `ip_route` without a test for NULL.
- A GET that fails after names have moved to the response echoes those names empty; a SET may be
  applied and answered tooBig when only the pbuf of the response is missing.
- `snmp_asn1_enc_oid_cnt` counts one octet for a sub-identifier of 2^31 and more, and the encoder
  writes five.
- `lwip_recvfrom` with MSG_PEEK opens the window for data it leaves (`sockets.c:727`), against "this
  must be accurate!" (`api_lib.c:505`).
- A FIN that finds `recvmbox` full is lost: "it is presented to us later again from
  tcp_fasttmr" (`api_msg.c:252`) is true of data only.
- `accept_function` with a full `acceptmbox` frees a netconn to which the callbacks of the PCB
  still point (`api_msg.c:457`); so does a listener closed while a connection is being opened.
- "only receive events can happen before the new socket is set up" (`sockets.c:1251`), but
  `err_tcp` raises others; "tcp netconns don't come here!" (`api_msg.c:866`), but after a reset they do.
- A write before the connection is made leaves ERR_CONN as a fatal error of the netconn for good.
- `lwip_select` may return 0 before its timeout when another reader took the data; the rest of
  a partly read segment raises no event.

## 7. Not modelled

Register set-up, pin and clock configuration; message layouts other than SNMP's, checksums and
printing. Of lwIP: IGMP, DNS, AutoIP, raw PCBs, SLIP, IP fragments and its own allocators;
UDP-Lite; PPP framing (HDLC), VJ compression and PPPoE; the octets of SNMP traps and the
rows of tcpConnTable; socket options and the name lookup of the API; of TCP what its
component names. Of the sketches: the SDHC and W5100 drivers and the wiznet programs,
whose other half (card, chip, library) is not in the repository, and the benchmarks, which have
no state beyond a flag. `lwiptst.ino` calls the stack in busy loops and prints times.
`PROJECT.json` gives the reason for each component.
