# A verification project for the 6LBR border router

6LBR connects a 6LoWPAN/RPL wireless network to an IPv6 network. On a host
(`examples/6lbr/platform/native`) it is one Contiki process: protothreads and
timers run to completion one after the other, `select` waits for descriptors,
and the radios are separate boards at the far end of serial lines, which speak
SLIP. This directory holds TLA+ modules of the parts whose logic is more than
one call deep, TLC configurations for small instances, and TLAPS proofs.
`PROJECT.json` lists components, runs, mutants, the source lines behind every
definition, findings, hazards and theorems.

## 1. Inventory

| part | state | operations | what makes it hard | what makes it correct |
|---|---|---|---|---|
| csma (`core/net/mac/csma.c`) | neighbor queues in a pool, a timer and two 8-bit counters for each, packet pool | `send_packet`, `transmit_packet_list`, `packet_sent` | callbacks before or long after `send` returns, pools that run out, entries freed and reused, retries under two counters | each packet reported exactly once; one trigger per queue; callback goes to the head |
| native-rdc (`native-rdc.c`) | 16 sessions with a timer each, `callback_pos`, `callback_count` | `setup_callback`, `packet_sent`, `packet_timeout` | late, repeated and missing reports; ids reused | a session ends; the count is right; a report is for the frame it is about |
| multi-radio (`multi-radio.c`, `network-itf.c`, `switch-lookup.c`) | two global interface numbers, interface per neighbor | `send_packet`, `packet_sent`, `packet_input` | the interface of a callback travels in a global that many places set and reset | the variable is right whenever csma reads it |
| serial output (`slip-dev.c`) | 2048-byte buffer, begin, end, packet end, packet count, delay timer | `slip_send`, `write_to_slip`, `slip_flushbuf` | partial writes, packets behind packets, overlapping `memcpy`, overflow | nothing lost or repeated; one packet per delay |
| serial input (`slip-dev.c`) | one static `inbuf` for all devices, a `FILE` for each | `serial_input` | reads end anywhere; two layers of buffer, `select` sees one; CRC errors | every sound message passed on once, for its own device |
| radio initialisation (`native_rdc_process`, `slip-cmds.c`) | retries, `radio_mac_addr_ready` | poll, answer, reset | one flag and one process for several devices | the router starts with every radio configured |
| slip-radio firmware (`examples/ipv6/slip-radio`) | ring of 16 session ids | commands, `packet_sent` | the ring wraps under frames still queued | a report carries the id of its frame |
| neighbor table (`nbr-table.c`) | keys in a list, used and locked bitmaps per table | add, remove, lock, evict | eviction calls the owners back; one key shared by tables | an address has one key; a locked key is never evicted |
| neighbor cache, NUD (`uip-ds6-nbr.c`, `uip-nd6.c`, `tcpip.c`) | neighbor states, timers, counts of solicitations | periodic, output, NS/NA input, refresh | timers against answers; entries that move between keys; unresolved neighbors under one null address | one entry per address; given up only when unanswered; PROBE ends |
| packets awaiting resolution (`uip-packetqueue.c`) | 2 blocks with timers, a handle in each neighbor entry | alloc, free, time out | the timer keeps the handle, handles are cleared and copied with their entry | a queued packet can still be sent, or is freed |
| addresses, DAD (`uip-ds6.c`) | addresses, prefixes, timers | DAD, periodic | a conflict while the DODAG starts | no use of a tentative address |
| routes (`uip-ds6-route.c`, `rpl.c`, `rio.c`) | route list, list of routes per next hop, a counter, lifetimes | add, static, remove, purge, lookup | two structures refer to each other; neighbors are evicted under routes; lookups find covering routes | they agree; one route per destination; a DAO costs no other node its way |
| RPL DAOs (`rpl-icmp6.c`) | routes or graph, by the mode of operation | DAO, No-Path DAO, DAO-ACK | lost, repeated, late messages; No-Path races | what is acknowledged is routed; the silent are forgotten |
| RPL graph (`rpl-ns.c`) | nodes in a pool, parent pointers, lifetimes | update, expire, reachability, periodic | parents in any order, loops, blocks reused under pointers | one node per identifier; a DAO cuts nobody off; no pointer to a freed block |
| RPL version (`rpl-dag.c`, `nvm-config.c`) | version in use, in `nvm_data` and in the file, those of the nodes | load, set root, repair, process DIO, store, reset | restarts between two writes, stores that fail unnoticed, a reset under a running root, lost DIOs, arithmetic that wraps | never behind the nodes; all come to one version |
| RPL otherwise | ranks, parents, trickle, DAO and probing timers | DIO, DIS, local repair | stale ranks, loops | on the nodes; the router is the root and has no parent |
| start-up (`cetic-6lbr.c`) | prefix, DAD, root | process, start, end of the root | DAD under way | one root in the end |
| forwarding engine (`packet-forwarding-engine.c`) | none but the tables above | four directions | filters, bridge loops | no packet is sent back where it came from |
| node-info, NVM, anti-replay, RIO, IP64 map, web server | tables, files, pages | | counters that wrap, restart in a migration | see the plan |

How they interact on the transmit path, with the neighbor cache above it:

    tcpip_ipv6_output -> neighbor cache (resolve, queue, or send)
      -> wireless_output -> sicslowpan -> llsec (sequence number) -> multi-radio.send
      -> csma.send_packet -> [timer] transmit_packet_list -> native-rdc.send_packet
      -> write_to_slip -> [select] slip_flushbuf -> line -> radio
    radio -> line -> [select] serial_input -> "!R sid status tx" -> native-rdc.packet_sent
      -> csma.packet_sent -> multi-radio.packet_sent -> upper layer
    [timer] native-rdc.packet_timeout -> the same callbacks, status NOACK

and for the way down to the nodes, which the packets above take:

    DAO -> rpl_icmp6_update_nbr_table (a neighbor, maybe in another's place)
      storing:     -> rpl_add_route -> uip_ds6_route_lookup / _add -> nbr_routes
      non-storing: -> rpl_ns_update_node -> reachability -> parent
    [ctimer, 1 s] handle_periodic_timer -> rpl_purge_routes | rpl_ns_periodic
    packet, forwarding error, router advertisement, web server -> the same tables
    start, repair, DIO -> version -> nvm_data -> the file -> the next start

All of it runs in one thread, so an action of a module is one handler from the
moment a timer, `select` or a caller starts it until it returns; interleaving is
between handlers. The state shared behind the calls is
`multi_radio_input_ifindex`, the packet buffer (its contents are parameters of
the actions) and the pools.

## 2. Modules

| module | models | proofs |
|---|---|---|
| `SentOnce` | the promise of a MAC driver: a packet submitted is reported on exactly once | |
| `NativeRdc` | the session table | `NativeRdc_proofs` |
| `Csma` | the neighbor queues over an ideal driver; refines `SentOnce` | `Csma_proofs` |
| `RadioTx` | `Csma` and `NativeRdc` against each other, multi-radio, radios and lines; refines `Csma` and, under fairness, `SentOnce` | `RadioTx_proofs` |
| `SlipOut` | the output buffer of a device | `SlipOut_proofs` |
| `SlipIn` | the reader of all devices | `SlipIn_proofs` |
| `NbrCache` | the IPv6 neighbor cache, its key table and the packets awaiting resolution | `NbrCache_proofs` |
| `Routes` | the routes of storing mode and their next hops, as functions of the tables | `Downward_proofs` |
| `RplNs` | the graph of non-storing mode | `Downward_proofs` |
| `Downward` | `Routes` and `RplNs` under one mode of operation, with DAOs, the periodic timer, packets, neighbors, routers and the web server | `Downward_proofs` |
| `Dodag` | the version of the DODAG, in the file, at the root and at the nodes | `Dodag_proofs` |

### NativeRdc

`callbacks[sid]` is a session or `Free` (`isused = 0`); `timeout` is the set of
ids whose ctimer is set. `SendPacket` is `setup_callback` with its circular
search written as the nearest free id after `callback_pos` (`Distance`,
`NextSid`); `PacketSent`, `PacketRetransmit` and `PacketTimeout` are the handlers
of the report and of the timer. What a session keeps for its caller is the
constant `Request`.

### Csma

`addr[n] = NoAddr` is an entry of `neighbor_memb` not allocated. A packet in a
queue keeps its sequence number, interface and `max_transmissions`; pools are
counts (`Queued`). `SendPacket` and `SendPacketRefused` are the two ways out of
`send_packet`, the second with everything it gives back. `PacketSent` takes the
set of timers on entry, since `TransmitFailed` runs it inside the handler of a
timer that has just fired, and the value of `multi_radio_input_ifindex`, since
the search of `packet_sent` compares it. It keeps the two 8-bit counters as the
code does (`% 256`). No action touches `rdc`, the set of frames the driver owes
a callback for: `Csma!Next` closes the module with an ideal driver, and
`RadioTx` closes it with the real one.

Left out: backoff delays (a timer that is set may fire at any time), statistics,
the number of transmissions passed up, `MAC_TX_DEFERRED` (a `break`, and never
reported to csma here), the `list_push` of ACK packets (`PACKETBUF_WITH_PACKET_TYPE`
is not set in this build). `num_tx` is at least 1. The counters of a freed entry
are set to 0, as the code sets them before it reads them again.

### RadioTx

The composition. `Mac == INSTANCE Csma WITH rdc <- Pending \cup lost` and
`Rdc == INSTANCE NativeRdc WITH Request <- Frame`: the actions of both are used
as they are, joined where the code calls from one to the other. `Callback` is the
chain native-rdc, csma, multi-radio, with the interface that csma compares, and
the value that is left in `multi_radio_input_ifindex`. Three things can go wrong
with it and are modelled: a callback made under csma's timer (`FramerFailed`,
`QueueFull`) when the variable is -1; `Timeout`, which sets the variable and does
not reset it when csma finds nothing; and `IllegalAttributes`, a received frame
whose attributes are illegal, which returns early. A frame whose callback csma
did not find goes to `lost`, a history variable: csma still counts on it.

`radio` is a bag of frames that lie in a line, a radio or the air. `Answer`
takes one out with a report, `Lose` without. `LateAnswers` says whether a radio
may answer after the slip timeout of a session; when not, `InTime` makes the
frames of a session be lost before its timer fires. An address is assumed to be
in the neighbor cache when `switch_lookup_learn_addr` looks for it; `upper_sent`
is the same function always, as the code says; a device exists for every
interface. slip_ip mode (no callback at all) and nullmac are not modelled.

### SlipOut

`slip_buf` is the buffer's first `slip_end` bytes; a byte is END or its number
in the stream, so that no two are confused, and `sent` and `written` are
histories. `WriteToSlip` is a whole packet, since nothing runs in between;
escapes and the CRC only make it longer. `FlushPart` and `FlushPacket` are the
two outcomes of `slip_flushbuf`, and `write` may take any number of bytes.
`memcpy` on overlapping areas is undefined: `FlushPacket` may copy as `memmove`
would, or from the back, which sets `overlapped`. `Overflow` and `WriteFails`
exit the process.

### SlipIn

`line[d]` is what the kernel holds for a descriptor and `stdio[d]` what the
`FILE` holds: `fread` takes from the second and refills it with all of the first
when it is empty. `SerialInput` is `select` calling the reader, each `Turn` one
turn of its loop, during which more bytes may arrive. A byte carries the device,
message and position it belongs to, which is how `InOrder` can be
said. The CRC is taken to detect every packet that is not a message as sent
(`Sound`). A message is framed by two ENDs, as `slip_write` of the radio frames
it (`Written` is all that is written to a line). `EscapeLeft` says when a loss still
costs a message that arrived whole: an ESC of any earlier message arrives and all
that was written between it and the END in front of the message is lost, so that the ESC
takes that END for the byte it escapes. An end of file on the first byte (exit) is
not modelled.

### NbrCache

The state is one record `cache`, because a handler calls several operations one
after the other: each operation (`NbrAdd`, `NbrRm`, `UpdateLladdr`, `PacketFree`,
`Output`, ...) is a function of it, and an action applies a whole handler.
`keys` is `nbr_table_keys`, slots in the order of insertion; `lladdr[s]` the address of a
key; `used` the used bit of `ds6_neighbors`; `nbr[s]` the entry with its packet
handle; `buf[b]` a block of `packets_memb`, with the handle its timer points to
(`armed` while it is set). Blocks keep what they held after they are freed
(`to`), since a copied handle may still lead to them. `asked` is a history: the
solicitations sent since the neighbor was heard.

`IpOutput` is `tcpip_ipv6_output` from the lookup of the next hop on, `NsInput`
and `NaInput` the two handlers with the refresh that `uip_process` makes before
them and the packet they put out after, `RplInput` a DIO, DIS or DAO up to the
neighbor table, `LinkFrame` the key that link statistics take for any frame,
`Periodic` one pass of `uip_ds6_neighbor_periodic`, `PacketTimedout` a timer of
the packet queue, `RemoveNeighbor` the web server.

Left open (a choice in the action): which neighbor the RPL policy evicts, whether
a message is answered, whether a neighbor is a default router, when timers
expire. Left out: routes and so next hops other than the destination, RS and RA
input, locked bits (set with routes and parents), the flag that disables
NUD in the wireless network, duplicate address detection, purge advertisements
of several border routers. An advertisement is sent from the address it
advertises, as `ns_input` of the same code base sends it.

### Routes

`tab` is one record, as in `NbrCache`: `route[b]` a block of `routememb`,
`attached[l]` the list of routes in the item of neighbor `l` in `nbr_routes`,
`used` the neighbors that have such an item, `num` is `num_routes`, and `nbr[l]`
the address of the neighbor under key `l`. A destination is an address and a
length; `Covers` and `Length` say which addresses a prefix matches. `hop` is the
key a route is attached to or, for a static route, the address of its next hop:
`Nexthop` goes through `nbr`, so a route may lose its next hop.

The order of the route list is left out. It decides which route is removed first
when the table is full and `UIP_DS6_ROUTE_REMOVE_LEAST_RECENTLY_USED` is
set, and no file of the repository sets it: a full table makes
`uip_ds6_route_add` return NULL, after it has removed the route that matched.
`RouteRm` removes several routes at once for handlers that walk a table. What
may happen to the neighbor table under a message is the parameter `Sender`: a free
key, none, or the place of a neighbor the policy gives up, which is never a next hop
(`find_removable_dao`).

Not covered: two prefixes with the same address and different lengths, default
routers, callbacks to node-info, a router that is not root (which sends No-Path
DAOs on and purges one route a second).

### RplNs

`node[b]` is a block of `nodememb`, `list` the list of those in use, `parent` a
block: a block that is freed keeps its content and may be allocated again,
as in the code. `Ancestor` is the loop of `rpl_ns_is_node_reachable`, bounded by
the number of blocks as the code bounds it. `UpdateNode` adds an unknown parent
first, with an infinite lifetime. `NsPeriodic` ages all and removes the first
whose lifetime has run out: `list_remove` clears the link that the loop
follows, so the loop ends there. A node does not name itself as its parent, and
always names one.

### Downward

The composition: `mop` decides, as in `dao_input` and `handle_periodic_timer`,
whether a DAO goes to the routes or to the graph. Every DAO and No-Path DAO a node may
have sent may come at any time, which covers loss, repetition and delay; a node
in `gone` sends no more DAOs, and what is late is a No-Path DAO, in storing mode.
(In non-storing mode each No-Path DAO sets the lifetime again,
`rpl-ns.c:116`; that node is not heard of again.) The other actions are every
place that changes a route or the neighbor of one: a packet that finds its next
hop gone, a forwarding error, a purge advertisement, the web server,
`rpl_remove_routes`, static routes, route information options, a neighbor that
is heard, removed or moved. In non-storing mode the routes, then static or
learnt from routers, are left out.

### Dodag

`nvm` is `rpl_version_id` in memory, `file` that of the file, `root` the version of
the root's DAG, `node[n]` that of a node; a router that is down has neither `nvm` nor
`root`. `Boot` is `load_nvm_config`, `Start` is `rpl_set_root`, which uses what was
loaded and stores the next; `RepairRoot`, `RootDioInput` and `NodeDioInput` are
`rpl_repair_root` and the two branches of `rpl_process_dio`; `Increment` and
`Greater` are `RPL_LOLLIPOP_INCREMENT` and `lollipop_greater_than` with their sizes as
constants. `StoreConfig` and `ResetConfig` are what the web server (and the proxy) do
to the configuration of a router that is up. Every store goes through `Write`
(`nvm_data_write`), which may fail: the file then stays as it was, or is cut short,
nobody is told, and memory and file differ until the next store. A file without a valid
header, or one that cannot be read, makes `check_nvm` set and store the defaults.
A DIO of anybody reaches anybody or nobody. `Crash` may come between
any two handlers (the restart that a reset asks for is one of them); `CrashInWrite`
between the truncation of the file and its writing. A node runs the same code
(`rpl_process_dio`) on its own board. `intact` and `calm` are histories. `intact` ends with a
store that fails or is cut off, a file that cannot be read, a reset, and when a repair
or a restart leaves a node behind by a window or more (`Near`); the model goes on after
it. `calm`: failures, restarts and repairs are over. Left out: ranks, parents, DTSN
and MOP, which do not change the version; other DODAGs and the delayed start (the
defaults are `rpl_fast_startup` and `rpl_ignore_other_dodags`, which nothing
changes).

## 3. Runs

| run | bounds | shows |
|---|---|---|
| `native_rdc` | 3 sessions, 2 devices with 1 and 0 retransmissions | counts, marks and timers agree; ids are not reused too early; sessions end |
| `csma` | 3 packets, 3 addresses, 2 queues of 2, pool of 2, sequence numbers modulo 2, MaxBackoff 1, 2 transmissions | the queue invariants and `SentOnce` with liveness |
| `radio_tx` | 3 packets, 2 addresses (one broadcast), 2 devices, 2 queues, 1 session, 3 sequence numbers, late answers, framer failures | steps of the composition are steps of `Csma` |
| `radio_tx_live` | 2 packets, 2 devices, 2 sessions, one retransmission on one device, no late answers, no framer failure | `SentOnce` with liveness; no packet is reported as sent that was not; of two sessions, each holds the pointer of a queue in use, and of another one |
| `radio_tx_fatal` | as above, one device, framer failures | violation: finding 1 |
| `slip_out` | 8-byte buffer, packets of 1 and 3 bytes, 14 bytes in all | order, bookkeeping, delay, all is written |
| `slip_in` | 1 device, 4 messages (escapes, a damaged one, one too large, a debug line), a 3-byte buffer, 2 bytes lost | resynchronisation, order, no overrun, progress |
| `nbr_cache` | 2 neighbors, 2 link-layer addresses and the null one, 2 keys, 1 block, 2 solicitations | one entry and one key per address, through eviction, changes of address and failed allocation; removal only after all solicitations; PROBE ends |
| `nbr_cache_queue` | the same, 2 blocks and 3 solicitations as configured | violation: finding 2 |
| `downward` | 2 hosts and a prefix that covers one, 2 neighbors, 2 link-layer addresses, 2 routes, lifetimes up to 2 s or infinite; graph of 4 nodes in 3 blocks, lifetimes up to 1 s; one host may leave | the tables agree, one entry per destination, DAOs cost nobody else a way, what is acknowledged is routed or refreshed, the silent are forgotten |
| `rpl_ns_parents` | 3 nodes, 3 blocks | violation: finding 3 |
| `dodag` | 2 nodes, a lollipop of 8 + 3 values with a window of 3 | the stored version is ahead of the mesh over restarts, repairs and lost DIOs, as long as stores succeed; when all is calm every node comes to the root's version, also after failed stores and resets, from where they are less than a window apart |

Why the bounds are enough: in each run every limit of the code is reached (all
sessions in use, the neighbor pool, the packet pool and a queue full, both retry
counters at their limits, sequence numbers come round, the output buffer full
and its areas overlapping, the input buffer full by one message, the key table full with
an address more than it has keys, the route table and the graph full, a whole
turn of the lollipop), and there are
two of everything whose interplay matters (queues, devices, packets in one
queue). One session for two queues makes `QueueFull` happen in `radio_tx`;
`SessionsWithinQueues` is checked in `radio_tx_live`, which has two of both, and
where, as in the program (16 and 16), the table is never full. `SeqnoMod` is 3 for 3 packets in
`radio_tx`: with a smaller modulus and late answers a callback may match
another packet of the queue with the same sequence number and interface, and
`ImplementsCsma` fails (with modulus 1 TLC shows it: a late answer on the wrong
interface is matched with the packet behind the head). In the program that takes
256 packets and is listed as a hazard; `HeadNumberUnique` is the condition under which
it is proved. `radio_tx` is checked with `RxAttributes = FALSE` to stay small;
`radio_tx_live` has it TRUE. Symmetry (packets, queue entries) is used in
`radio_tx` only, which checks no liveness.

Bounds of `downward`: DAOs and routers announce `Announced`, the
longest finite lifetime or the infinite one (shorter ones are reached as they
run down); static routes and routers are for prefixes, as they are used; only the
hosts of `Mortal` leave, and one of them at most. `MaxLifetime` equals `NoPathDelay`, so that a
No-Path DAO lengthens lifetimes as well as it shortens them. `dodag` has no
bound but its sizes: that no node is left behind by as many versions as can be
compared (`Near`, with `Recent`, which counts the increments between two) is a premise
of `StoredIsAhead`, kept in `intact`, and not a guard. A node that misses a window of
versions (16 in the program) stays on its own, which is what the comparison is made for.
While `intact` holds, the root never hears a newer version than its own, so
`RootDioInput` fires only after it has ended. `Settles` is therefore about more than
the intact: its premise `Together` is about the versions as they are, whatever
happened before, either every node less than a window behind the root, or the root and
all nodes less than a window behind what the root answers the foremost node. The second
is what a stale file leaves behind after a few changes that were not stored. It takes
the window of the answer and not of the foremost node: with the latter TLC finds a
node that joins by the root's old version, and is a whole window behind when the root
has answered. Further apart, as often after a reset or a lost file, versions of root and nodes may each be
greater than the other, so that they chase each other for ever, or not be comparable:
the model has these behaviours, and no property promises anything of them. Three nodes
on a lollipop of 6 + 3 values, and two on one of 16 + 3, pass as well, in about three minutes each.

`CHECK_DEADLOCK FALSE` stands where packets run out: each is sent once.

Every property has a mutant, a plausible bug in one operator (written next to it
and marked faulty) with which TLC finds the property violated under the same
configuration.

## 4. Fairness

Timers that are set fire (`WF` on the handlers of csma's and native-rdc's
timers): the main loop polls timers on every turn and no handler blocks. The
ideal driver of `Csma` calls back in the end for each queue's frame, which is
what `SentOnce` is owed by whoever implements it. In `RadioTx` frames that will
not be answered are lost in the end, which only says that no radio answers
infinitely late; nothing is assumed of `Answer`. In `SlipOut` the descriptor
becomes writable in the end. In `SlipIn` bytes that are not lost arrive, and
`select` calls the reader when, and only when, the descriptor has bytes.
In `NbrCache` a neighbor in PROBE is due in the end in a pass in which no other
is: the pass runs every 100 ms (`UIP_DS6_PERIOD`) and solicits one neighbor, a
neighbor is due a second after its last solicitation, and one ahead of it in the
list leaves PROBE after at most three and comes back only after
`REACHABLE_TIME` and 5 s in DELAY. The timer is copied when the entry
moves, which is why fairness is by address and not by slot: by slot, two entries
that change places for ever would be a counterexample.

In `Downward` the periodic timer fires for ever: its ctimer is reset at the end
of each turn (`rpl-timers.c:105`). Nothing is assumed of DAOs or packets. In `Dodag` the
router is started again after a stop (a service of its host), and the DIO timers
run for ever, so a DIO that the root goes on sending is heard in the end by every
node, directly or through others. A DIO of a node with a newer version than the root's
is heard in the end by the root: a node that hears an older version resets its DIO timer
(`rpl-dag.c:1514-1521`), and those between them take over the newer version and pass it on.

## 5. Findings

1. `radio_tx_fatal`. When the framer cannot build a frame (PAN id 0xffff) the
   driver calls csma back with `MAC_TX_ERR_FATAL` from within csma's timer, when
   no interface is set; csma looks for a packet of interface -1, finds none and
   returns. The packet is not reported, not freed and not scheduled again: its
   queue is stuck. `mac.h:95-97` says a fatal error is one the upper layer is
   told of.
2. `nbr_cache_queue`. Neighbors that are not resolved share the key of
   `linkaddr_null`. A packet for a second one clears the entry of the first, and
   its queued packet is held by no handle: it is not sent, and its timer frees
   whatever the handle holds by then, so its block may never be freed. With two
   blocks, queueing may end for good. `tcpip.c:750` says the packet is queued
   "for later transmit".
3. `rpl_ns_parents`. The second pass of `rpl_ns_periodic` is to deallocate
   expired nodes "iff no child points to them" (`rpl-ns.c:213`), but the search
   for a child breaks out of its own loop only, and the node is freed whatever it
   found. The child's parent is then a freed block, or another node once the
   block is used again.

Other places where code and comments differ or the code surprises, met while
modelling; the models contain them and the properties are stated around them,
but no run of their own shows them:

- After a wrong CRC `serial_input` returns instead of reading on (`slip-dev.c:395`):
  packets already in the `FILE` wait for the next byte. The comment says the
  packet is ignored (`slip-dev.c:391`). `HandledUnlessCrcError` is what holds.
- `inbuf` is static in `serial_input` (`slip-dev.c:346`): two devices share it.
- `rpl_add_route` takes a route without next hop as it is (`rpl.c:239-241`): the DAO is
  acknowledged and the route refreshed, though it leads nowhere.
- `uip_ds6_route_add` works on the longest match: a DAO for a host removes the
  static route of a prefix that covers it, or, with the same next hop, gives
  that route its own lifetime (`uip-ds6-route.c:337-353`).
- In non-storing mode `rpl_purge_routes` is never called: routes learnt from routers
  with a finite lifetime stay. A route information option changes whatever
  covering route the lookup finds (`rio.c:106-127`).
- After a repair the stored version is the one in use, so the next start
  announces it once more (`rpl-dag.c:477`); only the DTSN then makes nodes
  register again.
- `lollipop_greater_than` holds both ways for some pairs, such as 240 and 20.
- The configuration file is truncated before it is written, and a failed open or write
  is only logged (`native-nvm.c:76-85`): the router goes on with a version that the file does
  not have, and after a restart may be behind its nodes.
- A parent added because a DAO names it has an infinite lifetime
  (`rpl-ns.c:128-130`) and goes only if it sends DAOs itself; and one expired node
  at most is removed a second.
- With `rpl_dio_intdoubl` 0, `rpl_reset_dio_timer` never sets the DIO timer, since the
  interval never differs from its minimum (`rpl-timers.c:220`; `rpl-dag.c:424`
  says they must differ).

## 6. Proofs

TLAPS proves, for every value of the constants that satisfies the assumptions:

- `NativeRdc_proofs`: `TypeOK`, `CountIsUsed`, `TimerIsUsed`, `NoImmediateReuse`.
  The invariant is `TypeOK`, `TimerIsUsed`, `CountIsUsed` together: that
  `retransmit` stays natural needs the guard, that the count goes down by the
  size of what is freed needs `Used` finite and the session in it, and that
  `NextSid` exists at all needs the count to be right (`SearchEnds`). The nearest
  free id exists because distances are natural numbers (`WFMin`).
- `Csma_proofs`: `TypeOK`, `OneQueuePerAddr`, `OneTrigger`, `InFlightIsHead`,
  `QueuedOrReported`, for any sequence numbers, and that every step is a step of `SentOnce` or stutters
  (`SpecImplementsPromise`). The invariant is their conjunction, which is
  inductive as it stands: only because the frame under way is the head of its
  queue does a callback remove the packet that was sent (`HeadIsFound`), and only
  because there is one trigger per queue does it still find it there.
- `RadioTx_proofs`, on the theorems of the two above, whose modules it instantiates: that
  `Csma` keeps its invariant over the real driver and `NativeRdc` its own under
  `Csma` (`SpecQueuesKept`, `SpecSessionTableKept`); the safety part of
  `KeepsPromise` (`SpecKeepsPromise`), with late answers and framer failures; and
  `ImplementsCsma` for the behaviours in which no packet of a queue has the number of its
  head (`HeadNumberUnique`). Steps of the composition that call csma are steps of its
  handlers for any interface (`CsmaStep`); the condition is needed only to say that a
  callback names the interface of the head, since `packet_sent` finds the packet by
  number and interface. The rest relates the layers: a session holds a frame that is
  pending, the head of a queue, on the device of its interface (`Sessions`).
  So a session holds the pointer of a queue that is not empty, and two sessions those of
  two queues (`SessionsWithinQueues`); counting sessions into queues gives
  `SpecNoQueueFull`: with as many sessions as queues (16, `native-rdc.c:65`, and 16,
  `6lbr-conf-native.h:69`) the table is never full. `NoFalseOk` is proved
  under `~ LateAnswers`, as it is meant: each frame that lines and radios hold is then
  that of a session in use, once (`JobsOfSessions`), which the reuse of an id after a late
  answer would break.
- `SlipIn_proofs`: `TypeOK` and `NoOverrun` for any devices; `InOrder` and
  `Resynchronises` for any one device (`Device = {d}`), any messages, buffer and number of
  bytes lost. With several devices `inbuf` is shared and neither holds. What the reader
  has not passed on yet is one stream (`Stream`: the `FILE`, the line, what is to be
  written), a part of what was written in its order, and behind what is in the buffer:
  that is `InOrder`. For `Resynchronises` every message that arrives whole is in one of four
  phases (`MessageInv`): the END in front of it is unread; its first bytes are in the
  buffer, and nothing else is; it has been passed on; or the reader took the END
  in front of it while an ESC stood open, and then all between that ESC and the END was lost.
- `SlipOut_proofs`: `TypeOK`, `InOrder`, `EndIsFirst`, `CountIsPackets` and
  `OnePacketPerDelay`, for any buffer size, packet lengths and cut of the writes.
  Two facts make them inductive: `slip_begin` is less than `slip_packet_end`
  while there is a packet (`Bounds`), and the buffer ends with END and has no two
  ENDs in a row (`WholePackets`), because packets are written whole and none is
  empty. The second is why the search for the next END may leave out the first
  byte of what was moved. `Bounds` and `TypeOK` hold also when `memcpy` went
  wrong; the others are claimed only while it has not.
- `NbrCache_proofs`: `TypeOK`, `OneKeyPerLladdr`, `OneEntryPerAddress` and
  `GivenUpUnanswered`, for any number of addresses and tables and queues of any
  size. The invariant is `Good(cache)`. Four facts strengthen it: the slots that
  have a key are the first ones (`Keyed`), so that the block taken next is not in use;
  the timer of a packet that is set leads to a handle (`Armed`); the
  solicitations counted are no more than those sent since the neighbor was heard
  (`Counted`); and an entry that is INCOMPLETE is under the null link-layer address
  (`Unresolved`). The last is why the link-layer address always changes when a
  resolution ends, so that the entry moves to a key of its own, and it needs that
  a solicited advertisement is unicast: the sender has been heard, and the
  branch of `na_input` that copies an INCOMPLETE entry unchanged is not taken. A
  handler is a sequence of operations, so each operation has a lemma that a
  good table stays good, and each handler one that cites them in order.
- `Downward_proofs`: `TypeOK`, `TablesAgree`, `OneEntryPerDestination`,
  `OthersKeepRoutes`, `AcknowledgedIsRouted` and `DaoKeepsReachable`, for any
  destinations, nodes and sizes of tables. The invariant is
  `Well(tab) /\ NsWell(ns)`: types, agreement, and that a destination has one
  route. The last is inductive because a lookup finds the longest match, so the
  route of the destination itself if it has one (`LookupOwn`), and every
  operation that adds a route removes what was found before: none of that destination is
  left (`NoOwnRouteLeft`). The counter is needed too: that it is below its limit is
  what says there is a free block (`RoomIsFree`). Each operation has a lemma that it keeps the tables well, each action one step
  that cites it. `OthersKeepRoutes` then follows from what `RouteAdd` and a new
  neighbor touch (`RouteTouched`, `LookupSame`). `DaoKeepsReachable` is about the
  chains of parents (`Climb`). The loop of `rpl_ns_is_node_reachable` is bounded, and a new
  parent may lengthen the chain of every node below: that a node is reached if its
  parent is (`DownReached`) holds because a chain longer than there are blocks would
  come back to one it has left, and never end at the root (`ClimbShort`, by counting). Then
  a node that was reached and is no longer would have, up its chain, a first
  node that still is, and the one below it has kept its parent or is the child
  itself, which the code has checked (`ReachedStays`). An operation that adds a node is
  covered by the same lemma, where `ParentsListed` keeps the chains off the new block.
- `Dodag_proofs`: `TypeOK`; `StoredIsAhead`, on the premises that `intact` keeps, and
  `StaysTogether`, without them: once all is calm, no DIO, start or store leads root and
  nodes that are `Together` apart, which is the safety that `Settles` rests on. Both for any
  nodes and any lollipop whose window is at most half of its circular region (`HalfWindow`; the
  program has 16 and 128). For the first the invariant is
  that, while `intact`, memory and file agree, the file has the version in use or the one
  after it (`StoredIsNext`), and every node has a recent version, seen from the one the
  root uses or will start with (`Followed`); no recent version is greater
  (`RecentNotGreater`), so the root never hears a greater one. For the second, what the
  root answers to a node behind the foremost is still recent for it (`AnswerRecent`). With a larger
  window two versions may each be greater than the other.

The assumptions are those on the constants (`DestAssumption`, `AddressAssumption`,
`LimitAssumption`, `LifetimeAssumption`, `LollipopAssumption`, ...), which TLC evaluates in
the runs.

Only model-checked: everything about liveness (`SessionEnds`, `Implements` in
its fair form, the fair part of `KeepsPromise`, `AllWritten` of `SlipOut`,
`HandledUnlessCrcError`, `ProbeEnds`, `SilentIsForgotten`, `Settles`), which is
out of the prover's reach. Every invariant and every action property of the passing runs is
stated by a theorem.

What the proofs changed in the models: `EscapeLeft` named only the last byte of the message just
before, and `Resynchronises` was false with more lost bytes than the run had; it is
now about any earlier ESC, and the run loses two. `ImplementsCsma` turned out to need
`HeadNumberUnique`. `NumTx` of `Csma` includes the 1 that csma is called back with at once.
`Recent` was recursive and is now counted.

## 7. Plan

Done: the transmit path and both directions of the serial line; the neighbor
cache over its key table; routes, DAOs and the graph of non-storing mode; the
version of the DODAG with restarts, failed stores and resets.

What would come next, in this order:

1. Proofs: a weaker form of `InOrder` for several devices that share `inbuf`; that
   of all steps of `Downward` only the removal of a node from the graph makes another
   one unreachable.
2. Reassembly contexts of `sicslowpan.c`, the address map of IP64 and its recycling,
   the window of sequence numbers of `mac-sequence.c`.
3. `NbrCache` and `Routes` over one key table, with the locked bits, instead of the
   choice `Sender` leaves open.
4. Radio initialisation with the firmware's side of it, and its ring of session ids.

One run is kept per question; smaller components are checked in the runs where
they compose.

## 8. Not modelled

Header compression and packet parsing (`sicslowpan.c`, `uip6.c`: bit layout on one
buffer), the web server, proxies and configuration pages (formatting; that they
store or reset the configuration and repair the DODAG is in `Dodag`), Ethernet
and TAP drivers (I/O), the translation part of IP64, other platforms, tools and
Contiki's own examples. The kernel services (processes, timers, lists, memory
pools) are not modelled apart: an action runs to completion as a protothread
does, and a timer that is set fires once.

Of RPL, what a node other than the root does: ranks and parents, local repair,
DAO output, probing, the interval of the trickle timer. The router has no parent,
so in its process this code has no effect on the tables that are modelled. Of the
start-up, addresses, DAD and the delayed start, which the shipped defaults do not
take. Of the configuration, the migration of old layouts: one pass over a
structure in memory, written once at its end. Radio initialisation and the inside of
the radio's firmware: the serial protocol between them is in two programs, and
only the answers the router relies on are modelled (`RadioTx`).

The rest of the repository (some 3400 files) is Contiki's other platforms,
processors, drivers and examples, which the border router does not compile.
