# A TLA+ development for ns-allinone-2.34 "IMP protocol"

The repository is the ns-2.34 network simulator with two routing agents of its
own: **WFRP** (`wfrp/`), a beacon-based protocol for sensor networks with
sinks, and **XFXVanets** (`avanets/`), a store-carry-forward protocol for cars
with planned routes. The rest is upstream ns-2, patched where the agents need
it (`common/mobilenode.cc`, `mac/channel.cc`, `tcl/lib/ns-lib.tcl`). Paths
below are relative to `src/src/ns-2.34/`.

This directory specifies the two agents and what they run on: the link layer
with ARP and the interface queue, the 802.11 MAC, timers and the event
schedulers; and AODV, the upstream agent WFRP took its structure from. TLC
checks the specifications on small instances, and TLAPS proves the central
properties for every instance.

## 1. The system

Everything runs on one simulator clock. `Scheduler::run()` takes the earliest
event off its queue, sets the clock to it and calls its handler; no handler is
ever interrupted. What makes the code hard is therefore not threads but what
may happen *between* two handlers: delays, losses and reorderings on the
radio, timers of different nodes and layers, callbacks that find a state other
than the one they were set up in, and script commands.

| Component | State | Operations | Interacts with |
|---|---|---|---|
| WFRP agent, one per node (`wfrp/wfrp.cc`) | beacon number, route cache, two timers | `command` ("start", "sink"), beacon timer, cache timer, `recv` -> `recv_beacon` / `recv_data`, `forward` | link layer below, applications above |
| XFXVanets agent, one per node (`avanets/vanets.cc`) | message buffer, neighbour table, two timers | "start", hello timer, purge timer, `recv` -> `recvHelloMsg` / `sendMsgStNodo` / `handleForward`, `forward` | link layer; reads the routes of *other* nodes through the global list of mobile nodes |
| AODV agent (`aodv/aodv.cc`, `aodv_rtable.cc`, `aodv_rqueue.cc`) | sequence number, request number, route table, requests seen, packets that wait | `recvRequest`, `recvReply`, `recvError`, `rt_resolve`, `rt_ll_failed`, `local_rt_repair`, `rt_purge` | link layer, and back from the MAC through `xmit_failure_` |
| Neighbour table (`avanets/vanets_neighbor_table.cc`) | ttl per neighbour car | `insert`, `search`, `update_ttl` | XFXVanets agent |
| Mobile node (`common/mobilenode.cc`) | planned route, `firstWalk`, position and destination | "route", "setdest", `check_distance`, `update_position` | scripts, XFXVanets agents |
| Global node list (`avanets/list_mobile_nodes.cc`) | vector of nodes in order of creation | `add`, `get_pointer` | agents index it by address |
| Queue and buffer containers (`avanets/vanets_queue.cc`, `vanets_buffer_msgs.cc`) | linked list, array | enqueue, dequeue, search | nobody at present |
| Link layer, ARP (`mac/ll.cc`, `mac/arp.cc`) | address table, one held packet per entry | `sendDown`, `sendUp`, `arpresolve`, `arpinput` | agents above, interface queue below |
| Interface queue (`queue/priqueue.cc`, `queue/queue.cc`, `queue/drop-tail.cc`) | bounded list, routing packets first, `blocked_` | `recv`, `recvHighPriority`, `resume` | link layer, MAC |
| 802.11 MAC (`mac/mac-802_11.cc`, `mac/mac-timers.cc`) | sender and receiver state, three packet slots, six timers, NAV, retry counts, duplicate cache | `send`, `recv`, one handler per timer, one per kind of frame | interface queue, channel |
| Radio channel (`mac/channel.cc`) | transmissions | copy to all nodes in range | MACs |
| Timers (`common/timer-handler.cc`) | `status_`, the event's `uid_` | `sched`, `resched`, `cancel`, `handle` | scheduler, whoever derives from them |
| Schedulers (`common/scheduler.cc`, `common/heap.h`, `common/splay-scheduler.cc`) | event queue as list, heap, calendar or splay tree; the clock | schedule, cancel, dispatch, halt, resume | everything |
| Packet pool (`common/packet.h`) | free list | alloc, free, copy | everything |

What has to be right, per component:

- **WFRP**: routes never form a loop, whatever copies of a beacon are late or
  lost; each beacon is flooded once per node; the 8-bit hop count never wraps;
  data approaches the sink at every hop; the fresh/expired mark follows the
  clock; without loss every beacon becomes known everywhere.
- **XFXVanets**: a message has one holder; it is handed only to a car that is
  still to pass its destination; cars do not toss it to and fro; a carried
  message is delivered; silent neighbours leave the table.
- **Mobile node**: what is left of a planned route starts with the leg that was
  finished last, so distances along it mean something.
- **AODV**: sequence numbers keep routes free of loops while requests, replies
  and errors overtake each other; its assertions hold; a repair ends; those who
  use a route learn that it is gone; packets arrive when no link breaks.
- **Link layer, ARP, interface queue**: every packet is in one place and
  accounted for; ARP holds a packet exactly until the address is known; the
  queue is never blocked while the MAC is idle; order is kept where it is
  promised; a unicast is delivered at most once (the MAC has one exception).
- **802.11 MAC**: the assertions its handlers make about each other's timers and
  packets hold in every interleaving; it never stalls; what is acknowledged has
  arrived; retransmissions are passed up once; the NAV protects announced data.
- **Timers**: the timer and the scheduler agree on what is pending; a pending
  timer expires.
- **Schedulers**: events are dispatched in time order, ties in the order of
  scheduling, none is lost or runs after it was cancelled, whatever the data
  structure.
- **Packet pool**: a packet is owned once and not used after it was freed.

The hazards, each with the source line and the property aimed at it, are listed
in `PROJECT.json`.

## 2. Modules

| Module | What it is |
|---|---|
| `LoopFreeRoutes` | abstract: a node changes its route only for a better one (newer beacon, or as new and shorter) and only through a neighbour that is nearer |
| `Wfrp` | the WFRP agents of all nodes, their radio and clock; implements `LoopFreeRoutes` |
| `XFXVanets` | the XFXVanets agents, their cars and unicasts |
| `UnicastLink` | abstract: what an agent may expect of a unicast: one arrival at most, unless its frame bore the number 0, and none after the sender's stack has done with it |
| `LinkStack` | link layer, ARP, interface queue and what the MAC does for them; implements `UnicastLink` |
| `Mac80211` | the 802.11 MACs of all nodes over a lossy channel; implements `UnicastLink` |
| `EventQueue` | abstract: what users of a scheduler rely on; also the list scheduler |
| `HeapScheduler`, `CalendarScheduler`, `SplayScheduler` | the three data structures |
| `Schedulers` | the simulator with any one of them; implements `EventQueue` |
| `Timers` | timers over `EventQueue` |
| `Aodv` | the AODV agents of all nodes, with the MAC's report of a broken link |
| `MCWfrp`, `MCXFXVanets`, `MCLinkStack`, `MCMac80211`, `MCTimers`, `MCAodv` | small networks, traffic and scripts for TLC |
| `LoopFreeRoutesProofs`, `WfrpProofs`, `XFXVanetsProofs`, `LinkStackProofs`, `Mac80211Proofs`, `TimersProofs`, `SchedulersProofs`, `AodvProofs` | theorems |

How they fit: `Wfrp` and `XFXVanets` describe the stack below them as a set of
packets that arrive at most once, in any order, or get lost. `UnicastLink` says
that of a unicast: each time a packet is passed up is an arrival of its own, so a
second one does not pass for the first. `LinkStack` and `Mac80211` show that the
two halves of the stack keep it: the one with the MAC reduced to "sends and resumes
the queue", the other with the link layer reduced to "hands packets down". `LinkStack`
keeps it without exception. `Mac80211` keeps it but for frames with the number 0,
which the MAC may pass up again (section 3): of these the agents' models are
not a faithful account, one packet in 65536 with an acknowledgement that was lost.
`Timers`
is built on `EventQueue`, which the three schedulers are shown to implement.

### Wfrp

| TLA+ | Code |
|---|---|
| `seqno`, `rt` | `WFRP::seqno`; the list `rthead`, at most one entry per destination because only `recv_beacon()` inserts, after a failed lookup |
| `air`, `data` | packets below the routing agents of two nodes |
| `pending` | beacons `forward()` has scheduled with a delay |
| `beaconDue`, `purgeDue`, `now` | the two timer events of each agent, the clock |
| `assertFailed` | `forward()` went on with a packet it had dropped |
| `SendBeacon` | `wfrpBeaconTimer::handle`, `send_beacon()` |
| `RecvBeacon` | `recv()`, `recv_wfrp()`, `recv_beacon()` with `rt_insert()` and `forward()`: ignore, adopt and rebroadcast, or adopt silently |
| `Rebroadcast` | the forwarding delay is over |
| `AppSend`, `DataArrives` | `recv()` for own and for foreign data, `recv_data()`, `forward()` |
| `Purge` | `wfrpRouteCacheTimer::handle`, `rt_purge()` |
| `Tick` | the scheduler advances the clock; it cannot pass a timer or a forwarding delay that is due |

Abstractions. Time is in whole units; the forwarding delay 0.1 + U(0,1) s is
anything up to `ForwardDelay`. Positions, sizes and time stamps in beacons are
left out: nothing reads them. `Reach[n]` is the set of nodes that may hear n;
with `Lossy` any subset hears a given broadcast, and copies are delivered in any
order, so range, collisions, movement, queue drops and queue order are all
covered. A data packet carries, as a history, the sequence number and hop count
of the route that forwarded it last. "start" happens at time 0 for all nodes, as
`create-wfrp-agent` does it; "sink" happens once per sink, at a moment the
script chooses. After `forward()` has used a dropped packet the model stops: what
the program does from there is undefined. `seqno` is a natural number: it would
wrap after 2^31 beacons.

### XFXVanets

| TLA+ | Code |
|---|---|
| `buffer` | `bufferMsgs` of each agent |
| `net` | FORWARD and NORMAL unicasts between two agents |
| `delivered`, `lost` | history: what became of a message |
| `routeNode`, `firstWalk` | the planned route of each car (`MobileNode`) |
| `leg` | how many setdest commands of its script a car has executed |
| `neighbors` | the ttl in `neighbor_vehicles`, a 16-bit unsigned number (modulo `TtlMod`) |
| `purges` | history: purges since a neighbour was heard |
| `HearCar` | `sendHello()` of a car and `recvHelloMsg()`, `sendMsgMinorDistance()`, `forward()` at a car that hears it |
| `HearStatic` | `sendHello()` of a static node and `sendMsgStNodo()` at a node that hears it |
| `Receive` | `handleForward()`, or arrival of a NORMAL message |
| `Lose` | retries exhausted, address not resolved, queue full; nobody is told |
| `SetDest` | `setdest` with `remove_first_object()` |
| `Purge` | `BroadcastTimerXFX::handle`, `update_ttl()` |

A hello holds nothing that changes and is repeated every second for ever, so
sending and hearing one are a single action that may happen at any time; a hello
in flight could only act like a later hello. The route of the sender is not part
of the hello: the receiver reads it from the sender's node object when it
handles the hello, as the action does. Points are abstract: the code compares
the decimal text of coordinates, which is exact for the integer coordinates of
the supplied scripts. Destinations are static nodes, as in `avanets/example.tcl`.
`pop_front()` on an empty route is undefined; `SetDest` is not enabled there and
`PopsTheFinishedLeg` shows that it is not met when scripts follow their routes.

### LinkStack

| TLA+ | Code |
|---|---|
| `arp` | `ARPTable`: `up_`, `count_`, `hold_` per neighbour; an entry that is not up, with count 0 and nothing held, stands for no entry |
| `down` | the events of `LL::sendDown()` (after `delay_` 25us) and ARP (5us) on their way to the queue; `Due` lets ARP's overtake |
| `queue`, `blocked` | `PriQueue`, `blocked_` |
| `mac` | the frame the MAC is busy with |
| `Send` | `LL::sendDown()` with `ARPTable::arpresolve()`: `SendResolved`, `SendHeld`, `SendRefused` |
| `Enqueue` | `PriQueue::recv()`, `recvHighPriority()`, `DropTail::enque()`, `Queue::recv()` |
| `Transmit` | the MAC has sent its frame: `LL::recv()` / `ARPTable::arpinput()` where it is heard, `Queue::resume()` where it came from |
| `sent`, `passedUp`, `dropped` | histories of what the agents handed down and got, and of `drop()` |
| `Earlier` | a constant: the packets that have to be sent before a packet |
| `lossy` | whether transmissions may fail, chosen at the start and never changed |

A frame that was heard may still be given up by its sender, when only the
acknowledgement was lost; nobody is told, so nothing changes in the model.
Packets carry no failure callback: those are AODV's and are in `Aodv`. A node whose
request was not answered, or that gave up on an address, asks again with the next
packet: there is no timer. That matters when the interface queue is full, see
`Settled` in section 3.

### Mac80211

A handler is an operator from the record of its node's MAC to the next record,
so that `TxResume(StartBackoff(...))` composes as the calls do in the code.

| TLA+ | Code |
|---|---|
| `tx`, `rx` | `tx_state_`, `rx_state_` |
| `pktTx`, `pktRTS`, `pktCTRL`, `pktRx`, `error` | the packet slots, and the error flag of the received one |
| `timer` | what is left of `mhSend_`, `mhDefer_`, `mhRecv_`, `mhIF_`, `mhNav_`, or `Off` |
| `backoff` | `mhBackoff_` with its pause and remaining slots |
| `seq`, `seqno`, `cache` | the sequence numbers and the receiver's filter for duplicates |
| `queue`, `blocked`, `callback` | the interface queue above, the MAC's callback to it |
| `Timeout` | `send_timer`, `deferHandler`, `recv_timer`, `navHandler`, `txHandler`, `backoffHandler` |
| `Arrival` | `recv()` of the first bit, with capture or collision |
| `coming` | when the link layer hands down each packet, chosen from `Traffic` at the start |
| `HandDown` | `Queue::recv()` and `send()` |
| `Tick` | the time to the next event passes; events due at the same instant run in any order |
| `failed` | an assertion of `mac-802_11.cc` or `mac-timers.cc` did not hold |

Durations are the standard's at 1 Mb/s in microseconds, modulo 2^16 as
`u_int16_t` has it. `hears` is the topology, chosen at the start. The backoff
draws from `Slots` instead of `0..cw_ - 1`; which frame is stronger in a
collision is free. Management frames belong to infrastructure mode, which the
scripts do not use.

### Event schedulers and timers

`EventQueue` keeps the pending events as a set; `Dispatch` takes the earliest,
the lower uid among equals. In `HeapScheduler` the heap is a sequence with the
sift loops of `heap.h` and `heap_delete()`'s detour over the root. In
`CalendarScheduler` a bucket is the sequence of its circular list; `Put` is
`insert()`, `PutBefore` is `insert2()`, `Resized` is `resize()` with its copy from
the tails, `Found` is the search of `head()` with its three horizons, `Peek` a bare
call of `head()`, as `RealTimeScheduler::run()` makes it, which moves `cal_clock_`
ahead of the clock; nothing else of that scheduler is modelled. The width a resize computes
from statistics is any member of `Widths`. In `SplayScheduler` the events are the
nodes, as in the code, and `left` and `right` their pointers `prev_` and `next_`;
`Splayed`, `Folded`, `Search` and `Successor` are the turns of the four loops, and
`Replaced` and `Promoted` the assignments of `cancel()`. A loop of any of the three
is a function of the number of turns taken; a turn after the end changes nothing.
`Schedulers` chooses one of them at the start, as `use-scheduler` does.

`Timers` has one action per method; what `expire()` does before it returns comes
between `Expire` and `Return`, so that restarting or cancelling a timer from
within its own handler is included. `status` is `TimerHandler::status_`, `event`
the `uid_` whose sign `Scheduler` keeps, and `aborted` says that one of the two
`abort()` calls was reached.

### Aodv

| TLA+ | Code |
|---|---|
| `node[n].rt` | `aodv_rtable`: number, hops, flag (up, down, in repair), next hop, precursors |
| `node[n].rqueue` | `aodv_rqueue` |
| `node[n].seqno`, `bid`, `seen` | `seqno`, `bid`, the broadcast id cache |
| `node[n].tries` | `rt_req_cnt` |
| `air` | frames between two nodes, those in the interface queue included |
| `repairs` | pending `LocalRepairTimer` events |
| `failed` | history: destinations a local repair has failed to reach |
| `Originate` | `recv()` of an own packet, `rt_resolve()` |
| `Receive` | `recvRequest()`, `recvReply()`, `recvError()`, `recv()` of data to pass on |
| `Fail` | the MAC's `xmit_failure_`: `rt_ll_failed()`, `local_rt_repair()` or `nb_delete()` / `handle_link_failure()`, and `ifqueue->filter()` |
| `RepairTimeout` | `LocalRepairTimer::handle()` |
| `Purge` | `RouteCacheTimer::handle()`, `rt_purge()` |
| `Break`, `Lose` | a link stops working; one neighbour misses a broadcast |
| `node[n].ok` | no assertion of the agent failed |

The build has `AODV_LOCAL_REPAIR` and `AODV_LINK_LAYER_DETECTION` (`aodv.h:49,55`), and
so has every run; hellos and the neighbour list are compiled out. No theorem assumes
anything about local repair.

Time is left out. Any route may expire at any moment. `sendRequest()` may be held
back by `rt_req_timeout` ("wait"), send a request with a smaller hop limit, which is not
counted ("ring"), or one for the whole network, which is ("wide"); after more than
`RREQ_RETRIES` of these it gives the waiting packets up (`GivesUp`, `aodv.cc:1036`).
A request that its hop limit stops is a copy that is lost (`Lose`).
`rt_purge()` visits the table in the order of the list, which is the order
in which routes were made; `Purge` lets it find any order of the requests it sends.
With `Patient`, a failed repair or a repeated flood waits until the requests and
replies under way have arrived; this is assumed in `AodvLine` and `AodvUpstream` only.

Two things that only time brings about are left out: packets that have waited
for `AODV_RTQ_TIMEOUT`, 30 s, are dropped (`aodv_rqueue.cc:57,233`), and the
numbers of requests are forgotten after `BCAST_ID_SAVE`, 6 s (`aodv.cc:228`), when no
copy of them is under way any more. A give-up frees the packet that
`local_rt_repair()` goes on to copy for its timer (`aodv.cc:373-376`), which can happen to a
packet that fails while its route is already in repair; the timer then reads free memory
(`TimerReads`).

## 3. Model checking

| Run | Instance | Checks |
|---|---|---|
| `WfrpMesh` | 3 nodes all in reach, lossy, 1 sink, 2 beacons, 1 data packet | `RoutingInv`, `NextHopNearer`, `OneFloodPerBeacon`, `DataNearer`, `NoRoutingLoop`, `HopTtlBalance`, `DiameterSuffices`, `ImplementsLoopFreeRoutes` |
| `WfrpFlood` | chain of 3, no loss, expiry, purges and refreshes | `StateFollowsClock`, `RoutesCatchUp` |
| `WfrpTtl` | chain of 4 with `NETWORK_DIAMETER` 2 | `BroadcastAssertion` (violated) |
| `XFXCars` | 2 cars, 2 static nodes, 2 messages, lossy | `Custody`, `PopsTheFinishedLeg`, `CarrierWillPass`, `HandingOverEnds`, `CarriedIsDelivered` |
| `XFXPurge` | 2 cars, 5 purges | `SilentNeighborsLeave` (violated) |
| `LinkNodes` | 2 nodes, a burst of 3, the other way two broadcasts and a packet the queue prefers, queue limit 3, 2 ARP requests | `LastOfBurstHeld`, `InOrder`, `Accounted`, `NeverBlockedIdle`, `HeldWhileUnknown`, `ImplementsUnicastLink`, `Settled` |
| `MacNodes` | 3 nodes in a mesh or a chain, 4 packets: two one way with and without RTS, one back with RTS and a broadcast; 1 frame lost | `AssertionsHold`, `NeverStalls`, `AnnouncedDataIsClear`, `AckedArrived`, `OnceUnlessZero`, `ImplementsUnicastLink` |
| `Schedulers` | 5 events, delays 0, 1, 3 and 7, each of the three schedulers | `CountsDistinct`, `CancelFinds`, `ImplementsEventQueue` |
| `TimerEvents` | 2 timers and foreign events, 4 events in all | `Agreement`, `NoAbort`, `PendingInFuture`, `PendingExpires` |
| `AodvKite` | 4 nodes with a way round a node, 1 packet, 3 requests per node, 2 broken links, 1 loss, 2 expiries, `RREQ_RETRIES` 0 | `RepairTimed`, `NextHopFresher`, `NumbersFromDestination`, `AssertionsHold` |
| `AodvLine` | line of 4, 2 packets, 3 requests per node, 2 losses, `RREQ_RETRIES` 2 | `EverythingArrives` |
| `AodvUpstream` | line of 4, 1 packet, 1 broken link | `UpstreamTold` (violated) |

### Bounds

- *Wfrp.* `MaxTime` ends the simulation, as a script does. With a beacon
  interval of 1 unit and a forwarding delay of up to 2, the floods of two beacons
  overlap, which is what route selection has to survive; with everybody in reach
  and any reception lost, every topology and every movement of three nodes is
  included, and a node reaches the sink over one hop or two, so the
  shorter-route branch is taken. In `WfrpFlood` expiry (3) is no multiple of the
  purge period (2) and shorter than the beacon interval (5): an entry expires
  between two purges and is refreshed after it was marked.
- *XFXVanets.* Routes have two or three points; one car starts where the other
  passes and each has a message for the other's destination. `TtlMod` 8 stands for
  2^16, and `MaxPurge` 5 is enough to count 3 down through 0 and wrap.
- *LinkStack.* Two ARP requests and a burst of three make each outcome of
  `arpresolve()` happen and the packet in the other direction makes requests cross.
  Queue limit 3 leaves room for one waiting frame (`drop-tail.cc:92` refuses a frame
  that would be the second): the broadcasts fill it without asking ARP, and
  then a reply that is due finds it full, or the preferred packet pushes a frame
  out. Requests and replies are really lost there: without its condition on full
  queues `Settled` is violated in this instance.
- *Mac80211.* Three nodes in a chain have the hidden terminal and in a mesh the
  NAV; with start times 0 and 400us a packet meets every phase of another
  exchange. With 408us for the packet that goes back it is handed down while its
  node is about to send a CTS, and with 358us the broadcast of the hidden node
  arrives just before that CTS, which is then dropped (`DropsCTS`). One lost frame is enough for each timeout; the retry limits of 3 and
  2 are reached by collisions as well. `SeqnoMod` 4 from 3 on wraps at
  the second packet.
- *Schedulers.* Five events are the fewest with which the calendar doubles from 4
  to 8 days at `TopFactor` 1 and afterwards dispatches or cancels across the
  boundary; delay 7 is more than a year ahead at width 1. Delay 0 makes ties.
- *Timers.* Four events are two rounds of two timers, or three restarts of one.
- *Aodv.* In the kite n3 - n2 - n1 - n4 with a link n2 - n4 a packet is nearer its
  destination than its source when n1's link to n4 breaks, which a repair requires, and
  n2 offers a way round. Three requests of a node are one
  discovery, one repair or retry, and one more; with `RREQ_RETRIES` 0 the second
  is the last, so the give-up happens in discoveries and in repairs. Repairs do fail
  in this instance: `NextHopFresher` without its exception for `failed` is violated
  there. What stays out of reach of a small instance, routes as long as
  `INFINITY2`, is left to the proof.
- *AodvLine.* The line of four lets one flow's reply be overtaken by the other's at
  a node both share. With `RREQ_RETRIES` 2 a source sends three requests and then gives up;
  with two losses and the other flow's reply against it, all three may fail, and
  the give-up does occur. Links and routes stay up, since `EverythingArrives`
  promises nothing once one of them goes; both packets fit the queue (64 in
  the code), and every request is for the whole network, as smaller ones
  are only further attempts.

Deadlock is checked for `Schedulers` alone, which can always be halted and resumed;
elsewhere it is not: a simulation ends, when its packets are done with or at
a bound.

### Fairness

In `Wfrp`, copies in flight arrive and scheduled beacons are sent: the scheduler
dispatches every event it holds. The clock and the beacon timers need none,
because `RoutesCatchUp` speaks only of beacons that were sent. In `XFXVanets`,
unicasts arrive and scripts run on, by the same argument; the hello timer re-arms
itself for ever, so two cars hear each other again and again, and a car parked
at a static node hears its hellos. That two cars meet is not something the code
can guarantee: `CarriedIsDelivered` is about networks whose cars do, and ends in
"delivered or lost", because the agent does not retry. `HandingOverEnds` needs no
fairness at all. In `LinkStack`, scheduled frames enter the queue and the MAC ends
every transmission, by the retry limits of `Mac80211`; that no transmission fails
is a condition of `Settled`, not an assumption about the code, and so is that no
request or reply meets a full queue (`ExchangeAtRisk`). In `Timers`, `run()`
goes on unless it is halted and `expire()` returns. In `Aodv`, frames on working
links arrive and the purge timers of all nodes go on for ever. Nothing assumes
that a link breaks, that a repair timer is late, or that a loss stops happening.

### Disagreements between the code and what it says of itself

- `WfrpTtl`: `forward()` lacks a `return` after `drop(p, DROP_RTR_TTL)`
  (`wfrp/wfrp.cc:239`). A beacon that has travelled `NETWORK_DIAMETER` hops is
  freed, its headers are cleared, and the assertion at `wfrp.cc:250` fails; built
  with `-DNDEBUG`, as the supplied Makefile does, the freed packet is scheduled
  instead. `DiameterSuffices` shows the other side: in a network of at most
  `NETWORK_DIAMETER` nodes it does not happen.
- `XFXPurge`: the comments at `avanets/vanets_neighbor_table.cc:42` and
  `avanets/vanets.cc:128` say that neighbours whose ttl has run out are removed;
  the ttl is unsigned and the test is `ttl < 0`, so none ever is.
- `AodvUpstream`: `LocalRepairTimer::handle()` says it will "bring down the route
  and send route errors upstream" (`aodv/aodv.cc:189`); it takes the route down
  under its old number and sends nothing, so nodes upstream keep using it.

Met while modelling, and kept out of the properties by their wording:

- the MAC's duplicate filter takes number 0 for "none yet"
  (`mac/mac-802_11.cc:1956`), so the frame with which the 16-bit counter wraps is
  passed up again when it is retransmitted: hence `OnceUnlessZero`;
- an ARP request or reply that a full interface queue drops (`queue/drop-tail.cc:92`,
  `queue/priqueue.cc:118`) leaves the packet that waits for it in ARP until its agent
  sends another one there: no timer asks again. It is neither sent nor dropped
  though no transmission failed. `Settled` is about exchanges that meet no full queue;
- `handle_link_failure()` may meet a route that is in repair and fail its assertion
  (`aodv/aodv.cc:336`): a node on the way repairs a route, and then a packet of
  its own, for which `rt_ll_failed()` attempts no repair, fails on the same link.
  TLC finds it in 14 states on the line of four with both packets, one broken link,
  and neither loss nor expiry. `AssertionsHold` of `Aodv` therefore excepts nodes that
  have a route under repair, and no others until a repair has failed; from then on
  numbers no longer rule out loops, and around a loop lengths may count up to
  `INFINITY2`, where the same assertions would fail;
- `recvReply()` throws a reply away that is no better than the route the node has
  (`suppress_reply`, `aodv/aodv.cc:857`), also one for somebody else who has no route yet.
  The other's request has then failed like one that was lost: hence each of the other
  packets counts against the tries in `EverythingArrives`;
- `local_rt_repair()` copies, after `sendRequest()`, a packet that `sendRequest()` has
  freed if it gave up (`aodv/aodv.cc:373-376`). The repair timer then reads the
  destination from free memory (`TimerReads`);
- `rt_req_timeout`, a moment, is used as a delay for the repair timer
  (`aodv/aodv.cc:376`), which makes repairs last too long, never too short;
- a MAC may be left with a packet and no timer at all. `send()` starts no backoff when
  a deferral runs, "If we are already deferring, there is no need to reset the Defer
  timer." (`mac/mac-802_11.cc:1536`), counting on `tx_resume()` after what is deferred.
  If that is a CTS, and a frame arrives within the SIFS, `check_pktCTRL()` drops the
  CTS, "If the medium is not IDLE, don't send the CTS.", and resumes nothing. The
  packet, and the queue blocked behind it, wait until somebody happens to send the
  node a frame. `NeverStalls` says that this is the only way to stall: it excepts the
  step that drops the CTS (`DropsCTS`) and no other;
- packets PriQueue prefers leave a burst in reverse order: `InOrder` is about the
  others.

Every property of a passing run has a mutant in `PROJECT.json`: a plausible
mistake in one mapped definition (for instance "newer" read as "different", the
packet held by ARP not removed, a backoff left to the NAV, events at the same
time in the wrong order after a resize) that makes TLC find the property violated
under the same configuration.

## 4. Proofs

All theorems hold for every set of nodes, sinks, packets, messages and timers,
every topology and loss, and every value of the timing constants that satisfies
the named assumptions of the modules. These say that constants have their types
and null values are no proper values; those with more to say are `NodeAssumption` of
`Wfrp` (the network is finite, used to count the nodes that heard a beacon),
`TimerAssumption` (intervals and lifetimes are positive), `LimitAssumption` of
`LinkStack` (`QueueLimit` above 1: with 1 no frame ever gets through), `NodeAssumption`
and `LimitAssumption` of `Aodv` (the network is finite, `INFINITY2` and the queue's
limit are positive), and `PacketAssumption` of `Mac80211` (no packet is as short as a
SIFS: its header alone takes longer). Where a theorem needs more it says so in its
statement; each such hypothesis is explained below.

**LoopFreeRoutesProofs.** `NextHopsStayNearer`: the abstract specification implies
its own purpose.

**WfrpProofs.** `NextHopNearer` is not inductive: a node that adopts a beacon
takes its sender as next hop, and nothing in `NextHopNearer` says that the
sender was, and still is, as near as the beacon claims. `RoutingInv` adds that
(`BeaconsNearer`), for copies on the air and for beacons still waiting in the
scheduler, with two facts it rests on: beacon numbers in circulation are below the
sink's counter (`SeqnoBound`), so a route adopted from an old beacon is never
better than one from a fresh beacon; and a sink has no route to itself
(`SinkHasNoRoute`). The argument is monotonicity: a step replaces a route only
by a better one, hence whoever was near enough stays so, and each action need only
be checked for what it adds. From it follow

- `TypeCorrect`, `RoutingInvariant`, `NextHopsAreNearer`, `DataMovesNearer`;
- `RoutesAreAcyclic`: a non-empty set of nodes closed under next hops would
  contain a best route, by well-foundedness of the natural numbers, whose next
  hop would be better still;
- `Refinement`: each step of `Wfrp` is an `Adopt` or a stutter of
  `LoopFreeRoutes` on the routes without their expiry times.

The same module proves three more inductive invariants.

- `HopsBalanceTtl` and `FloodsAreSingle` (`FloodInv`): every node that has a copy
  of a beacon scheduled or on the air has heard that beacon or is its sink, and
  hearing is never forgotten, so no second rebroadcast is scheduled.
- `DiameterIsEnough` (`DiameterInv`): a beacon with hop count h was heard by h
  different nodes other than its sink; a network of at most `NETWORK_DIAMETER`
  nodes has no room for a chain that uses up the TTL.
- `StatesFollowTheClock` (`ClockInv`): timers lie within one period of the clock,
  and the fresh/expired mark agrees with the expiry time up to the next purge.

With these every safety property of `Wfrp` that the runs check is proved.

**XFXVanetsProofs.** `TypeCorrect`; `MessagesHaveOneHolder` (`Custody` is inductive
together with the types: the proof follows what each action does to the holders of
one message); `FinishedLegIsPopped` and `CarriersWillPass`, both from one
invariant, `RoutesInStep`: when scripts follow their routes, what is left of a
route is the script from the leg finished last on, and `firstWalk` is true exactly
before the first leg. Every safety property of `XFXCars` is proved.

**TimersProofs.** `TimerTypes`, `TimersAgree`, `TimersNeverAbort`, `NeverBackwards`.
`Agreement` needs that the uids of different timers and of foreign events differ
and lie below the next uid, so that cancelling one timer cannot remove another's
event, and that a uid is positive exactly for what is in the queue.

**LinkStackProofs.** `TypeCorrect`; `QueueNeverStuck`: the handshake of queue and
MAC is inductive, because `Served` is the only place that changes either;
`HoldsOnlyUnknown`: inductive together with the types, from lemmas that say what
the operations on sequences do to their elements.

`EverythingAccounted` and, from it, `LinkRefinement`.
`Accounted` is not inductive: it speaks of the set of packets in a stack, and a
packet that is in two places of it stays there when one of them drops it.
`AllTraced` follows each packet through its places (held by ARP, scheduled, in the
queue, with the MAC): it is in one of them at most, only at its origin, and was
sent exactly when it is there, has arrived or was dropped. The step needs
`HeldWhileUnknown`, so that a packet held by ARP is in no other place when it is
released or replaced, and `NeverBlockedIdle`, so that a queue that serves a frame at
once does not overwrite the MAC's. Given `Accounted`, a step of the stack is a step
of `UnicastLink`: what arrives was with a MAC, hence in a stack, hence neither
dropped nor passed up before; and a step passes up at most one unicast, at its next
hop alone, so no packet has two arrivals.

`BurstLeftover` (`LastOfBurstHeld`): while an address is unknown, ARP's counter is the
number of packets sent there, modulo the number of requests after which it gives up,
and what it holds is the last of them (`BurstsCounted`).

`OrderKept` (`InOrder`): the order of arrival is not inductive, as it says nothing of
packets on their way. `InLine` compares two packets of a flow place by place (`Ahead`):
as long as the first is somewhere in the stack the second has got no further. The
place where this is at stake is ARP: a frame it releases is delayed less than one that
`sendDown()` schedules and may overtake. It does not overtake its own flow, because ARP
holds the last packet of the flow, and releases it when nothing of the flow that was
sent before it is left in the stack and before anything sent later enters (`FromArp`).

**Mac80211Proofs.** `MacsAreSound`, and from it `NoAssertionFails` (`AssertionsHold`) and
`MacsGoOn` (`NeverStalls`). The assertions speak of timers and packet slots, and what
makes them true is which combinations a MAC can be in when an event strikes. `Sound`
lists what each handler counts on, one part per reason:

- `Transmitting`: the send timer runs exactly while `tx_state_` is not idle, and then
  the packet of that state is there, no deferral runs, and no backoff under a data
  frame or an RTS;
- `Deferring`: what is deferred is a CTS, an ACK or data that may follow, for a SIFS;
- `Following`: data whose CTS has come (`Cleared`) has no backoff but a deferral, or an
  ACK before it;
- `Radiating`: the transmitter is done before any timer can make it start again;
- `BackingOff`: a backoff counts down exactly while the medium is idle, and one that is
  paused has a frame or the NAV to resume it;
- `Serving`: the queue is blocked exactly while the MAC owes it its callback;
- `Receiving`: the receive timer runs exactly while `rx_state_` is not idle;
- `Undisturbed`: no frame that can be taken for one ends within the SIFS before data
  that follows a CTS, or at the instant an ACK ends. This is where a fact about other
  MACs is needed, the only one: what they send is longer than a SIFS.

`Core` is `Sound` without the last two, which do not hold half way through
`recv_timer()`. Each call (`StartTimer`, `SetTx`, `Transmit`, `TxResume`, ...) has a lemma
that says which fields it changes (`Changes`) and to what; each handler then has one
that leads from `Sound` to `Sound` and from `GoesOn` to `GoesOn` or `DropsCTS`.

Two hypotheses. `BugFixTimer`: `bugFix_timer_` is true, the default
(`tcl/lib/ns-default.tcl:698`, "fix for when RTS/CTS not used"); without it `send()`
defers where it should back off. `DurationsFit`: what an RTS announces
fits the 16 bits of a duration, which holds for packets of up to 8112 bytes; a
duration that wraps would make the timeout of a CTS too short, or negative. No
hypothesis is made about loss, topology, traffic, capture or slots.

**Mac80211Proofs, second part.** `MacRefinement` (`ImplementsUnicastLink`: a packet
arrives while its sender has it, and once unless its frame bears the number 0) and
`PassedUpOnce` (`OnceUnlessZero`), under the same two hypotheses, from the invariant `Linked`
(`MacsAreLinked`). Nothing in the state of a receiver says that what it passes up is
not a stray copy of an older packet: `Linked` follows a data frame from `transmit()` to
the filter of `recvDATA()`.

- `Flights`: a unicast that is on the air or being received is the one its sender has
  in hand (`Tracks`), under the same number, and its last bit arrives before the
  sender's timeout and before the sender can end the reception of anything good. So
  nothing the sender does until then, not even an ACK meant for another packet, makes
  it go on to its next packet: there are no stray copies. With a timeout that leaves
  out the SIFS and the ACK this fails (mutant `CheckTx_NoWait`);
- `Ups`: what was passed up was begun by its sender, and as long as the sender still
  has it, its number is in the cache, or is 0. A retransmission therefore does not pass
  the filter, whatever became of its ACK;
- `Singles`: a broadcast is sent once and has one copy for each node, on the air, being
  received or passed up; the filter is not asked;
- `Owns`: every packet was handed down at its origin and is in one place there: in the
  queue, in hand or done with.

What each handler does to the packets of its MAC is proved before, without its types
(`Runs`: it goes on with the same packet, takes the next one or is done with it; a
transmission ends only with its timeout or a good frame; only `check_pktTx()` sends
data). An event of any kind is then one relation (`Moves`), and each part of `Linked`
is proved once for it and once for the passing of time. Numbers may wrap: 0 is the only
number for which the filter fails, since it takes it for an empty cache.

**SchedulersProofs.** `SchedulersImplementEventQueue` (`ImplementsEventQueue`),
`SplayCancelFinds` (`CancelFinds`) and `CalendarCountsDistinct` (`CountsDistinct`), from
`SchedulersInvariant`: whichever scheduler is used is in order. Delays are any natural
numbers, widths any positive ones, `TopFactor` and `MaxUid` anything. The assumptions are
those of `Schedulers`; `NilAssumption` says that the null pointer is no event.

Loops come first. `LoopEnds`: if each turn keeps a set of states and makes a measure
smaller until the loop is over, the loop is over after as many turns as the measure was.
The proof is by a least counterexample (`LeastNumber`), since induction over a predicate
is not available here. A loop then needs a statement about one turn only.

- *Heap* (`HeapInv`). `OrderedBut(h, X, Y)` is the order of the heap with the places in
  X not below their parents and the children of Y not above theirs: heap_insert() has
  a disordered place that goes up, heap_extract_min() a parent that goes down, and
  after heap_delete() has moved an entry to the root without comparing, the root alone
  is out of order both ways, which is what heap_extract_min() repairs. Second keys are
  the numbers of the events less one, so that the order of the heap is that of the queue.
- *Splay tree* (`SplayInv`). Pointers are `Tidy` when each node can be given the set of
  what is below it, and the node divides the set in the order of time *and number*.
  Rotations (`RotateTidy`), taking a node with one child out (`SpliceTidy`) and putting
  one in the place of another (`RenameTidy`) keep it. `insert()` compares times alone; that
  its splay respects the order by number too is because the new event has the
  greatest number (`NewestGoes`). `Pieces` is the tree in the middle of `insert()`: a left,
  a middle and a right tree, with the children of the new node exchanged. The two
  directions of each turn are mirror images (`PiecesMirror`), so each is proved once. The
  search of `cancel()` goes by the same order, so it comes to the event it looks for.
- *Calendar* (`CalInv`). `Holds`: bucket i has, in order, exactly the events whose time
  hashes to i; `Counted`: the counters are the numbers of distinct times; `Stays`: the head
  is the bucket of `cal_clock_`, and nothing is before `cal_clock_`. `FoundIsLeast` is the
  heart: an event found within the horizon of its bucket is in this year (`NearIsSoon`),
  one of this year is within the horizon (`SoonIsNear`), and days of this year are looked
  at in their order; so `head()` finds the earliest event. This takes four days a year
  at least, as the comment in the code says. `Stays` is what `insert()` has to rewind for.
  `PutBefore` copies a bucket from its tail, so that events of the same time, which are
  always in one bucket, keep their order (`CopiedBucketIs`), and what one neighbour
  (insertion) or both (removal) say of a time is true of the whole calendar (`Neighbours`,
  `ListGains`, `ListLoses`).

Each step of a scheduler is then a step of the queue, or one that users do not see
(`Simulates`): the rewind, `head()`, resizes and rotations.

**AodvProofs.** What any handler may do to the record of its node is stated once, as
`Effect(s, t, m)`: how each route may change when message m is handled (`RouteStep`:
learnt, lost, or in repair) and what may be sent (`Sends`). One lemma per handler shows
that it has such an effect; each invariant is then proved for every `Effect`.

- `TypeCorrect`, with `Sane`: a route that is down has the length `INFINITY2`;
- `NumbersComeFromDestination` (`NumbersKnown`): also the numbers in requests and
  replies under way are at most the counter of the node they are about;
- `RepairsAreTimed`;
- `NextHopsAreFresher`: as with `Wfrp`, a next hop must be, and stay, as good as the
  message claimed whose sender it was (`OffersKnown`), and it stays so because the pair
  of number and length of a route only gets better. What makes it so when routes go
  down is `Parity`: a number is even while its route is good and odd after it was
  lost, so that what is learnt again is newer. A repair keeps number and length of the
  route it is to replace, which is still as good as its users were told;
- `RoutesAreAcyclic`: among the nodes of a circle one has the best route, and its next
  hop would have a better one;
- `AssertionsAlwaysHold`: the assertions say that a route is up exactly if its length is
  not `INFINITY2` and its number is even. That no route grows as long as `INFINITY2`
  needs a count: a route of k hops has k nodes that know it as well (`RoutesCounted`),
  and a request after k hops k - 1 nodes that have seen it (`OffersCounted`).

All of it is about the agent as it is built, with local repair, and about the one
without. What ends the promises of the last three is not a repair but its failure: then
`rt_down()` takes a route down under its old, even number (`aodv/aodv.cc:189` and the run
`AodvUpstream`), the node may believe a neighbour that still routes through it, and
loops are possible. The history `failed` holds the destinations this has happened to;
`NextHopsAreFresher` and `RoutesAreAcyclic` are about all others, and one failure does not
spoil them. `AssertionsAlwaysHold` speaks of steps before the first failure,
of nodes without a route under repair (section 3 says what happens at the others),
and of networks of fewer nodes than `INFINITY2`, which is 255
(`aodv/aodv_rtable.h`): with more, a route may be so long that the code takes it for
none.

Model-checked only:

- liveness (`RoutesCatchUp`, `HandingOverEnds`, `CarriedIsDelivered`, `Settled`,
  `PendingExpires`, `EverythingArrives`) and, as it is found violated, `UpstreamTold`;
- `Mac80211`: `AckedArrived` and `AnnouncedDataIsClear` rest on the timing of several
  MACs against each other: who is silent for how long because of whose NAV. The first
  holds of the instance only: a sender whose numbers wrap between two of its
  packets can have the second dropped as a duplicate, and yet acknowledged.

## 5. Not modelled

- Upstream protocols and tools (DSDV, DSR, TCP, SCTP, diffusion, satellite, the
  other MACs, traffic generators, ...), some 200,000 lines that neither agent
  uses and that are unchanged here.
- Infrastructure mode of the MAC (beacons, probes, association); energy.
- The map scheduler: `deque()` increments an iterator it has erased
  (`common/scheduler-map.cc:118`), which has no defined behaviour to model. The
  real-time scheduler depends on the wall clock.
- AODV's hellos (not in the build), the hop limits of its requests, and its exact
  times: with them the timeout of packets that wait (`aodv_rqueue::purge()`) and the
  forgetting of requests seen (`id_purge()`).
- The packet pool. `assertFailed` in `Wfrp` stands for the one place where a packet
  is used after it was freed.
- Positions between waypoints, propagation and interference by power: who hears
  whom is a free choice.
- The containers of `avanets/` that nothing uses, trace formatting, OTcl glue,
  header sizes and reads past an argument list.

## 6. Plan

1. (done) `LoopFreeRoutes`, `Wfrp`, `XFXVanets` with their runs and proofs.
2. (done) `UnicastLink`, `LinkStack`, `Mac80211`.
3. (done) `EventQueue` with heap, calendar and splay tree; `Timers`.
4. (done) `Aodv` without time.
5. `PacketPool`: ownership over alloc, copy, free and the reference count, with
   the path of `forward()` after `drop()` and the embedded packet of
   `handleForward()`.
6. (done) Proofs of the safety properties of `Aodv` and `LinkStack`, of `AssertionsHold`
   and `NeverStalls` of `Mac80211`.
7. (done) Proofs of `OnceUnlessZero` and `ImplementsUnicastLink` for `Mac80211`.
8. (done) Proofs about the three schedulers.
