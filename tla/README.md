# Verification of net-sim

net-sim is a network simulator that runs in the browser: the user places devices
and cables on a canvas, and every device runs a small TypeScript implementation
of the real protocols. This directory holds TLA+ models of its simulation
kernel, of the protocols whose correctness depends on the order of events, and
of the editor that keeps the running network in step with the drawing; the TLC
configurations that check them on small instances; and theorems about them that
TLAPS checks for all values of the constants.

All paths below are relative to `src/src/` of the repository; `core/nodes/` is
where the devices live. The comments of the sources are Korean; where a property
rests on one it is quoted in translation.

Contents: [the system](#the-system) · [inventory](#inventory) ·
[modules](#modules-and-their-correspondence-to-the-code) · [runs](#runs) ·
[fairness](#fairness) · [theorems](#theorems) ·
[disagreements found](#where-code-and-comments-disagree) ·
[observed](#observed-while-modelling) ·
[not modelled](#what-is-not-modelled) · [plan](#plan)

## The system

Everything runs in one JavaScript thread. A `Network` (`core/network.ts`) owns
the devices, the cables between their ports, the frames on the cables and two
heaps of events (`core/scheduler.ts`): the normal events, which the user waits
for, and the background timers (periodic adverts and keepalives), which fire
when the clock passes them but never move it. A device acts only inside a
callback the network calls: `receive` (a frame), `onTimer`, `onLink` (a cable was
plugged or pulled), `onRemove`, or an operation the user runs on it. Inside a
callback it may send frames and set or cancel timers; it never calls another
device. A frame takes the latency of the cable and is dropped if the cable is
pulled in between, unless it is marked `graceful` (the last words of a
device that is being removed).

Around the kernel, `model/sim.ts` and `model/simClock.ts` run it once per animation
frame up to the time shown on the screen, and `model/netSync.ts` applies the edits
of the topology: it first settles the simulation at the shown time, then removes
devices and cables, adds the new ones and pushes the new settings into devices.

Nothing here races for memory. What is hard is the order of events: frames
lost or overtaken, timers that outlive their reason, devices reconfigured,
moved or removed in the middle of an exchange, and two or more devices that
must come to agree. The operations of the user are legal at any time, so every
protocol meets every edit in every state; the repository's tests each drive one
such order.

## Inventory

For each component: the state it keeps, its operations, what is hard, what makes
it correct, and the modules that model it. `components` in `PROJECT.json` says of
each how much of it is modelled.

| Component | State | Operations | Hard | Correct means | Modules |
|---|---|---|---|---|---|
| Event queue `core/scheduler.ts` | heap of events (time, priority, sequence number) | push, pop, peek | ties of one instant; two sift loops | first in (time, priority, order of push) comes out | `EventQueue` `Scheduler` |
| Event kernel `core/network.ts` | nodes, links, transmissions, `timersOf`, two queues, `now` | send, timers, runAction, step, stepUntil, connect, disconnect, add/removeNode | edits with frames and timers pending; two queues, one clock | time never runs back; frames need their cable; timers belong to their device | `Network` |
| Clock and controller `model/simClock.ts`, `sim.ts`, settle of `netSync.ts` | shown time, "the clock is on" | frame, jump, stop, fast forward, act | bursts, idle periods, background timers | the screen never shows a time not yet simulated | `Network` |
| Editor and topology sync `model/store.ts`, `netSync.ts`, `topo/wireless.ts` | drawing, undo and redo, selection, clipboard; what was applied; slots of wireless stations | edit, undo, redo, gesture, paste, load; diff and apply | order of removals, additions and settings; half-typed fields; failures | the network is the one drawn; undo tells the same story | `Editor` |
| TCP `tcp.ts`, `tcpsplice.ts` | per connection: state, sequence numbers, send buffer, timers, application exchange | connect, send, receive, retransmit, close, abort, reset, splice | loss, repetition, reordering, half-open and half-closed ends, give-up timers | delivered = sent, in order; every connection ends | `Tcp` `Relay` |
| Switch and STP `switch.ts`, `stp.ts` | MAC table, port roles, heard BPDUs, ageing | learn, flood, block, topology change | old and new trees meet; information of a dead root circulates | one root, no loop, everyone connected, learnt addresses lead home | `Stp` `Lan` |
| Hub, AP, IGMP, bridges `hub.ts`, `ap.ts`, `igmp.ts`, `routerbridge.ts`, `fwbridge.ts` | learnt addresses, groups and where they are wanted | repeat, bridge, snoop, filter | moving stations, lost leave, loops | frames reach whom they are for, once | `Lan` |
| Ports and ARP `iface.ts` | ARP cache, pending queue, claim state | resolve, probe, defend | simultaneous probes, retries | pending packets are sent; users of one address know it | `Arp` |
| DHCP `dhcp.ts` | client: state, address, last address, attempts; server: leases, offers, refusals | discover/offer/request/ack/nak, reboot, release, force renew | client moves or leaves mid-exchange; server edited; ISP takes back | one address, one client; users hold leases; all exchanges end | `Dhcp` |
| Gateway redundancy `ha.ts` | election state, three timers, what it knows of a master | advert, resign, take over, track, reconfigure | split and join, silent death, late adverts | one master per connected group, somebody serves | `Ha` |
| Session copies `hasync.ts` | queue of sessions | queue, flush, bulk copy | resign between queueing and flush | an established session outlives its gateway | `Gateways` |
| NAT, firewall, publishing `nat.ts`, `firewall.ts`, `publish.ts`, part of `l3.ts` | translations, flows, proxy ports | translate, filter, expire | expiry against reuse, table full | replies find their session; a port is one session's | `NatTable` `Firewall` `Gateways` `Publish` |
| Router `router*.ts`, `wanline.ts`, `mwan.ts` | WAN lines, their health, current line, routes | configure, track, fail over, forward | flapping lines, overlapping networks | traffic uses a line that is up, a connection the one it began on | `Mwan` `Routes` |
| RIP and IP tunnelling `rip.ts`, `l3tunnel.ts` | routes, metrics, pending triggered updates | advertise, poison, ask again | counting to infinity while converging | at rest everybody knows the shortest way | `Rip` `Ipsec` |
| WireGuard `wg.ts`, `routerwgc.ts` | keys, endpoint per peer, handshake timers | initiate, respond, rekey, roam | both initiate; endpoint moves | both ends agree on a session | `WireGuard` |
| OpenVPN `openvpn.ts` | control channel, sessions, leases | handshake, retry, keepalive, push | retry against late answer, same certificate twice | one address, one client; both ends mean the same | `OpenVpn` |
| IPsec, L2TP, remote access `ike.ts`, `vpn.ts`, `l2tp.ts`, `ravpn.ts` | SAs, tunnels, retransmissions, leases | IKE exchange, DPD, dial, hang up | dead peers, simultaneous initiation | up at both ends or neither, in the end | `Ipsec` `L2tp` `RemoteAccess` |
| P2P, Tailscale `p2p.ts`, `tailscale.ts` | candidate paths, relay, peers | punch, relay, upgrade; login, netmap | crossing probes, path loss | connected if any path exists | `P2p` `Mesh` |
| Load balancer `lb.ts` | back ends' health, flows | probe, choose, splice | failing while chosen, broken off, crowded out | a back end's fault fails no request while another is left; open connections go on | `Lb` |
| Proxy, SSH jump `proxy.ts`, `sshjump.ts` | two halves per request | resolve, filter, fetch, splice | one half ends or fails first | no half is left over | `Relay` |
| DNS, dynamic DNS `dns.ts`, `ddns.ts` | cache, pending queries; registered names | resolve, retry, forward; update, release | late answers, loops, names taken over | asked ⇒ answered or failed; a shown name is registered | `Dns` `Ddns` |
| SIP `sip.ts`, `routersip.ts` | call states, holes for voices | register, invite, bye | crossing bye and invite, NAT | both ends agree, voices are heard | `Sip` |
| IPv6 `ipv6.ts`, `dhcp6.ts`, `router6.ts` | addresses, neighbours, routers, prefixes | SLAAC, DAD, RA, ND, delegation | DAD against RA changes, routers that vanish | addresses unique, prefixes the delegated ones | `Ipv6` `Home6` |
| Host `host.ts` | two cards, address settings, dials | choose card, lease, dial over two families | change of card or address under a dial | the best card; what is shown is so | `Laptop` `Dial` |
| Tools `hostdiag.ts`, errors of `l3.ts`, `router.ts`, `internet.ts` | running tool, packets waiting for a next hop | ping, traceroute | tool outlives its reason; who reports what | each tool ends and says the truth | `Diag` |
| Tor `tor.ts` | circuits, queue, flows of the exit | build, rebuild, relay | guard forgets, address changes | answers reach their flow | `Tor` |
| Internet `internet.ts` | answers of the outside | respond | – | – | with the protocols it answers |
| Filters and gadgets `adguard.ts`, `dpi.ts`, `glinet.ts` | rule tables | match | – | – | no |
| Packets, addresses, trace `core/packet.ts`, `addr*.ts`, `trace.ts` | none | parse, format | – | – | as data |
| Lint, status, packet view, examples, UI `model/lint/*`, `status.ts`, `packetView.ts`, `examples/*`, `app/*` | none | pure functions, rendering | – | – | no |

## Modules and their correspondence to the code

The `map` in `PROJECT.json` gives the lines of the sources for each principal
definition: the variables, the handlers and the operators that stand for a
function of the code. A helper whose lines lie within those of the handler that
uses it has no entry of its own.

Each module says at its head what it leaves out. Common to all protocols: a
frame on a cable is a message in a queue or a bag; a timer is a field that is
set, and its firing an action of its own; the operations of the user are actions
that are always enabled while the bound on edits allows it.

### The kernel

**`EventQueue`** – what the scheduler promises: the set of pending events; `Push` adds
one, `Pop` removes the least by time, then priority (actions of an instant after
its other events), then order of arrival. This is the abstract specification.

**`Scheduler`** – the binary heap (`core/scheduler.ts`). `heap` is the array, `seq` the
counter, and `loop` the program counter of a sift that is running: every swap of
`push`'s and `pop`'s loops is one step (`SiftUp`, `SiftDown`), so that the refinement
`Queue == INSTANCE EventQueue` shows at which swap the heap is again the queue it
stands for. The body of the loops is atomic in the program; the steps are there
for the proof.

**`Network`** – the kernel and its controller (`core/network.ts`, `model/simClock.ts`,
`sim.ts`, `netSync.ts`). State: the devices that exist and how often each has been
added (`born`), the plugged cables and how often each was plugged, the two queues
(as sets of pending events, justified by the previous module), the frame
transmissions, `timersOf`, the network's clock `now` and the `shown` time. A *job* is
what the controller is in the middle of: a frame of the animation, a fast-forward,
a settle before an edit, or the removal of a device, whose callbacks and unplugged
cables are steps of their own. What a device does in a callback is any choice of
sends (plain or graceful), timers set (normal or background, with any delay of
`Delays`) and timers cancelled. A property of `Network` thus holds whatever
protocols run on it. Ghost state (the incarnation of a device at the time a timer
was set, the plugging of the cable a frame left on) records what the code cannot see.

**`Editor`** – the drawing and the network it keeps (`model/store.ts`, `netSync.ts`,
`topo/wireless.ts`). `page` is what is looked at (the first drawing, the operations and the
bound on edits), `doc` the drawing with its history and selection, `net` the nodes and
links the simulation has, with the settings last pushed. An edit runs its
synchronisation in the same step, as in the code. A device carries one setting, its
text: `half` is an address not typed to its end, `default` the factory's.

### Links and addresses

**`Stp`** – spanning tree (`stp.ts`, `switch.ts`). Per port the BPDU heard with its age,
and the role; per switch the root it believes in, the topology changes it has seen,
and a MAC table reduced to one station, which sits at the switch `Home` and whose
broadcasts wander through the switch's learning and flooding. `air` is the frames
sent and not yet received, each with the end it is for and when it was sent; all
cables have one latency, so those of one instant arrive at one instant (`Tick`), in
the order sent, and timers of that instant fire after them. The user pulls and plugs
cables, changes priorities and switches the tree off; a frame whose cable was pulled is lost.

**`Lan`** – the boxes that carry frames (`switch.ts` with VLANs and IGMP snooping, `hub.ts`,
`ap.ts`, `routerbridge.ts`, `fwbridge.ts`). One of several small networks (`net`), per box
what it has learnt and who wants which group, the frames in the order sent. The user
moves a cable to a spare port or a port to another VLAN; a host joins and leaves.

**`Arp`** – one segment (`iface.ts`): per station its address, link, running probe, conflict,
cache and the packets that wait. Frames arrive everywhere in the order sent. The user
gives another address, pulls and plugs.

**`Dhcp`** – clients and servers on segments (`dhcp.ts`). A client is its `state`, address, last
address, attempts, chosen server and segment; a server its range, leases, offers and
refused addresses. Each handler is an operator that yields the client or server
afterwards and the messages it sends (`Does`, `Answers`); an action delivers one frame and
applies it. Each transaction id is fresh, so an answer carries only whether it belongs
to the current transaction (`cur`). Answers beat the one-second timeout, so a timer
fires only when none of its client's frames is under way. The user plugs, moves,
renews and removes clients, edits servers and ranges, makes the ISP take an
address back, and loses frames.

**`Ipv6`, `Home6`** – IPv6 on one link (`ipv6.ts`) and at home (`router6.ts`, `dhcp6.ts`). `Ipv6`: per
station its interface (addresses, tentative ones, neighbours and their states, default
routers), frames with those still to receive them, DAD timers in their order. `Home6`:
routers that ask their provider for a prefix, announce it and keep a stateful block,
stations that follow.

### Gateways

**`Ha`** – a pair of gateways (`ha.ts`). A box is its configuration, election state, and
three timers (wait to become master `armed`, watch over the master `watch`, periodic advert
`adv`), counted in thirds of a second. It hangs on an edge switch per interface; the
adverts between the edges travel in order, and each edge keeps the port where it last
saw the virtual MAC (`at`). The user pulls a box's cable or the cable between the
edges, switches the periodic advert, reconfigures a box; adverts may be lost. After a
cable is plugged every master is poked, as netSync does. A cable pulled drops all or
none of the box's adverts on that segment, which is exact for a pair.

**`NatTable`, `Firewall`** – the translation table and the packet filter as operations on a
value (`nat.ts`, `firewall.ts`); no state of their own.

**`Gateways`** – what a gateway does to a packet, alone or in a pair that copies sessions
(`l3.ts`, `nat.ts`, `firewall.ts`, `hasync.ts`): per box its two tables, role, what is queued
for the backup and when all was last copied; the messages of the synchronisation; a clock.
Ghosts: what was let out and with which public port.

**`Publish`** – published ports and hairpin NAT (`publish.ts`): rules, flows, the next proxy port.

**`Mwan`, `Routes`** – two lines to the Internet (`mwan.ts`, `wanline.ts`, `routerroute.ts`). `Mwan`: per
line its cable, address, DHCP, tracking ping and its counts; the line in use; the flows each
line's table knows. `Routes`: addresses and prefixes of the lines, the LAN and the static
routes, which may contain each other, and which of them a packet takes.

**`Lb`** – the load balancer (`lb.ts`), L7 with retries and L4 with its flow table; counts
down in rounds of the health check. A server that does not serve refuses or is silent (`Failed`: the next back end is
asked), or its loss is told (`gone`, `Interrupted`: 502 at once, lb.ts:387). The balancer may lose its IPv4 address or its link
(`home`): requests under way end, those of IPv6 clients with 502, and a new one is answered 502 (lb.ts:323).

### Transport and names

**`Tcp`** – one connection (`tcp.ts`). Two stacks and the set of segments between them: any
segment may be lost when it is sent, and any segment on its way may be the next to
arrive. Each end has the record of the code's `TcpConn`. The actions are the receiving
of a segment (one handler per kind and state), the retransmission and read timers, and
the user's operations: connect, disconnect, reset (the service is switched off), abort
(the host loses its address), an ICMP error, and the pruning of finished connections.
The application is one of the exchanges the code plays: HTTP, HTTPS (a TLS handshake
before the request) and SSH (messages in turn). Sequence numbers count segments, not
bytes. A ghost counts the server's `accepts`, for a late SYN makes a finished server
accept a second time.

**`Relay`** – a connection in two halves (`proxy.ts`, `sshjump.ts`, `tcpsplice.ts`): one client,
one target that answers, refuses, is silent or mute.

**`Dns`, `Ddns`** – resolver, forwarding servers and the owner of a name (`dns.ts`); routers that
register a name (`ddns.ts`). Times are counted in units that keep only their order.

**`Sip`** – phones, their server, a router that rewrites (`sip.ts`, `routersip.ts`): per phone
its registration, its call and its timers; the holes of the router; the voices.

**`Laptop`, `Dial`, `Diag`** – a host with two cards (`host.ts`); its dials (names, filter, proxy, two
families); its tools and the stations that report what they drop (`hostdiag.ts`, `l3.ts`,
`router.ts`, `internet.ts`).

### Routing between sites and tunnels

**`Rip`** (`rip.ts`), **`WireGuard`** (`wg.ts`, `routerwgc.ts`), **`OpenVpn`** (`openvpn.ts`), **`Ipsec`** (`vpn.ts`,
`ike.ts`, `l3tunnel.ts`), **`L2tp`** (`l2tp.ts`), **`RemoteAccess`** (`ravpn.ts`), **`P2p`** (`p2p.ts`), **`Mesh`**
(`tailscale.ts`) and **`Tor`** (`tor.ts`): each the record its ends keep, the messages between them
in order, the handlers, the timers, and the faults: a message lost, an end moved or
restarted, a user who switches it off or on. Session numbers (SPIs, session ids) are drawn
from those in no use; in the code they count up or are random. Messages are faster than timers.

### Compositions

**`MCGateway`, `MCTunnels`, `MCStations`** put these components side by side on small instances:
a behaviour is one of one component (`part`), and the variables of the others rest at 0.
The components do not share state here; where two interact in the code (the address
of a gateway and its sessions, a tunnel's server and DNS), each module has the other's
effects as actions of its environment. The constants of the VPN servers are left open in `MCTunnels`, as the
proofs are about any of them, and given their values by its configurations; those of the others are
definitions. No definition is replaced by a configuration.
## Runs

| Run | Question | Instance | Properties |
|---|---|---|---|
| `scheduler` | Does the heap implement the queue? | two instants, two priorities, six pushes: a heap of three levels, in which both loops swap more than once | `TypeOK` `HeapOrder`, refinement `QueueSpec` |
| `network` | Do clocks, cables, timers and removals keep their promises under any edit? | two devices, one cable, latency 2, delay 4 (half milliseconds), three events created, clocks driven to 2, bursts of one event; device and cable are put back once | `TypeOK` `NoPastEvents` `ScreenInStep` `FrameNeedsItsCable` `TimersStayWithTheirDevice` `ClocksForward` `GracefulArrives` |
| `tcp` | Is data complete, acknowledged honestly, and does every connection end? | HTTP with two segments, HTTPS, SSH with four messages, a closed port; one retry, two segments under way at once, any losses, any order | `TypeOK` `NothingUnaccounted` `ClosedMeansComplete` `SessionAgreed` `ClientEnds` `EverythingSettles` |
| `stp` | Does the tree converge after any two changes? | three switches in a ring, two changes of cables or priorities, one broadcast, MaxAge 2 | `TypeOK` `OneTree` `WayHome` `ComesToRest` |
| `stp_stale` | Do switches give up a vanished root, as stp.ts:11 says? | two cables in a row, tree switched off in the middle | `RootsExist` (violated) |
| `dhcp` | Is an address promised once and used only with a lease? | two clients, two servers in one or two segments, three addresses | `TypeOK` `PromisedOnce` `AddressIsLeased` `Settles` |
| `ha` | Is there one master, and one in the end? | two boxes with two interfaces, two priorities, periodic adverts on or off | `TypeOK` `SomebodyWaits` `OneMaster` `WayToMaster` `Converges` |
| `gateway` | Do connections and answers survive whatever a gateway goes through? | a pair with three packets and one edit; two published ports; two lines with four edits; two back ends; three stations on a segment; two name servers; two routers that want one name | `TypeOK` `ConnectionsGoOn` `RightAnswers` `FailsOnlyAtLast` `ComesToWork` |
| `tunnels` | Do both ends of a tunnel agree, and do tunnels recover? | three routers in a ring; two ends, or two clients and a server with one address to give; each with one fault | `TypeOK` `EndsAgree` `OneAddressEach` `TunnelsRecover` |
| `openvpn_kicked` | Does a client that was thrown out stay out, as openvpn.ts:295 says? | two clients with one certificate | `StaysOut` (violated) |
| `stations` | Is what a station believes of its network so, or mended? | see below | `TypeOK` `NobodyMisled` |
| `editor_moved` | Does a cable follow the end the user moves, as panels.tsx:217 says? | three devices on a page | `CablesFollow` (violated) |

### What the properties say

- **Kernel.** `ScreenInStep`: between two user operations the shown time has
  passed no pending normal event, through jumps, burst stops and
  fast-forward. `FrameNeedsItsCable`: a frame is received only over the same
  plugging it was sent on (the id of a cable pulled and plugged again matches a
  frame of the earlier plugging; the code drops transmissions when it
  unplugs). `TimersStayWithTheirDevice`: a timer fires on the incarnation that
  set it, save timers set *while* it was being removed. `GracefulArrives`: last
  words are lost only if the receiver is gone. `ClocksForward`: merging two
  queues never takes the clock back.
- **TCP.** `NothingUnaccounted`: nothing counts as acknowledged that the other end has
  not received, and every sequence number not acknowledged has a retransmission
  timer, whatever ACKs come in whatever order. `ClosedMeansComplete`: a connection
  reported as a normal end delivered the whole answer. `SessionAgreed`: an SSH
  session the client shows as open has one at the server, or the server's end is over, as long as the server has
  accepted once. `ClientEnds`,
  `EverythingSettles`: retransmission and read timers bring every exchange to an end,
  whatever is lost.
- **Spanning tree.** `OneTree`: at rest, all connected switches agree on the root, and the
  forwarding ports form a tree that spans them; following the learnt address of a
  station from any switch arrives at it (`WayHome`); and information about a dead root
  dies out (`ComesToRest`).
- **DHCP.** `PromisedOnce`: what a server has offered or leased is nobody else's and
  in its range. `AddressIsLeased`: at rest an address in use is leased to its
  user by a server of its own segment. `Settles`: naks, restarts and retries do not
  chase each other.
- **HA.** `SomebodyWaits`: an able backup is counting down, or knows a master and (with
  periodic adverts) watches it. `OneMaster`: at rest two boxes that hear each other are not
  both master. `WayToMaster`: once one master is left, every edge switch leads to
  it. `Converges`: with periodic adverts, exactly the right box is master in the end.
- **Gateways** (each conjunct is a property of one module). `ConnectionsGoOn`: a session that was
  established before the last copy outlives its gateway; a connection through a
  published port is carried until it ends; a flow is never sent over another line than
  the one it was made on, unless that line died; a balanced connection is passed on until it
  ends, unless the balancer had to give it up (its back end left the list, or it was the oldest of a full table in
  which no flow was finished; the history variable `givenUp` holds these).
  `RightAnswers`: an answer reaches its sender or nobody; a proxy port has one user;
  two stations with one address know it, who gave it up takes it back, what waits for a next
  hop gets it; no stale name is answered and every question is answered in time; a name a router
  shows as its own is registered for it. `FailsOnlyAtLast`: the balancer says 502 only
  when no back end is left, or, as `onFinish` and `forward` have it, at once when the connection to the back end was
  broken off in another way than by a refusal or a timeout, and when the balancer has no IPv4 address. `ComesToWork`: the line in use is in the end one that works,
  requests and questions end, an outdated registration is renewed.
- **Tunnels.** `EndsAgree`: routes at rest are the shortest; a packet sent into a WireGuard or
  IPsec tunnel can be opened at the other end if nothing was lost or forgotten; a refused
  laptop is told why; two programs come together, over the relay only if they must; the map of
  a mesh is true. `OneAddressEach`: a VPN server gives no address to two devices, and device
  and server mean the same one. `TunnelsRecover`: with the means the code has, what was lost or forgotten is
  noticed. A WireGuard tunnel carries again what its host keeps sending; an OpenVPN client comes to a session its
  server knows, also when the server forgot the last one without a word (ping-restart); an IPsec end with
  periodic DPD gives up a tunnel the other has forgotten, and what its host keeps sending arrives; laptops of L2TP and
  IKEv2 (with DPD, or as long as their address is still the server's to give) do not stay in a forgotten tunnel. An
  IPsec end without DPD, which is the default of vpn.ts, may keep a dead tunnel until its user asks; the model has
  that setting, and nothing is claimed of it.
- **Stations.** `NobodyMisled`: no address has two holders that use it, a withdrawn prefix is not kept,
  a host keeps no router that said goodbye; a delegated prefix is the provider's; calls end at
  both ends and voices are heard; a frame is heard once, only inside its VLAN, and arrives; the
  host uses its best card and only its own lease; the network is the drawing's, undo and redo
  tell one story; tools end and what they show is so; packets leave by the line they are
  from; answers of the exit reach their flow; a dial goes as shown; no half of a tunnel is left.

### Bounds, and why they are enough

- Kernel: the hazards need a frame or a timer pending over a remove/add or
  an unplug/plug of the same id, and two queues out of step. Two devices, one cable
  and three pending events produce each; the mutants (one per property)
  confirm that a dropped guard is seen within these bounds. The proofs remove
  the bounds.
- TCP: with two segments under way (`MaxFlight`; more are lost) every segment
  can be overtaken by any other; losses are not bounded, so with one retry every
  give-up path is reached at every point. A single connection is enough as
  connections share nothing but the port table.
- Spanning tree: a ring of three is the smallest network in which a dead root's
  information circulates. `MaxAge` is 2 instead of 20: three switches are as many as
  `MaxAge` + 1, beyond which a row of switches falls apart into several trees. Two
  edits let a second change meet the BPDUs of the first.
- DHCP: two clients compete for a pool of two, a second server lets a request be declined
  and a client move to another subnet. Two edits cover loss followed by a change. The safety
  properties were also run by hand with three edits (10,111,956 states, no error).
- HA: an even group of two is what the program offers. Two edits reach split and join,
  or die and return; three edits without loss were run by hand (4,943,255 states, no error).
- Gateways: three packets make a session, copy it and use it after a takeover; one
  published port with two rules and the same port hairpinned collide on the proxy ports
  (two, so that they run out); four WAN edits take a line down, up, and change its settings
  meanwhile; one edit each. The balancer keeps one flow (`FlowLimit`), so a
  second client crowds out the first; which of several goes is the theorem's (any `FlowLimit`) and was run by hand with two flows
  and three clients (60,496 states, no error). One of its clients comes over IPv6, for its connection outlives the
  balancer's IPv4 address; an edit is a new setting, a server that stops (silently, refusing, or so that it is told) or an address lost.
- Tunnels: one fault (`Max*Faults`) is enough for a late answer to meet a new attempt, as
  every step of the protocol can be the one it hits; the server has one address, so that
  every second client competes. `Infinity` 4 instead of 16 is longer than any way round the
  ring; a route that counts up reaches it.
- Stations. `Ipv6`: a host, two routers one of which may take the address the host
  would build, two edits. `Home6`: two customers, `Tries6` 2. `Sip`: one call and one edit. `Lan`: six
  networks, all links of one latency, one frame sent and two edits, of which changes of VLANs and sends
  wait until no frame is under way. `Laptop`: four edits; `AppFollows` excepts a host whose user
  renewed the lease, as `renewDhcp` replaces the address without saying so (see below).
  `Editor`: five pages with three or four edits, `HistoryCap` 2 instead of 100. `Diag`: one host asks, at
  most three hops (`MaxTtl`), ARP entries do not expire within a tool's time, the asking host is not
  replugged with a new lease. `Routes`: four-bit addresses, two edits, all `Destinations`. `Tor`: four scenes;
  a timer fires when nothing is in flight, a port of the exit is not reused while an answer to
  it is. `Dial`: the resolver has no cache; a mesh login is there as soon as an address is.

`CHECK_DEADLOCK FALSE` is set where the system really may stop: all protocols come to rest when
the user has done all the edits the bound allows.

## Fairness

The kernel pops every pending event in order, so a frame on a cable arrives (or
is dropped by an unplug) and a timer that is not cancelled fires as long as the user
lets the clock run. `Tcp` needs the timers only, whatever is lost:
`WF_vars(Timers(e))` for both ends. `Stp`, `Dhcp` and `Ha` assume that *some*
event of the program is processed again and again while any is pending:
`[]<>Rest \/ []<><<Work>>_vars` (`Settled` for `Rest` in `Stp`). This is `WF_vars(Work)`
written without `ENABLED`, as `Work` is enabled until the system rests. No
particular event is preferred: which one is next is the kernel's order, which
the modules leave open within the delays. `MCGateway` and `MCTunnels` ask for the
same of single handlers and timers (`WF` of the receiving of a message per receiver, of each
retry, keepalive or health-check timer), and of a host that keeps sending into a
tunnel. User operations have no fairness, nor have losses and other faults, which are bounded.
Periodic adverts and keepalives are background timers, which fire only while time passes:
the assumption is that the user lets time run. `MCStations` checks safety only.

## Theorems

Proved by TLAPS, in modules of their own, from the `ASSUME`s on the constants
alone (sets finite where needed, delays and latency natural numbers, edits
unbounded or bounded by any number).

`SchedulerProofs`

- `TypeCorrect`, `HeapOrderHolds`: `Spec => []TypeOK`, `Spec => []HeapOrder`. The inductive invariant is
  `TypeOK /\ HeapOrder`, where `TypeOK` says too that sequence numbers are distinct: the order of the
  heap alone is not inductive, since a swap preserves it only if a tie cannot occur,
  and during a loop it holds everywhere but at the cursor, with the
  grandparent still in order with the grandchildren.
- `SchedulerIsQueue`: every step of the heap is a step of `EventQueue` or a stutter.
  What is popped is the least element because the root of an ordered heap
  precedes all others; instead of an induction along the path to the root the
  proof takes the smallest place that would come before the root.

`NetworkProofs`

- `Inductive`: `TypeOK /\ NoPastEvents /\ CableInv /\ TimerInv /\ CallInv /\ JobInv`.
  `CableInv` ties each pending frame that is not graceful to the plugging in
  force, and says that an edit never meets a frame due at that very instant
  (settling has delivered it); `TimerInv` ties each timer to the incarnation of
  its device, unless it was set on the way out; `CallInv` says the same of the
  callbacks still to run; `JobInv` relates the two clocks and the pending events
  at each point of the controller. `ScreenInStep` alone is not inductive: a frame of the animation that
  stops in a burst, or jumps, keeps it only because of what `JobInv` says of the
  job before.
- From it `TypeCorrect`, `NothingInThePast`, `ScreenShowsTheSimulated`,
  `FramesNeedCables`, `TimersAreTheirDevices`, and the action properties
  `ClocksOnlyForward` and `LastWordsArrive`.

`TcpProofs`

- `TypeCorrect`, `NumbersAccounted`, `ClosedIsComplete`, `SessionsAgree`: all of `Tcp`'s invariants, for any
  messages, replies, receivers and bounds. Of a server that a late SYN made accept again `SessionsAgree` claims nothing. The invariant `TInv` says of each segment on its way which
  numbers its sender had counted and received when it left, and of each end what it must keep for
  retransmission until the other has it; the two ends are related through the `accepts` ghost, as a
  server that was accepted anew shares nothing with the one before.

`StpProofs`

- `TypeCorrect`: frames and switches keep their types, and nothing heard is older than `MaxAge`.
- `TreeIsOne`: `Cardinality(Switches) <= MaxAge + 1 => (Spec => []OneTree)`, for any switches, cables, costs,
  priorities and edits. The hypothesis is what the code needs, too: a row of more switches has several
  roots; the run has three switches and `MaxAge` 2, where it holds with equality. The inductive part is
  `Channel` (what a port has heard is what the other end said last, or that is on its way behind
  everything else in the air) and `Answered` (a switch whose information a neighbour's would improve
  has that on its way). At rest nothing is in the air, so both are about neighbours only (`Quiet`, `Near`).
  The rest is an argument about graphs without induction on paths: ages grow along root ports, so they
  fit (`AgesFit`) and neighbours follow one root (`RootSame`); the switch with the least cost among those that
  would not reach the top cannot exist (`ToTheTop`, `OneTop`); and of a cut the two forwarding cables that would
  close a loop below the farthest switch are one (`Below`, `NoSecondWay`).
- `LearntWayHome`: `Cardinality(Switches) <= MaxAge + 1 => (Spec => []WayHome)`. `WayInv` has two faces. While
  no broadcast is under way (`Ready`), what was learnt on a port stands for a cable that no switch
  with an address has lost its port to (`Placed`, `KeptOf`), following it one comes home or to a switch that has
  forgotten (`Leads`), and whoever has forgotten has neighbours that have, too, or still tells them
  (`Spreads`); that needs the topology changes under way to be ones nobody has learnt anything since
  (`Noted`), numbered by their senders (`Counted`). At rest nothing is being told, so all that are connected have
  forgotten or none has (`WayIs`). While a broadcast spreads (`Flooding`) the tree stands: a switch it
  comes to learns the way the sender had, and what it has not reached has it coming (`Spreading`);
  afterwards all that are connected to the station have learnt (`FloodedReady`). It is proved for `Stp` as it
  stands: the station talks at rest, edits wait for its broadcast, and a topology change has a name of its own,
  which in stp.ts:250 is 16 bits of a hash and 16 of a counter.

`DhcpProofs`

- `TypeCorrect`, `AddressesPromisedOnce`: `Spec => []TypeOK`, `Spec => []PromisedOnce`,
  for any clients, servers, segments, ranges, edits and losses. Neither is inductive
  alone: that an ack leases what was offered needs every server's offers to differ
  from each other and from its leases and to lie in its range (`GoodServer`), and
  that a client's address goes with its state needs what it remembers to be what it
  has (`GoodClient`); frames on the way carry the names of the parties.
- `AddressesAreLeased`: `Spec => []AddressIsLeased`. The invariant `LInv` follows a client's current
  transaction: at each moment the request, its answer, or the news that takes the address
  away is on its way, or the lease stands at the server of the client's segment.

`HaProofs`

- `TypeCorrect` and `SomebodyAlwaysWaits`: `Spec => []SomebodyWaits`, for any gateways, interfaces and
  priorities up to `TopPrio`. The invariant `IInv` adds that `ready` says whether a box could
  serve when its links last changed: a box whose links come back is started
  only if `ready` was false, so a stale `ready` would leave it with nothing to wait for.
  Each function of the code is shown to return a sound box (`StartSound`, `ResignSound`, ...),
  and each action changes one box by such a function, or lets no timer become unset.
- `OneMasterHolds` for any number of boxes, `PairFindsItsMaster` for pairs, the only size the
  program has: `MInv` says of two masters that hear each other that an advert of the better one is on its way
  to the other, behind nothing that would outlive it.

`TunnelsProofs`

- `OneAddress`: `Spec => []OneAddressEach`, for the OpenVPN, L2TP and IKEv2 servers of `MCTunnels` with any clients,
  certificates, wrong secrets, pools of positive numbers (`PoolsAssumption`: 0 stands for no address), retries and bounds.
  What was leased once each follows from the way a server picks an address; what needs the
  invariant is that a device that is up means the address its server has for it. The argument is one for the three
  protocols (`LInv`, `AInv`, `OInv`): of one attempt of a client at most one request or answer is under way (`LLine`,
  `ALine`, `OLine`), so between the answer that names the address and its use nothing of that attempt
  changes it; messages of an older attempt carry another number, as a new attempt takes one that nothing
  under way and nothing the server remembers has (`ChosenIs`). What ends a lease at the server either removes the
  session or leaves the answer already sent without a session of its number. With OpenVPN a client
  can have two sessions at the server, of two addresses of its own, and two clients may share a certificate and
  with it a lease: `OGood` says that sessions that are up under one certificate are one.
- `Inv` asks of the part of the model that runs only its own invariant; the other variables stay as they are.

`GatewayProofs`

- `RequestsFailAtLast`: `Spec => FailsOnlyAtLast`, for any backends, lists, times and bounds (`BalancerFacts` is all it uses
  of the instance). The choice is what matters: while somebody is in, the turn comes to one of them, because
  from any `rr`, even one counted in a longer list, a period comes by every place (`EachTurn`, `TurnIs`); and somebody has the
  fewest connections, because they are counted (`ActiveIs`, `ChosenIsIn`). The invariant says that a balancer that
  passes requests on has no flows, and that one that passes connections through has no requests. Two cases are not of this
  kind and are in the statement: without an IPv4 address nothing is chosen, and a connection broken off otherwise ends the request.
- `BalancedGoOn`: `At("lb") => OpenPassed`, and with it `TypeOK`: what both ends take for open and the balancer did not give up
  has a flow that is not yet closed and has seen no end that they have not (`StillPassed`). What is given up is not taken out of what the
  ends take for open: it is added to `givenUp` where a setting drops the back end or `Crowded` names the one flow that may go, so a
  `makeRoom` that dropped any other would contradict the theorem (`MakeRoomIs`). Each handler takes out or changes flows: `SelectedIs`,
  `AmongIs` and `ChangeIs` say which places are kept, in which order.
- `LinesKept`: `At("mwan") => KeepsItsLine`, and with it `TypeOK`. The invariant `OnItsLine` says why: a flow made on a line
  is in the table of that line and not in the other's, so `OutFor` finds it there first.
- `PortsGoOn`: `At("publish") => OnePortEach /\ StillCarried`, and with it `TypeOK`. One user's flows have one port
  each and one key each, no port is in both users' flows (`OnePort`), and a flow carries a connection as long as it has seen
  no end that the two ends have not (`PubCarries`): so it is neither stale nor swept while they go on (`KeptCarries`).

The parts of `MCGateway` share no variable, so the three are invariants of one part each; together they are `ConnectionsGoOn`
but for its first conjunct, `SessionsSurvive` of the gateways. There the copy of a session is a fold over a
set of mappings (`ImportAll`), an induction over data; TLC checks it.

Only model-checked:

- all liveness (`ClientEnds`, `EverythingSettles`, `ComesToRest`, `Settles`, `Converges`, `ComesToWork`,
  `TunnelsRecover`), which is beyond the prover, as is `ENABLED`;
- the other invariants of `MCGateway` and those of `MCStations`, each the conjunction of properties of many components on
  small instances, and of `MCTunnels` its `TypeOK` and `EndsAgree`.

No model needs a RECURSIVE operator, and no proof an induction over data.

## Where code and comments disagree

1. **A vanished root** (`stp_stale`). stp.ts:11 says all gather at a new root.
   Behind a switch without spanning tree a port never hears a withdrawal nor loses its link,
   and nothing expires what it heard.
2. **A client that was thrown out** (`openvpn_kicked`). openvpn.ts:295 says it does not connect
   again, so that two with one certificate do not push each other out for ever. The reconnect
   timer of a restart or of a failed name query set before is not cancelled, and connects it.
3. **A cable end that was moved** (`editor_moved`). panels.tsx:217 says the cable is plugged into the
   new port. The cable keeps its id and netSync compares ids, so the network keeps the old link.

## Observed while modelling

Without a run of their own, or without a text that says otherwise:

- Kernel: network.ts:134 promises that left-over timers are dropped so that an undo does not let
  an old timer fire. `removeNode` cancels them *before* `onRemove` and the unplugging; those callbacks may set
  new ones (RIP's triggered update does), which survive. `TimersStayWithTheirDevice` excepts them.
  simClock.ts:2 says a background timer fires when the clock passes its instant; `advanceClock`
  leaves its loop at the last normal event, and background timers between that and the end of the frame
  wait for the next event or operation.
- TCP: FIN_WAIT_2 has no timeout; a late SYN makes a finished server accept again.
- STP: more than MaxAge + 1 switches in a row elect several roots; after a change of its priority a switch
  forgets what it heard and relies on its neighbours' answers, but a BPDU that is too old is not answered.
- DHCP: offers never expire; a client removed between Discover and Request
  keeps its address reserved. A lease dropped with the range (dhcp.ts:391) stays in use until
  renewal, which is why `AddressIsLeased` excepts `revoked`. `renumber` (dhcp.ts:556-562) does
  not clear a pending offer, so after a lost Ack `pickAddress` (dhcp.ts:586)
  can hand back the address the ISP just took.
- HA without periodic adverts: a silently dead master goes unnoticed (documented at
  ha.ts:15); after a split or join it may happen that nobody is master; an advert overtaken by a
  resignation on another segment ends the backup's wait for good. Sessions queued in the
  instant of resigning are dropped by `hasync`'s flush.
- ARP: in `claim()` a second claim within the probe wait is ended early by the
  first one's timer (iface.ts:282); two hosts that probe at once both give up; a station that probes
  answers for the tentative address.
- IPv6: a router renumbered while its link is down never withdraws the old prefix; a
  home router switched off while the provider's reply is under way keeps no track of it, and after
  the last try the delegation is not asked for again.
- Routes: the longest prefix wins in `mainRoute`, but `wanRouteProblem` drops every destination inside an
  overlapping LAN even if the line's or a static route's prefix is longer; a static route's next hop inside
  the overlapped LAN is not refused as a gateway is. While WAN1 changes its mode it may have no address
  and WAN2 is still not used.
- Lan: the bridge of a router never tells its snooping of a lost link (routerbridge.ts:141); `switch.setIgmp` asks
  a trunk in VLAN 1 only (switch.ts:63); a cable between switches that is replugged loses members;
  loops that mix access and trunk ends deliver twice.
- Host: `happyEyeballs` and the fallback for a vanished IPv6 source ask for the A record without
  the filter's check, so a name blocked meanwhile is dialled at 0.0.0.0 (host.ts:823 says it is not); a dial whose
  IPv4 address vanished while its question was out ends silently; `renewDhcp` (host.ts:927) replaces the
  address without `addressLost`, against host.ts:625-627.
- Tools: a traceroute to a dead address behind a router never shows `!H` (README.md:24 and
  docs/TROUBLESHOOTING.md:84 of the repository say it does): the router's ARP timeout ends after the probe's own.
  Behind a NAT box whose next hop is dead the host never hears.
- SIP: a lost 200 after 180 rings for ever; `setConfig` during a REGISTER sends no unregister (sip.ts:79); a late
  200 revives an ended call.
- Tor: `onWanAddress` rebuilds the circuit even if the address is unchanged; of several cells a forgetful
  guard rejects only the first is sent again; switching off while building leaves a circuit at the guard.
- P2P, mesh, DDNS: a lost netmap is never repeated; DDNS releases its name only from state `ok`; p2p.ts:343.
- Proxy: a half-closed tunnel drops what the target still answers.
- Editor: a router's address half typed and then set to the factory's leaves the node at its old
  address; a cable whose creation failed is recorded and never tried again; `slotTable` never forgets
  (wireless.ts:22 says it does); `beginCoalesce` clears the redo history even if the gesture changes nothing.

## What is not modelled

- In the modelled files: the frame log and trace records of the kernel (nothing
  reads them back), fast-forward's limit of 40,000 events, DHCP relays and per-customer subnets,
  HA's change of group number, addresses in filter rules, cookies and hop limits of the balancer,
  OpenVPN over TCP, subnet routes and exit nodes of a mesh, the SIP hairpin, ICMP over Tor. The head of
  each module names its abstractions; `components` in `PROJECT.json` lists what is left out.
- No module composes the whole home router, or two protocols of which one carries the other. What
  one needs of the other is an assumption of its environment's actions.
- Whole components: content filters and gadgets (rule tables without state), and what has no behaviour
  over time: the UI, formatting, lint, settings' parsers and example data.

## Plan

Done, in this order, since each rests on the one before: `EventQueue` →
`Scheduler` (refines it) → `Network` (uses the queue's promise) → the protocols,
which use the kernel's promise (a frame arrives once or is lost, a timer fires once on its
device): `Tcp`, `Stp`, `Ha`, `Dhcp`, each with its proofs → gateways, tunnels and stations, model-checked side by side.

Next:

1. Proofs for the other parts of `MCGateway`: the translation table first (`TableOK`), then `ConnectionsGoOn`, of which
   `GatewayProofs` has all but the part of the gateways (`SessionsSurvive`).
2. A router composed of its parts: `Mwan` with `Gateways` and `Ddns`.
