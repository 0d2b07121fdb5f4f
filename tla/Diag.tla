--------------------------------- MODULE Diag ---------------------------------
(***************************************************************************)
(* What a host asks about its network: ping, repeated ping and traceroute  *)
(* (nodes/hostdiag.ts), and the stations between it and its target, which  *)
(* pass on, answer, or report what they drop: hosts (host.ts), routers     *)
(* (l3.ts), with or without NAT, a home router (router.ts) and a provider  *)
(* (internet.ts).  An address is a network and the station that has it     *)
(* there; a packet waits until its next hop is resolved (iface.ts for      *)
(* ARP; with IPv6, NDP does the same).  Events happen in the order of      *)
(* their time, those of one time in the order they were set.               *)
(* What a NAT table, a firewall, RIP, a tunnel or a second line does with  *)
(* a packet is in NatTable, Firewall, Rip, the tunnels and Mwan.           *)
(***************************************************************************)
EXTENDS Naturals, Sequences, FiniteSets, SequencesExt, TLC

CONSTANTS
  None,
  Ways,        \* networks, each with what is asked on it
  HopLimit,    \* of a packet that is no probe
  MaxTtl,      \* TRACEROUTE_MAX_HOPS
  RunKeep,     \* PING_RUN_KEEP
  Waits        \* bound: how long before a station stirs

VARIABLES
  way,       \* the network
  pulled,       \* the hosts whose cable was pulled
  events,    \* what is to happen, in order
  known,     \* known[n]: the next hops whose address n resolved
  queue,     \* packets that wait for their next hop
  nat,       \* nat[n]: whose request left by n, for each id
  tools,     \* pings, repeated pings, traceroutes, the one under way and its probes
  answered,  \* history variable: the requests their target answered
  finished,  \* history variable: the repeated pings that were told how they ended
  told       \* commands given, mishaps
diagVars == <<way, pulled, events, known, queue, nat, tools, answered, finished, told>>

Link == 10
Second == 1000      \* ARP_TIMEOUT, NS timeout, PING_INTERVAL, TRACEROUTE_TIMEOUT
PingTimeout == 2000
RoundTrip == 60     \* twice Internet.LATENCY

Stations == DOMAIN way.kind
On(n) == way.nets[n]
At(k, n) == <<k, n>>
Mine(n, a) == a[2] = n /\ a[1] \in On(n)
Home(n) == CHOOSE k \in On(n) : k # way.outside[n]
Me == way.tool
Address == At(Home(Me), Me)
Bare == Me \in pulled     \* its lease went with its cable

NoPacket == [src |-> None, dst |-> None, ttl |-> 0, k |-> "none", id |-> None, seq |-> 0]
Packet(src, dst, ttl, kind, id, seq) == [src |-> src, dst |-> dst, ttl |-> ttl, k |-> kind, id |-> id, seq |-> seq]
Event(at, what, key, p) == [at |-> at, what |-> what, key |-> key, p |-> p]
Now == [events |-> events, known |-> known, queue |-> queue, nat |-> nat, tools |-> tools,
        answered |-> answered, finished |-> finished]

Later(x, d, e) ==
  LET i == Cardinality({j \in DOMAIN x.events : x.events[j].in <= d})
  IN [x EXCEPT !.events = InsertAt(@, i + 1, [in |-> d, at |-> e.at, what |-> e.what, key |-> e.key, p |-> e.p])]
Cancel(x, n, what, key) == [x EXCEPT !.events = SelectSeq(@, LAMBDA e : e.at # n \/ e.what # what \/ e.key # key)]
Timer(x, d, n, what, key) == Later(x, d, Event(n, what, key, NoPacket))

-------------------------------------------------------------------------------
(* An interface (iface.ts) *)
Plugged(n) == n \in Stations /\ n \notin pulled
\* key of what travels: the network
Transmit(x, n, hop, p) ==
  IF Plugged(n) /\ Plugged(hop[2]) /\ hop[1] \in On(hop[2])
  THEN Later(x, Link, Event(hop[2], "packet", <<hop[1], n>>, p)) ELSE x
Ask(x, n, hop) ==
  IF Plugged(n) /\ Plugged(hop[2]) /\ hop[1] \in On(hop[2])
  THEN Later(x, Link, Event(hop[2], "ask", <<hop[1], n>>, NoPacket)) ELSE x
Waiting(x, n, hop) == SelectSeq(x.queue, LAMBDA q : q.at = n /\ q.hop = hop)
Unqueued(x, n, hop) == [x EXCEPT !.queue = SelectSeq(@, LAMBDA q : q.at # n \/ q.hop # hop)]
SendIp(x, n, p, hop) ==
  IF hop \in x.known[n] THEN Transmit(x, n, hop, p)
  ELSE LET y == [x EXCEPT !.queue = Append(@, [at |-> n, hop |-> hop, p |-> p])]
       IN IF Waiting(x, n, hop) = <<>> THEN Timer(Ask(y, n, hop), Second, n, "arp-timeout", hop) ELSE y
\* by the interface's own table: its network, else its gateway
SendOn(x, n, k, p) ==
  IF p.dst[1] = k THEN SendIp(x, n, p, p.dst)
  ELSE IF way.gate[n] # None /\ way.gate[n][1] = k THEN SendIp(x, n, p, way.gate[n]) ELSE x
FlushPending(x, n, hop) ==
  FoldLeft(LAMBDA y, q : Transmit(y, n, hop, q.p), Cancel(Unqueued(x, n, hop), n, "arp-timeout", hop), Waiting(x, n, hop))
HandleAsk(x, n, k, from) ==
  LET y == FlushPending([x EXCEPT !.known[n] = @ \cup {At(k, from)}], n, At(k, from))
  IN IF Plugged(from) THEN Later(y, Link, Event(from, "tell", <<k, n>>, NoPacket)) ELSE y
HandleTell(x, n, k, from) == FlushPending([x EXCEPT !.known[n] = @ \cup {At(k, from)}], n, At(k, from))

IcmpErrorFor(from, p, kind) ==
  IF p.k \in {"request", "reply"} THEN Packet(from, p.src, HopLimit, kind, p.id, p.seq) ELSE NoPacket
Answer(x, p) == [x EXCEPT !.answered = @ \cup {<<p.id, p.seq, p.dst>>}]
ReplyTo(p) == Packet(p.dst, p.src, HopLimit, "reply", p.id, p.seq)

-------------------------------------------------------------------------------
(* A router (l3.ts), for either family *)
Route(n, dst) ==
  LET fit == {i \in DOMAIN way.routes[n] : dst[1] \in way.routes[n][i].to /\ way.routes[n][i].via[1] \in On(n)}
      Longer(i, j) == LET a == Cardinality(way.routes[n][i].to)
                          b == Cardinality(way.routes[n][j].to)
                      IN a < b \/ (a = b /\ i <= j)
  IN IF dst[1] \in On(n) THEN dst
     ELSE IF fit # {} THEN way.routes[n][CHOOSE i \in fit : \A j \in fit : Longer(i, j)].via ELSE way.gate[n]
SendVia(x, n, p) ==
  LET hop == IF p.k = "none" THEN None ELSE Route(n, p.dst) IN IF hop = None THEN x ELSE SendIp(x, n, p, hop)
Nats(n) == way.outside[n] # None
Translate(x, n, p) ==
  [x |-> IF p.k = "request" THEN [x EXCEPT !.nat[n] = (p.id :> p.src) @@ @] ELSE x, p |-> [p EXCEPT !.src = At(way.outside[n], n)]]
Restore(x, n, p) == IF p.id \in DOMAIN x.nat[n] THEN [p EXCEPT !.dst = x.nat[n][p.id]] ELSE NoPacket
\* received: the packet as it came in, before NAT gave it its inner address
Forward(x, n, k, p, received) ==
  LET hop == Route(n, p.dst)
      Report(kind) == SendVia(x, n, IcmpErrorFor(At(k, n), received, kind))
      sent == Translate(x, n, [p EXCEPT !.ttl = @ - 1])
  IN IF p.ttl <= 1 THEN Report("exceeded")
     ELSE IF hop = None \/ (Nats(n) /\ hop[1] = way.outside[n] /\ k = hop[1]) THEN Report("net")
     ELSE IF hop[1] # way.outside[n] THEN SendIp(x, n, [p EXCEPT !.ttl = @ - 1], hop)
     ELSE SendIp(sent.x, n, sent.p, hop)
HandleIp(x, n, k, p) ==
  LET out == Nats(n) /\ k = way.outside[n]
      inner == Restore(x, n, p)
  IN IF out /\ p.dst # At(k, n) THEN x
     ELSE IF Mine(n, p.dst) /\ (out => p.k = "request")
     THEN IF p.k = "request" THEN SendVia(Answer(x, p), n, ReplyTo(p)) ELSE x
     ELSE IF ~out THEN Forward(x, n, k, p, p)
     ELSE IF inner = NoPacket THEN x ELSE Forward(x, n, k, inner, p)
HostUnreachable(x, n, p, hop) ==
  LET back == Route(n, p.src)
      notice == IcmpErrorFor(At(IF back = None THEN hop[1] ELSE back[1], n), p, "host")
  IN IF Mine(n, p.src) \/ notice = NoPacket THEN x
     ELSE IF Nats(n) /\ back # None /\ back[1] = way.outside[n] THEN SendVia(x, n, Translate(x, n, notice).p)
     ELSE SendVia(x, n, notice)

-------------------------------------------------------------------------------
(* The same over IPv6: a router never changes an address, and a host has no    *)
(* neighbour but by the routers it heard of                                     *)
Report6(x, n, k, p, kind) == SendVia(x, n, IcmpErrorFor(At(k, n), p, kind))
Forward6(x, n, k, p) ==
  IF p.ttl <= 1 THEN Report6(x, n, k, p, "exceeded")
  ELSE IF Route(n, p.dst) = None THEN Report6(x, n, k, p, "net")
  ELSE SendIp(x, n, [p EXCEPT !.ttl = @ - 1], Route(n, p.dst))
HandleIp6(x, n, k, p) ==
  IF ~Mine(n, p.dst) THEN Forward6(x, n, k, p)
  ELSE IF p.k = "request" THEN SendVia(Answer(x, p), n, ReplyTo(p)) ELSE x
AddressUnreachable(x, n, p, hop) ==
  LET back == Route(n, p.src)
  IN IF Mine(n, p.src) THEN x ELSE Report6(x, n, IF back = None THEN hop[1] ELSE back[1], p, "host")

-------------------------------------------------------------------------------
(* A home router (router.ts): its LAN, and one line to the outside *)
ForwardToWan(x, n, p) ==
  LET sent == Translate(x, n, [p EXCEPT !.ttl = @ - 1])
      Report(kind) ==
        LET notice == IcmpErrorFor(At(Home(n), n), p, kind) IN IF notice = NoPacket THEN x ELSE SendOn(x, n, Home(n), notice)
  IN IF p.dst[1] = Home(n) THEN x
     ELSE IF p.ttl <= 1 THEN Report("exceeded")
     ELSE IF p.dst[1] # way.outside[n] /\ way.gate[n] = None THEN Report("net")
     ELSE SendOn(sent.x, n, way.outside[n], sent.p)
DeliverLan(x, n, p) ==
  IF ~Mine(n, p.dst) THEN ForwardToWan(x, n, p)
  ELSE IF p.k = "request" THEN SendOn(Answer(x, p), n, Home(n), ReplyTo(p)) ELSE x
HandleWanIp(x, n, p) ==
  LET wan == way.outside[n]
      inner == Restore(x, n, p)
      notice == IcmpErrorFor(At(wan, n), p, "exceeded")
  IN IF p.dst # At(wan, n) THEN x
     ELSE IF p.k = "request" THEN SendOn(Answer(x, p), n, wan, ReplyTo(p))
     ELSE IF p.ttl <= 1 THEN IF notice = NoPacket THEN x ELSE SendOn(x, n, wan, notice)
     ELSE IF inner = NoPacket THEN x ELSE SendOn(x, n, Home(n), [inner EXCEPT !.ttl = @ - 1])

-------------------------------------------------------------------------------
(* The provider (internet.ts): gateway of each customer's network, and all     *)
(* servers beyond                                                              *)
Private(a) == a[1] \in way.private
Leased(a) == a \in way.leased
InIsp(n, a) == a[1] \in On(n)
Gateway(n, a) == At(IF InIsp(n, a) THEN a[1] ELSE CHOOSE k \in On(n) : TRUE, n)
\* nothing leaves for an address that is leased to nobody
IspSend(x, n, p) ==
  IF p.k = "none" \/ ~InIsp(n, p.dst) \/ ~Leased(p.dst) THEN x ELSE SendIp(x, n, p, p.dst)
SourceGuard(n, from, p) == Private(p.src) \/ (Leased(p.src) /\ p.src[2] = from)
IspReport(x, n, p, kind) == IspSend(x, n, IcmpErrorFor(Gateway(n, p.src), p, kind))
ToSubscriber(x, n, p) ==
  IF Private(p.src) THEN x
  ELSE IF ~Leased(p.dst) THEN IspReport(x, n, p, "net")
  ELSE IF p.ttl <= 1 THEN IspReport(x, n, p, "exceeded")
  ELSE IspSend(x, n, [p EXCEPT !.ttl = @ - 1])
IspHandleIp(x, n, from, p) ==
  IF ~SourceGuard(n, from, p) THEN x
  ELSE IF InIsp(n, p.dst) /\ ~Mine(n, p.dst) THEN ToSubscriber(x, n, p)
  ELSE IF Mine(n, p.dst) THEN IF p.k = "request" THEN IspSend(Answer(x, p), n, ReplyTo(p)) ELSE x
  ELSE IF Private(p.dst) \/ Private(p.src) THEN x
  ELSE IF p.ttl <= 1 THEN IspReport(x, n, p, "exceeded")
  ELSE IF p.k = "request" THEN Later(Answer(x, p), RoundTrip, Event(n, "inet-reply", None, ReplyTo(p))) ELSE x

\* over IPv6: each customer has the prefix that was delegated to it
Send6(x, n, p) == SendVia(x, n, p)
IspHandleIp6(x, n, k, p) ==
  IF Mine(n, p.dst) THEN IF p.k = "request" THEN Send6(Answer(x, p), n, ReplyTo(p)) ELSE x
  ELSE IF Route(n, p.src) = None THEN x
  ELSE IF p.ttl <= 1 THEN Report6(x, n, k, p, "exceeded")
  ELSE IF Route(n, p.dst) # None THEN SendIp(x, n, [p EXCEPT !.ttl = @ - 1], Route(n, p.dst))
  ELSE IF p.dst[1] \notin way.public THEN Report6(x, n, k, p, "net")
  ELSE IF p.k = "request" THEN Later(Answer(x, p), RoundTrip, Event(n, "inet-reply6", None, ReplyTo(p))) ELSE x

-------------------------------------------------------------------------------
(* The tools of the host (hostdiag.ts): ping *)
Pending(x, i) == i \in DOMAIN x.tools.pings /\ x.tools.pings[i].status = "pending"
OfRun(x, r) == {i \in DOMAIN x.tools.pings : x.tools.pings[i].run = r}
KeptRun(x, r) == r \in DOMAIN x.tools.runs

CheckRun(x, r) ==
  IF /\ KeptRun(x, r) /\ ~x.tools.runs[r].done /\ x.tools.runs[r].sent = x.tools.runs[r].count
     /\ \A i \in OfRun(x, r) : ~Pending(x, i)
  THEN Timer([x EXCEPT !.tools.runs[r].done = TRUE], 0, Me, "ping-stats", r) ELSE x
PingStats(x, r) ==
  IF ~KeptRun(x, r) THEN x
  ELSE [x EXCEPT !.finished = @ \cup {r},
                 !.tools.runs[r].stats = [sent |-> Cardinality(OfRun(x, r)),
                                          received |-> Cardinality({i \in OfRun(x, r) : x.tools.pings[i].status = "ok"})]]

PingEnds(x, i, status) == [x EXCEPT !.tools.pings[i].status = status]
FinishPing(x, i, status) == CheckRun(Cancel(PingEnds(x, i, status), Me, "ping-timeout", i), x.tools.pings[i].run)

SendRequest(x, i, to) ==
  Timer(SendOn(x, Me, Home(Me), Packet(Address, to, HopLimit, "request", "ping", i)), PingTimeout, Me, "ping-timeout", i)
SendPing(x, i, to) == IF to = Address THEN PingEnds(x, i, "ok") ELSE SendRequest(x, i, to)
SendPing6(x, i, to) ==
  IF to = Address THEN PingEnds(x, i, "ok") ELSE IF Bare THEN PingEnds(x, i, "failed") ELSE SendRequest(x, i, to)
Send(x, i, to) == IF way.fam = 6 THEN SendPing6(x, i, to) ELSE SendPing(x, i, to)

\* what failed at once is not repeated
StopRun(x, r) ==
  IF ~KeptRun(x, r) THEN x ELSE [x EXCEPT !.tools.runs[r].done = TRUE, !.tools.runs[r].stopped = TRUE, !.finished = @ \cup {r}]
NextIn(x, r) == IF x.tools.runs[r].sent < x.tools.runs[r].count THEN Timer(x, Second, Me, "ping-next", r) ELSE x
ContinueRun(x, r, to) == CheckRun(NextIn([x EXCEPT !.tools.runs[r].to = to], r), r)
\* the first request has its address
First(x, i, to) ==
  LET r == x.tools.pings[i].run
      y == Send(x, i, to)
  IN IF ~KeptRun(x, r) THEN y ELSE IF y.tools.pings[i].status = "failed" THEN StopRun(y, r) ELSE ContinueRun(y, r, to)
NoFirst(x, i) == StopRun(PingEnds(x, i, "failed"), x.tools.pings[i].run)

\* only runs that are over make room, the oldest first
Ended(run) == run.stats # None \/ run.stopped
Evict(x) ==
  LET over == {r \in DOMAIN x.tools.runs : Ended(x.tools.runs[r])}
  IN IF Cardinality(DOMAIN x.tools.runs) <= RunKeep \/ over = {} THEN x
     ELSE [x EXCEPT !.tools.runs = [r \in DOMAIN @ \ {Min(over)} |-> @[r]]]
AddRun(x, count) ==
  IF count = 1 THEN x
  ELSE Evict([x EXCEPT !.tools.runSeq = @ + 1,
                       !.tools.runs = (x.tools.runSeq + 1 :> [count |-> count, sent |-> 1, done |-> FALSE, stopped |-> FALSE,
                                                              to |-> None, stats |-> None]) @@ @])
AddPing(x, to, run) == [x EXCEPT !.tools.pings = Append(@, [dst |-> to, run |-> run, status |-> "pending"])]
Ping(x, to, named, count) ==
  LET y == AddRun(x, count)
      z == AddPing(y, to, IF count = 1 THEN None ELSE y.tools.runSeq)
      i == Len(z.tools.pings)
  IN IF Bare THEN NoFirst(z, i) ELSE IF named THEN Timer(z, RoundTrip, Me, "name", <<"ping", i>>) ELSE First(z, i, to)
NextPing(x, r) ==
  IF ~KeptRun(x, r) \/ x.tools.runs[r].done \/ x.tools.runs[r].to = None THEN x
  ELSE LET y == AddPing([x EXCEPT !.tools.runs[r].sent = @ + 1], x.tools.runs[r].to, r)
           i == Len(y.tools.pings)
           z == IF Bare THEN PingEnds(y, i, "failed") ELSE Send(y, i, x.tools.runs[r].to)
       IN CheckRun(NextIn(z, r), r)

-------------------------------------------------------------------------------
(* Traceroute *)
Active(x) == x.tools.active
Probing(x, seq) == Active(x) # None /\ Active(x).seq = seq
Running(x) == {t \in DOMAIN x.tools.traces : x.tools.traces[t].status = "running"}

FailTrace(x, t, why) ==
  LET y == [x EXCEPT !.tools.traces[t].status = why]
  IN IF Active(x) # None /\ Active(x).trace = t
     THEN Cancel([y EXCEPT !.tools.active = None], Me, "tr-timeout", Active(x).seq) ELSE y
CancelTraceroute(x) == FoldLeft(LAMBDA y, t : FailTrace(y, t, "cancelled"), x, SetToSeq(Running(x)))

Probe(a) == Packet(Address, a.to, a.ttl, "request", "trace", a.seq)
SendProbe(x) ==
  LET a == [Active(x) EXCEPT !.ttl = @ + 1, !.seq = x.tools.probes + 1]
  IN Timer(SendOn([x EXCEPT !.tools.active = a, !.tools.probes = @ + 1], Me, Home(Me), Probe(a)), Second, Me, "tr-timeout", a.seq)
Hop(x, from) == [x EXCEPT !.tools.traces[Active(x).trace].hops = Append(@, from)]
NextProbe(x) == IF Active(x).ttl >= MaxTtl THEN FailTrace(x, Active(x).trace, "failed") ELSE SendProbe(x)
OnTime(x) == Cancel(x, Me, "tr-timeout", Active(x).seq)
FinishTrace(x, from) ==
  [Hop(OnTime(x), from) EXCEPT !.tools.traces[Active(x).trace].status = "done", !.tools.active = None]

Begun(x, t, to) == SendProbe([x EXCEPT !.tools.active = [trace |-> t, to |-> to, ttl |-> 0, seq |-> 0]])
Loopback(x, t, to) == [x EXCEPT !.tools.traces[t].hops = <<to>>, !.tools.traces[t].status = "done"]
StartTrace(x, t, to) ==
  IF to = Address THEN Loopback(x, t, to)
  ELSE IF to[1] # Home(Me) /\ way.gate[Me] = None THEN FailTrace(x, t, "failed") ELSE Begun(x, t, to)
StartTrace6(x, t, to) ==
  IF to = Address THEN Loopback(x, t, to)
  ELSE IF Bare \/ (to[1] # Home(Me) /\ way.gate[Me] = None) THEN FailTrace(x, t, "failed") ELSE Begun(x, t, to)
Start(x, t, to) == IF way.fam = 6 THEN StartTrace6(x, t, to) ELSE StartTrace(x, t, to)
Traceroute(x, to, named) ==
  LET y == [CancelTraceroute(x) EXCEPT !.tools.traces = Append(@, [dst |-> to, hops |-> <<>>, status |-> "running"])]
      t == Len(y.tools.traces)
  IN IF Bare THEN FailTrace(y, t, "failed") ELSE IF named THEN Timer(y, RoundTrip, Me, "name", <<"trace", t>>) ELSE Start(y, t, to)

\* the answer to a name, ok unless no server gave one
Named(x, key, ok) ==
  IF key[1] = "ping" THEN IF ok THEN First(x, key[2], x.tools.pings[key[2]].dst) ELSE NoFirst(x, key[2])
  ELSE IF key[2] \notin Running(x) THEN x
  ELSE IF ok THEN Start(x, key[2], x.tools.traces[key[2]].dst) ELSE FailTrace(x, key[2], "failed")

-------------------------------------------------------------------------------
(* What the tools hear *)
FailPending(x, i) == IF Pending(x, i) THEN FinishPing(x, i, "failed") ELSE x
HandleTimeExceeded(x, p) ==
  IF p.id = "ping" THEN FailPending(x, p.seq)
  ELSE IF Probing(x, p.seq) THEN NextProbe(Hop(OnTime(x), p.src)) ELSE x
OnUnreachable(x, p) ==
  IF p.id = "ping" THEN FailPending(x, p.seq)
  ELSE IF Probing(x, p.seq) THEN FailTrace(Hop(x, p.src), Active(x).trace, "failed") ELSE x
EchoReply(x, p) ==
  IF p.id = "trace" THEN IF Probing(x, p.seq) THEN FinishTrace(x, p.src) ELSE x
  ELSE IF Pending(x, p.seq) THEN FinishPing(x, p.seq, "ok") ELSE x
NeighborFailed(x, dropped) ==
  FoldLeft(LAMBDA y, q : CASE q.p.k = "request" /\ q.p.id = "ping" -> FailPending(y, q.p.seq)
                           [] q.p.k = "request" /\ q.p.id = "trace" /\ Probing(y, q.p.seq) -> FailTrace(y, Active(y).trace, "failed")
                           [] OTHER -> y, x, dropped)
TraceTimeout(x, seq) == IF Probing(x, seq) THEN NextProbe(Hop(x, None)) ELSE x

\* a host (host.ts): it passes nothing on
HostHandleIp(x, n, p) ==
  CASE n \in pulled \/ p.dst # At(Home(n), n) -> x
    [] p.k = "request" -> SendOn(Answer(x, p), n, Home(n), ReplyTo(p))
    [] n # Me -> x
    [] p.k = "reply" -> EchoReply(x, p)
    [] p.k = "exceeded" -> HandleTimeExceeded(x, p)
    [] OTHER -> OnUnreachable(x, p)

\* a packet comes in on network k
Receive(x, n, k, from, p) ==
  CASE way.kind[n] = "host" -> HostHandleIp(x, n, p)
    [] way.kind[n] = "l3" -> IF way.fam = 6 THEN HandleIp6(x, n, k, p) ELSE HandleIp(x, n, k, p)
    [] way.kind[n] = "home" -> IF k = way.outside[n] THEN HandleWanIp(x, n, p) ELSE DeliverLan(x, n, p)
    [] OTHER -> IF way.fam = 6 THEN IspHandleIp6(x, n, k, p) ELSE IspHandleIp(x, n, from, p)

\* nobody answered for a next hop: what waited for it is reported or given up
Dropped(x, n, hop) ==
  LET y == Unqueued(x, n, hop)
  IN CASE n = Me -> NeighborFailed(y, Waiting(x, n, hop))
       [] way.kind[n] = "l3" ->
            FoldLeft(LAMBDA z, q : IF way.fam = 6 THEN AddressUnreachable(z, n, q.p, hop) ELSE HostUnreachable(z, n, q.p, hop),
                     y, Waiting(x, n, hop))
       [] OTHER -> y

-------------------------------------------------------------------------------
(* What happens *)
Becomes(x) ==
  /\ events' = x.events /\ known' = x.known /\ queue' = x.queue /\ nat' = x.nat /\ tools' = x.tools
  /\ answered' = x.answered /\ finished' = x.finished

After(d) == [Now EXCEPT !.events = [i \in DOMAIN @ |-> [@[i] EXCEPT !.in = @ - d]]]
Rest == [After(Head(events).in) EXCEPT !.events = Tail(@)]
Fire(x, e) ==
  CASE e.what = "packet" -> Receive(x, e.at, e.key[1], e.key[2], e.p)
    [] e.what = "ask" -> IF Plugged(e.at) THEN HandleAsk(x, e.at, e.key[1], e.key[2]) ELSE x
    [] e.what = "tell" -> IF Plugged(e.at) THEN HandleTell(x, e.at, e.key[1], e.key[2]) ELSE x
    [] e.what = "arp-timeout" -> Dropped(x, e.at, e.key)
    [] e.what = "inet-reply" -> IspSend(x, e.at, e.p)
    [] e.what = "inet-reply6" -> Send6(x, e.at, e.p)
    [] e.what = "ping-next" -> NextPing(x, e.key)
    [] e.what = "ping-stats" -> PingStats(x, e.key)
    [] e.what = "ping-timeout" -> FailPending(x, e.key)
    [] e.what = "tr-timeout" -> TraceTimeout(x, e.key)
    [] OTHER -> Named(x, e.key, TRUE)

Step ==
  /\ events # <<>> /\ Becomes(Fire(Rest, Head(events)))
  /\ UNCHANGED <<way, pulled, told>>

Trouble == told.mishaps < way.mishaps /\ told' = [told EXCEPT !.mishaps = @ + 1]

\* a frame is lost on its cable, or nobody knows the name
Lose ==
  /\ events # <<>> /\ Head(events).what \in {"packet", "ask", "tell"} \cap way.losses
  /\ Trouble /\ Becomes(Rest) /\ UNCHANGED <<way, pulled>>
Unnamed ==
  /\ events # <<>> /\ Head(events).what = "name"
  /\ Trouble /\ Becomes(Named(Rest, Head(events).key, FALSE)) /\ UNCHANGED <<way, pulled>>

\* a cable is pulled for good: the host forgets what waits, ends its traceroutes, and who waits
\* for a name hears that there is none
Hushed(x, n) ==
  [x EXCEPT !.queue = SelectSeq(@, LAMBDA q : q.at # n),
            !.events = SelectSeq(@, LAMBDA e : e.at # n \/ e.what \notin {"arp-timeout", "packet", "ask", "tell", "name"})]
StackDown(x) ==
  LET asking == {events[i].key : i \in {j \in DOMAIN events : events[j].what = "name"}}
  IN FoldLeft(LAMBDA y, key : Named(y, key, FALSE), CancelTraceroute(Hushed(x, Me)), SetToSeq(asking))
Unplug(n) ==
  /\ n \in way.pull \ pulled /\ Trouble
  /\ pulled' = pulled \cup {n}
  /\ Becomes(IF n = Me THEN StackDown(Now) ELSE Hushed(Now, n))
  /\ UNCHANGED way

\* another host pings, after a while
Stir(n, to, wait) ==
  /\ <<n, to>> \in way.stirs /\ n \notin pulled /\ Trouble
  /\ events # <<>> => wait <= Head(events).in
  /\ Becomes(SendOn(After(wait), n, Home(n), Packet(At(Home(n), n), to, HopLimit, "request", "stir", 1)))
  /\ UNCHANGED <<way, pulled>>

Command(ask) ==
  /\ told.commands < way.commands /\ told' = [told EXCEPT !.commands = @ + 1]
  /\ Becomes(IF ask.tool = "ping" THEN Ping(Now, ask.to, ask.named, ask.count) ELSE Traceroute(Now, ask.to, ask.named))
  /\ UNCHANGED <<way, pulled>>

Init ==
  /\ way \in Ways
  /\ pulled = {} /\ events = <<>> /\ queue = <<>> /\ answered = {} /\ finished = {}
  /\ known = [n \in Stations |-> {}]
  /\ nat = [n \in Stations |-> <<>>]
  /\ tools = [pings |-> <<>>, runs |-> <<>>, runSeq |-> 0, traces |-> <<>>, active |-> None, probes |-> 0]
  /\ told = [commands |-> 0, mishaps |-> 0]

Next ==
  \/ Step \/ Lose \/ Unnamed
  \/ \E n \in way.pull : Unplug(n)
  \/ \E s \in way.stirs, wait \in Waits : Stir(s[1], s[2], wait)
  \/ \E ask \in way.asks : Command(ask)

Spec == Init /\ [][Next]_diagVars /\ WF_diagVars(Step)

-------------------------------------------------------------------------------
(* Properties *)

Quiet == events = <<>>
TraceOf(t) == tools.traces[t]

\* The state has the shape the code relies on: one traceroute at most is under way, it is the
\* last one asked for, and its timer is set as long as it is
TypeOK ==
  /\ pulled \subseteq Stations
  /\ \A i \in DOMAIN events : events[i].in \in Nat /\ (i > 1 => events[i - 1].in <= events[i].in)
  /\ \A n \in Stations : \A hop \in known[n] : hop[1] \in On(n)
  /\ Running(Now) \subseteq {Len(tools.traces)}
  /\ tools.active # None => /\ tools.active.trace \in Running(Now)
                            /\ \E i \in DOMAIN events : events[i].what = "tr-timeout" /\ events[i].key = tools.active.seq

\* hostdiag.ts: whatever is asked comes to an end and is told so: no ping waits, no traceroute runs,
\* no repeated ping is without its last line, no packet without its next hop, once nothing is left
\* to happen, whatever was lost, pulled or cancelled
ToolsEnd ==
  Quiet => /\ \A i \in DOMAIN tools.pings : ~Pending(Now, i)
           /\ tools.active = None /\ Running(Now) = {}
           /\ finished = 1 .. tools.runSeq
           /\ queue = <<>>

\* hostdiag.ts: the line of a hop is that station or a star, though answers come late, for a probe
\* that timed out or a traceroute that was cancelled
HopsTrue ==
  \A t \in DOMAIN tools.traces : \A i \in DOMAIN TraceOf(t).hops :
    TraceOf(t).hops[i] \in {None, IF i <= Len(way.path[TraceOf(t).dst]) THEN way.path[TraceOf(t).dst][i] ELSE TraceOf(t).dst}

\* hostdiag.ts: a ping that succeeded was answered, that very request by its target
PingsTrue ==
  \A i \in DOMAIN tools.pings :
    tools.pings[i].status = "ok" => tools.pings[i].dst = Address \/ <<"ping", i, tools.pings[i].dst>> \in answered

\* hostdiag.ts: the last line of a repeated ping counts what was sent and received, once all of it
\* is known; one that did not stop at once has sent as many as was asked
StatsTrue ==
  \A r \in DOMAIN tools.runs : tools.runs[r].stats # None =>
    /\ tools.runs[r].stats = [sent |-> tools.runs[r].count,
                              received |-> Cardinality({i \in OfRun(Now, r) : tools.pings[i].status = "ok"})]

\* l3.ts, router.ts, internet.ts: while nothing goes wrong, whoever can be reached is, and the
\* traceroute shows every station of the way
WayShown ==
  Quiet /\ told.mishaps = 0 =>
    /\ \A i \in DOMAIN tools.pings : tools.pings[i].status = "ok" <=> tools.pings[i].dst \in way.reached
    /\ \A t \in DOMAIN tools.traces : TraceOf(t).status # "cancelled" =>
         IF TraceOf(t).dst \in way.reached
         THEN TraceOf(t).status = "done" /\ TraceOf(t).hops = way.path[TraceOf(t).dst]
         ELSE TraceOf(t).status = "failed"
===============================================================================
