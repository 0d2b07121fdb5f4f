------------------------------ MODULE MCGateway ------------------------------
(***************************************************************************)
(* Gateways, published ports, two lines to the Internet, the load          *)
(* balancer, address resolution and names, side by side: each behaviour is *)
(* one of one component, on a small instance.                              *)
(***************************************************************************)
EXTENDS NatTable, Firewall

\* NAT, filter and session synchronisation
P4(pr, s, sp, d, dp, f) == [proto |-> pr, src |-> s, sport |-> sp, dst |-> d, dport |-> dp, flag |-> f]
Boxes == {1, 2}
OutPackets == {P4("tcp", "a", 1, "x", 1, "syn"), P4("tcp", "b", 1, "x", 1, "syn"),
               P4("tcp", "a", 1, "x", 1, "fin"), P4("tcp", "b", 2, "x", 1, "synack")}
InPackets == {P4("tcp", "x", 1, "public", 3, "fin"), P4("tcp", "y", 1, "public", 2, "syn")}
Types == {"symmetric"}
ForwardLists == {<<[proto |-> "tcp", public |-> 2, lan |-> "b", port |-> 2]>>}
Filters == {[on |-> TRUE, stateful |-> TRUE, default |-> "allow",
             rules |-> <<[action |-> "deny", dir |-> "in", proto |-> Wild, port |-> Wild]>>]}
HoleEnds == {<<"b", 3>>}
MaxRuleFlows == 1
MaxPackets == 3
MaxEdits == 1
MaxNow == 2

\* published ports
CONSTANTS Everywhere, PublishTimeWait
PubRule(p, b, t) == [port |-> p, bind |-> b, to |-> t]
Rules == {{PubRule(1, Everywhere, "s"), PubRule(1, "lan", "t")}, {}}
Users == {"publish", "hairpin"}
Clients == {"c", "d"}
Addrs == {"lan", "wan"}
ProxyPorts == 2
Unanswered == 2
MaxSegments == 4

\* two lines
Flows == {"f", "g"}
RuleOf == [f \in Flows |-> IF f = "f" THEN "wan2" ELSE "none"]
MainOf == [f \in Flows |-> IF f = "g" THEN "wan2" ELSE "none"]
DownAfter == 2
UpAfter == 2
MaxWanEdits == 4

\* load balancer
LbClients == {"c", "d", "six"}
V6Clients == {"six"}
Servers == {"s", "t"}
Pools == {<<"s", "t">>, <<"t">>}
FailRounds == 1
WaitRounds == 1
Fall == 2
Rise == 1
FlowLimit == 1
MaxLbEdits == 1

\* one segment: two stations with one address, and a third one
Stations == {"s", "t", "u"}
ArpAddrs == {1, 2}
Plugged(a) == [ip |-> a, up |-> TRUE]
Unplugged(a) == [ip |-> a, up |-> FALSE]
ArpStarts == {[s |-> Unplugged(1), t |-> Unplugged(1), u |-> Plugged(2)],
              [s |-> Plugged(1), t |-> Unplugged(2), u |-> Plugged(2)]}
MaxArpEdits == 1
MaxArpSends == 1

\* two name servers, one that asks the other, or each the other
Forwarders == {"p", "q"}
Upstreams == {[p |-> "q", q |-> "owner"], [p |-> "q", q |-> "p"]}
Queries == {1}
DnsWait == 2
UpstreamWait == 1
Ttl == 3
MaxHops == 2
MaxDnsFaults == 2

\* dynamic DNS: two routers that want one name, one of them behind another router
DdnsDevices == {"a", "b"}
DdnsNames == {"h"}
Behind == {"b"}
DdnsTries == 2
MaxDdnsEdits == 3
MaxDdnsLosses == 1

VARIABLES
  part,  \* the component this behaviour is of; the variables of the others rest at 0
  gw, pair, wire, cut, now, sessions, safe, packets, edits,
  pub, pubNow, conns, segments,
  mw, line, port, works, carried, made, wanEdits,
  lb, affinity, flows, req, ends, givenUp, serving, gone, home, lbEdits,
  st, arpWire, missed, sought, arpEdits, arpSends,
  zone, servers, host, query, dnsNet, lostOne, dnsFaults,
  dd, ddWan, ddFront, records, updates, results, ddEdits, ddLosses

GVars == <<gw, pair, wire, cut, now, sessions, safe, packets, edits>>
PVars == <<pub, pubNow, conns, segments>>
MVars == <<mw, line, port, works, carried, made, wanEdits>>
LVars == <<lb, affinity, flows, req, ends, givenUp, serving, gone, home, lbEdits>>
AVars == <<st, arpWire, missed, sought, arpEdits, arpSends>>
NVars == <<zone, servers, host, query, dnsNet, lostOne, dnsFaults>>
DVars == <<dd, ddWan, ddFront, records, updates, results, ddEdits, ddLosses>>
vars == <<part, GVars, PVars, MVars, LVars, AVars, NVars, DVars>>

G == INSTANCE Gateways
P == INSTANCE Publish WITH TimeWait <- PublishTimeWait
M == INSTANCE Mwan
L == INSTANCE Lb
A == INSTANCE Arp
N == INSTANCE Dns
D == INSTANCE Ddns

At(p) == part = p

RestG == gw = 0 /\ pair = 0 /\ wire = 0 /\ cut = 0 /\ now = 0 /\ sessions = 0 /\ safe = 0 /\
          packets = 0 /\ edits = 0
RestP == pub = 0 /\ pubNow = 0 /\ conns = 0 /\ segments = 0
RestM == mw = 0 /\ line = 0 /\ port = 0 /\ works = 0 /\ carried = 0 /\ made = 0 /\ wanEdits = 0
RestL == lb = 0 /\ affinity = 0 /\ flows = 0 /\ req = 0 /\ ends = 0 /\ givenUp = 0 /\ serving =
          0 /\ gone = 0 /\ home = 0 /\ lbEdits = 0
RestA == st = 0 /\ arpWire = 0 /\ missed = 0 /\ sought = 0 /\ arpEdits = 0 /\ arpSends = 0
RestN == zone = 0 /\ servers = 0 /\ host = 0 /\ query = 0 /\ dnsNet = 0 /\ lostOne = 0 /\
          dnsFaults = 0
RestD == dd = 0 /\ ddWan = 0 /\ ddFront = 0 /\ records = 0 /\ updates = 0 /\ results = 0 /\
          ddEdits = 0 /\ ddLosses = 0

Init ==
  /\ part \in {"gateway", "publish", "mwan", "lb", "arp", "dns", "ddns"}
  /\ IF At("gateway") THEN G!Init ELSE RestG
  /\ IF At("publish") THEN P!Init ELSE RestP
  /\ IF At("mwan") THEN M!Init ELSE RestM
  /\ IF At("lb") THEN L!Init ELSE RestL
  /\ IF At("arp") THEN A!Init ELSE RestA
  /\ IF At("dns") THEN N!Init ELSE RestN
  /\ IF At("ddns") THEN D!Init ELSE RestD

Next ==
  \/ At("gateway") /\ G!Next /\ UNCHANGED <<part, PVars, MVars, LVars, AVars, NVars, DVars>>
  \/ At("publish") /\ P!Next /\ UNCHANGED <<part, GVars, MVars, LVars, AVars, NVars, DVars>>
  \/ At("mwan") /\ M!Next /\ UNCHANGED <<part, GVars, PVars, LVars, AVars, NVars, DVars>>
  \/ At("lb") /\ L!Next /\ UNCHANGED <<part, GVars, PVars, MVars, AVars, NVars, DVars>>
  \/ At("arp") /\ A!Next /\ UNCHANGED <<part, GVars, PVars, MVars, LVars, NVars, DVars>>
  \/ At("dns") /\ N!Next /\ UNCHANGED <<part, GVars, PVars, MVars, LVars, AVars, DVars>>
  \/ At("ddns") /\ D!Next /\ UNCHANGED <<part, GVars, PVars, MVars, LVars, AVars, NVars>>

Fairness ==
  /\ WF_MVars(At("mwan") /\ M!Tick)
  /\ \A w \in M!Lines : WF_MVars(At("mwan") /\ M!Reply(w))
  /\ \A w \in M!Lines : WF_MVars(At("mwan") /\ \E bound \in BOOLEAN : M!DhcpEnds(w, bound))
  /\ \A c \in LbClients : WF_LVars(At("lb") /\ (L!Served(c) \/ L!Failed(c) \/ L!Interrupted(c)))
  /\ WF_NVars(At("dns") /\ N!Work)
  /\ \A d \in DdnsDevices : WF_DVars(At("ddns") /\ D!Work(d))

Spec == Init /\ [][Next]_vars /\ Fairness

-------------------------------------------------------------------------------
\* The translation table, the tables of the filter, the proxy ports, the state of the lines and
\* the flows of the balancer, the ARP caches and the open questions have the shape the code relies on
TypeOK ==
  /\ At("gateway") => G!TypeOK
  /\ At("publish") => P!TypeOK
  /\ At("mwan") => M!TypeOK
  /\ At("lb") => L!TypeOK
  /\ At("arp") => A!TypeOK
  /\ At("dns") => N!TypeOK
  /\ At("ddns") => D!TypeOK

\* A connection that its two ends take for open goes on: over the gateway that takes over from
\* another, through a published port, over the line it began on, and by the balancer to its backend,
\* but for the ones that the balancer has to give up
ConnectionsGoOn ==
  /\ At("gateway") => G!SessionsSurvive
  /\ At("publish") => P!StillCarried
  /\ At("mwan") => M!KeepsItsLine
  /\ At("lb") => L!OpenPassed

\* What a component is told is right: the answer to a packet reaches its sender or nobody, a proxy
\* port belongs to one connection, two stations that use one address know it, one that gave it up
\* takes it back, what waits for an address gets it, a cached name is not stale and a question gets
\* its answer in time, and a name a router shows as its own is registered for it
RightAnswers ==
  /\ At("gateway") => G!NoStranger
  /\ At("publish") => P!OnePortEach
  /\ At("arp") => A!ConflictsKnown /\ A!TakesBack /\ A!NotInVain
  /\ At("dns") => N!NotStale /\ N!AnswersInTime
  /\ At("ddns") => D!TellsTheTruth

\* A balanced request fails only when no backend is left to try, its connection to the backend was
\* broken off other than by a refusal or a timeout, or the balancer has no address
FailsOnlyAtLast ==
  [][At("lb") => L!Refused502]_vars

\* In the end the line in use is one that works, every balanced request has its answer
\* (unless the balancer loses its address) and every question for a name, and a name under
\* dynamic DNS leads to its router
ComesToWork ==
  /\ <>[](At("mwan") /\ mw.enabled /\ mw.track /\ M!Alive("wan")) => <>[](At("mwan") /\ mw.active = "wan")
  /\ <>[](At("mwan") /\ mw.enabled /\ mw.track /\ mw.member /\ ~M!Alive("wan") /\ M!Alive("wan2"))
       => <>[](At("mwan") /\ mw.active = "wan2")
  /\ \A c \in LbClients : At("lb") /\ req[c].state = "asked" ~> At("lb") /\ L!Answered(c)
  /\ \A i \in Queries : At("dns") /\ query[i].state = "wait" ~> At("dns") /\ query[i].state # "wait"
  /\ \A d \in DdnsDevices : At("ddns") /\ D!Astray(d) ~> At("ddns") /\ ~D!Astray(d)

===============================================================================
