----------------------------- MODULE MCStations -----------------------------
(***************************************************************************)
(* Stations and what they ask of their network, side by side: IPv6 on a    *)
(* link and at home, telephones, the boxes of a local network, a host with *)
(* two cards, its tools, its dials and what it dials by way of a proxy or  *)
(* a jump host, the routes of a router and its circuits through Tor, and   *)
(* the editor that draws them: each behaviour is one of one component, on  *)
(* a small instance.                                                       *)
(***************************************************************************)
EXTENDS Firewall

CONSTANTS None, Trunk

\* a link with IPv6: a host and two routers, one of which has an address the host may build
Hosts6 == {"h"}
Routers6 == {"r", "s"}
Prefixes6 == {"p", "q"}
Set6(on, addrs, announces, dns) == [on |-> on, slaac |-> announces, addrs |-> addrs, ra |-> announces, dns |-> dns, up |-> TRUE]
Settings6 == [n \in {"h", "r", "s"} |->
  CASE n = "h" -> {}
    [] n = "r" -> {Set6(TRUE, {<<"q", "r">>}, TRUE, "none")}
    [] n = "s" -> {Set6(TRUE, {<<"p", "r">>}, TRUE, "d"), Set6(TRUE, {<<"p", "h">>}, FALSE, "d")}]
Starts6 == {[h |-> Set6(TRUE, {}, TRUE, "none"), r |-> Set6(TRUE, {<<"p", "r">>}, TRUE, "d"),
             s |-> Set6(TRUE, {<<"p", "s">>}, TRUE, "d")]}
Talks6 == {<<"outside", "none">>, <<"p", "r">>}
Watch == {TRUE, FALSE}
Rounds == 2
MaxEdits6 == 2

\* IPv6 at home: two customers of one provider
Homes == {"g", "h"}
Tries6 == 2
Pinholes == {<<[action |-> "allow", dir |-> "in", proto |-> "tcp", port |-> 1]>>}
Writes6 == {<<"syn", <<0, "x">>>>, <<"syn", <<1, "guest">>>>}
Peers6 == {<<"synack", "x">>, <<"syn", "y">>}
MaxTroubles == 2
MaxPackets6 == 2

\* two phones, one of them behind a router that may rewrite its address
Phones == {"f", "g"}
Named == [p \in Phones |-> IF p = "f" THEN "x" ELSE "y"]
Names == {"x", "y"}
Public == {"f"}
Packets == 2
MaxSipEdits == 1
MaxCalls == 1

\* a client behind a forward proxy or a jump host
Wants == {"get", "connect", "jump"}
Targets == {"answers", "refuses", "silent", "mute"}
Rules == {"none", "name", "address"}
MaxRelayFaults == 1

\* networks of switches, a hub, an access point, a router and a transparent firewall
Cable(n, p, m, q) == {<<n, p>>, <<m, q>>}
Net(kind, wires, spare, vlans, deny, groups, moves) ==
  [kind |-> kind, cables |-> wires, spare |-> spare, vlan |-> vlans, deny |-> deny, groups |-> groups, edits |-> moves]
\* two switches joined by a trunk, two VLANs
TwoVlans ==
  Net([s |-> "switch", t |-> "switch", a |-> "host", b |-> "host", c |-> "host"],
      {Cable("s", 0, "t", 0), Cable("a", 0, "s", 1), Cable("b", 0, "s", 2), Cable("c", 0, "t", 1)}, {Cable("c", 0, "s", 3)},
      [e \in {"s", "t"} \X (0 .. 3) |-> IF e[2] = 0 THEN Trunk ELSE IF e[2] = 2 THEN 2 ELSE 1], FALSE, {}, {<<"s", 2>>})
\* two viewers behind one port of a switch
BehindHub ==
  Net([s |-> "switch", u |-> "hub", r |-> "router", a |-> "host", b |-> "host", c |-> "host"],
      {Cable("s", 0, "r", 1), Cable("a", 0, "r", 2), Cable("s", 2, "u", 0), Cable("b", 0, "u", 1), Cable("c", 0, "u", 2)},
      {Cable("b", 0, "s", 3)}, [e \in {"s"} \X (0 .. 3) |-> 1], FALSE, {"b", "c"}, {})
\* two stations of an access point, which may move to another slot
OnTheAir ==
  Net([p |-> "ap", r |-> "router", a |-> "host", b |-> "host", c |-> "host"],
      {Cable("p", 0, "r", 1), Cable("a", 0, "r", 2), Cable("b", 0, "p", 1), Cable("c", 0, "p", 2)},
      {Cable("b", 0, "p", 3), Cable("a", 0, "r", 3)}, <<>>, FALSE, {}, {})
\* a loop of two switches and a hub
Ring ==
  Net([s |-> "switch", t |-> "switch", u |-> "hub", a |-> "host", b |-> "host"],
      {Cable("s", 0, "t", 0), Cable("s", 1, "u", 1), Cable("t", 1, "u", 2), Cable("a", 0, "s", 2), Cable("b", 0, "u", 0)},
      {Cable("a", 0, "t", 2)}, [e \in {"s", "t"} \X (0 .. 3) |-> 1], FALSE, {"b"}, {})
\* two VLANs of one switch, joined by a firewall only
Guarded(deny) ==
  Net([s |-> "switch", f |-> "firewall", a |-> "host", b |-> "host"],
      {Cable("s", 1, "f", 0), Cable("s", 2, "f", 1), Cable("a", 0, "s", 3), Cable("b", 0, "s", 0)}, {},
      [e \in {"s"} \X (0 .. 3) |-> IF e[2] \in {0, 2} THEN 2 ELSE 1], deny, {}, {<<"s", 0>>})
Lans == {TwoVlans, BehindHub, OnTheAir, Ring, Guarded(TRUE), Guarded(FALSE)}
MaxHops == 4
MaxFrames == 1
MaxLanEdits == 2

\* a laptop with a wired and a wireless card
MaxAsks == 2
MaxLaptopEdits == 4
MaxAnswers == 4

\* pages of the editor, each with the operations that are looked at on it
Wired == [pc |-> {0}, server |-> {0}, laptop |-> {0}, phone |-> {}, ap |-> {0}, router |-> {1, 2}, switch |-> {0, 1, 2}]
Radio == [pc |-> {}, server |-> {}, laptop |-> {1}, phone |-> {0}, ap |-> {1, 2}, router |-> {3}, switch |-> {}]
Dev(id, kind, place) == [id |-> id, kind |-> kind, text |-> "default", place |-> place, mac |-> id]
Join(id, a, b) == [id |-> <<id>>, ends |-> {a, b}, loss |-> FALSE]
Page(ds, cs, kinds, places, texts, ops, edits) ==
  [drawn |-> [devices |-> ds, cables |-> cs], kinds |-> kinds, places |-> places, texts |-> texts, ops |-> ops, edits |-> edits]
OnASwitch(ops, edits) ==
  Page(<<Dev(1, "switch", 0), Dev(2, "pc", 0), Dev(3, "pc", 0)>>, <<Join(4, <<1, 0>>, <<2, 0>>)>>, {}, {}, {},
       {"connect", "remove", "select", "undo"} \cup ops, edits)
\* phones and a laptop that move between an access point and a router
Roaming ==
  Page(<<Dev(1, "phone", 0), Dev(2, "laptop", 1), Dev(3, "ap", 1), Dev(4, "router", 2), Dev(5, "phone", 1)>>,
       <<Join(6, <<3, 0>>, <<4, 1>>)>>, {}, {0, 3}, {}, {"connect", "move", "remove", "select", "undo", "reload"}, 3)
\* a router and a server whose fields are typed in
Typing ==
  Page(<<Dev(1, "router", 0), Dev(2, "server", 5)>>, <<>>, {}, {}, {"default", "half", "x"},
       {"type", "undo", "reload", "file", "throw"}, 4)
Copying ==
  Page(<<Dev(1, "pc", 0), Dev(2, "switch", 0)>>, <<Join(3, <<1, 0>>, <<2, 0>>)>>, {"pc"}, {0}, {},
       {"add", "paste", "remove", "select", "undo"}, 3)
Drawings == {OnASwitch({"moveEnd", "throw"}, 4), OnASwitch({"loss", "gesture"}, 3), Roaming, Typing, Copying}
WifiRange == 1
HistoryCap == 2
MaxFaults == 1

\* ways from a host to what it asks for
Way(fam, kinds, on, gates, via, outer, tool, paths, alive, asks) ==
  [fam |-> fam, kind |-> kinds, nets |-> on, gate |-> gates, routes |-> via, outside |-> outer, tool |-> tool,
   private |-> {"lan"}, leased |-> {<<"v", "g">>, <<"w", "b">>}, public |-> {"net"}, path |-> paths, reached |-> alive, asks |-> asks,
   commands |-> 2, mishaps |-> 1, losses |-> {}, pull |-> {}, stirs |-> {}]
PingFor(to, count) == [tool |-> "ping", to |-> to, named |-> FALSE, count |-> count]
TraceFor(to) == [tool |-> "trace", to |-> to, named |-> FALSE]
ByName(ask) == [ask EXCEPT !.named = TRUE]
\* two routers in a row; nobody has the address <<"c", "x">>, nowhere is "d"
Chain(fam, asks) ==
  Way(fam, [h |-> "host", r |-> "l3", q |-> "l3", s |-> "host"],
      [h |-> {"a"}, r |-> {"a", "b"}, q |-> {"b", "c"}, s |-> {"c"}],
      [h |-> <<"a", "r">>, r |-> None, q |-> None, s |-> <<"c", "q">>],
      [n \in {"h", "r", "q", "s"} |->
         CASE n = "r" -> <<[to |-> {"c"}, via |-> <<"b", "q">>]>>
           [] n = "q" -> <<[to |-> {"b", "a"}, via |-> <<"b", "x">>], [to |-> {"a"}, via |-> <<"b", "r">>]>>
           [] OTHER -> <<>>],
      [n \in {"h", "r", "q", "s"} |-> None], "h",
      [to \in {<<"c", "s">>, <<"c", "x">>, <<"d", "x">>, <<"a", "h">>, <<"b", "q">>} |->
         CASE to[1] = "d" -> <<<<"a", "r">>, <<"a", "r">>>>
           [] to[1] = "a" -> <<to>>
           [] to[1] = "b" -> <<<<"a", "r">>, to>>
           [] to[2] = "x" -> <<<<"a", "r">>, <<"b", "q">>, <<"b", "q">>>>
           [] OTHER -> <<<<"a", "r">>, <<"b", "q">>, to>>],
      {<<"c", "s">>, <<"a", "h">>, <<"b", "q">>}, asks)
Far == <<"c", "s">>
ChainLoses == [Chain(4, {PingFor(Far, 2), TraceFor(Far)}) EXCEPT !.losses = {"packet", "ask", "tell"}, !.commands = 1]
ChainStirs == [Chain(4, {TraceFor(Far)}) EXCEPT !.losses = {"ask", "tell"}, !.mishaps = 2, !.stirs = {<<"s", <<"a", "h">>>>}, !.commands = 1]
ChainDead == Chain(4, {PingFor(<<"c", "x">>, 1), TraceFor(<<"c", "x">>), TraceFor(<<"d", "x">>), ByName(TraceFor(Far))})
ChainPulled == [Chain(6, {PingFor(Far, 2), TraceFor(Far), ByName(PingFor(Far, 2)), ByName(TraceFor(<<"a", "h">>))})
                  EXCEPT !.pull = {"h", "s"}, !.commands = 1]
ChainRuns == [Chain(4, {PingFor(<<"a", "h">>, 2), PingFor(<<"b", "q">>, 2)}) EXCEPT !.commands = 3, !.mishaps = 0]
\* two routers that send what they do not know to each other
Loop ==
  Way(4, [h |-> "host", r |-> "l3", q |-> "l3"], [h |-> {"a"}, r |-> {"a", "b"}, q |-> {"b"}],
      [h |-> <<"a", "r">>, r |-> <<"b", "q">>, q |-> <<"b", "r">>], [n \in {"h", "r", "q"} |-> <<>>], [n \in {"h", "r", "q"} |-> None], "h",
      [to \in {<<"d", "x">>} |-> <<<<"a", "r">>, <<"b", "q">>, <<"b", "r">>>>], {}, {PingFor(<<"d", "x">>, 1), TraceFor(<<"d", "x">>)})
\* a router with NAT, before one that knows no way to what is inside
Masked ==
  LET to == {<<"c", "s">>, <<"c", "x">>, <<"d", "x">>}
      all == {"h", "r", "q", "s"}
  IN Way(4, [h |-> "host", r |-> "l3", q |-> "l3", s |-> "host"], [h |-> {"a"}, r |-> {"a", "b"}, q |-> {"b", "c"}, s |-> {"c"}],
         [h |-> <<"a", "r">>, r |-> <<"b", "q">>, q |-> None, s |-> <<"c", "q">>], [n \in all |-> <<>>],
         [n \in all |-> IF n = "r" THEN "b" ELSE None], "h",
         [t \in to |-> <<<<"a", "r">>, <<"b", "q">>, IF t = Far THEN t ELSE <<"b", "q">>>>], {Far},
         {PingFor(t, 1) : t \in to} \cup {TraceFor(t) : t \in to})
\* homes at a provider; h and b are hosts, b with an address of its own
AtHome(tool, paths, alive) ==
  LET all == {"h", "g", "i", "b"} IN
  Way(4, [h |-> "host", g |-> "home", i |-> "isp", b |-> "host"], [h |-> {"lan"}, g |-> {"lan", "v"}, i |-> {"v", "w"}, b |-> {"w"}],
      [h |-> <<"lan", "g">>, g |-> <<"v", "i">>, i |-> None, b |-> <<"w", "i">>], [n \in all |-> <<>>],
      [n \in all |-> IF n = "g" THEN "v" ELSE None], tool, paths, alive,
      {PingFor(t, 1) : t \in DOMAIN paths} \cup {TraceFor(t) : t \in DOMAIN paths})
FromHome ==
  AtHome("h", [t \in {<<"net", "x">>, <<"w", "b">>, <<"w", "z">>, <<"v", "g">>} |->
                 CASE t[1] = "v" -> <<t>> [] t[2] = "z" -> <<<<"lan", "g">>, <<"v", "i">>, <<"v", "i">>>>
                   [] OTHER -> <<<<"lan", "g">>, <<"v", "i">>, t>>],
         {<<"net", "x">>, <<"w", "b">>, <<"v", "g">>})
ToHome == AtHome("b", [t \in {<<"v", "g">>, <<"lan", "h">>, <<"w", "i">>} |->
                         IF t[1] = "w" THEN <<t>> ELSE <<<<"w", "i">>, t>>], {<<"v", "g">>, <<"w", "i">>})
\* one that took an address, one whose address is private: the provider lets neither out
Unknown ==
  Way(4, [h |-> "host", i |-> "isp"], [h |-> {"w"}, i |-> {"v", "w"}], [h |-> <<"w", "i">>, i |-> None],
      [n \in {"h", "i"} |-> <<>>], [n \in {"h", "i"} |-> None], "h", [t \in {<<"net", "x">>} |-> <<>>], {},
      {PingFor(<<"net", "x">>, 2), TraceFor(<<"net", "x">>)})
Unmasked ==
  Way(4, [h |-> "host", r |-> "l3", i |-> "isp"], [h |-> {"lan"}, r |-> {"lan", "v"}, i |-> {"v", "w"}],
      [h |-> <<"lan", "r">>, r |-> <<"v", "i">>, i |-> None], [n \in {"h", "r", "i"} |-> <<>>], [n \in {"h", "r", "i"} |-> None], "h",
      [t \in {<<"net", "x">>, <<"w", "b">>} |-> <<<<"lan", "r">>>>], {}, {PingFor(<<"w", "b">>, 2), TraceFor(<<"net", "x">>)})
\* the same over IPv6, with a delegated prefix
Delegated ==
  LET to == {<<"net", "x">>, <<"e", "x">>, <<"w", "i">>, <<"w", "b">>} IN
  Way(6, [h |-> "host", g |-> "l3", i |-> "isp", b |-> "host"], [h |-> {"p"}, g |-> {"p", "v"}, i |-> {"v", "w"}, b |-> {"w"}],
      [h |-> <<"p", "g">>, g |-> <<"v", "i">>, i |-> None, b |-> <<"w", "i">>],
      [n \in {"h", "g", "i", "b"} |-> IF n = "i" THEN <<[to |-> {"p"}, via |-> <<"v", "g">>]>> ELSE <<>>],
      [n \in {"h", "g", "i", "b"} |-> None], "h",
      [t \in to |-> CASE t[2] = "i" -> <<<<"p", "g">>, t>> [] t[1] = "e" -> <<<<"p", "g">>, <<"v", "i">>, <<"v", "i">>>>
                      [] OTHER -> <<<<"p", "g">>, <<"v", "i">>, t>>],
      to \ {<<"e", "x">>}, {PingFor(t, 1) : t \in to} \cup {TraceFor(t) : t \in to})
Ways == {ChainLoses, ChainStirs, ChainDead, ChainPulled, ChainRuns, Loop, Masked, FromHome, ToHome, Unknown, Unmasked, Delegated}
HopLimit == 5
MaxTtl == 3
RunKeep == 1
Waits == {0, 955}

\* a router with two lines, whose networks may overlap with its own; addresses of 4 bits
Bits == 4
Net4(ip, prefix) == [ip |-> ip, prefix |-> prefix]
Lease4(ip, prefix, gateway) == [ip |-> ip, prefix |-> prefix, gateway |-> gateway]
Route4(ip, prefix, via, w) == [ip |-> ip, prefix |-> prefix, via |-> via, iface |-> w]
LanNets == {Net4(1, 2), Net4(1, 1)}
Leases == [w \in {"wan", "wan2"} |->
  IF w = "wan" THEN {Lease4(5, 2, 6), Lease4(2, 3, 3)} ELSE {Lease4(9, 2, 10), Lease4(5, 2, 6), Lease4(9, 2, 1)}]
RouteLists ==
  {<<>>, <<Route4(12, 3, 10, "wan2"), Route4(12, 4, 6, "wan"), Route4(12, 4, 10, "wan2"), Route4(0, 0, 6, "wan")>>,
   <<Route4(14, 4, None, "wan"), Route4(8, 3, 5, "wan")>>, <<Route4(2, 4, 6, "wan")>>}
RulesFor == {[a \in {2, 3} |-> IF a = 3 THEN "wan2" ELSE None]}
Destinations == {2, 3, 7, 8, 12, 14}
RouteFlows == {<<3, 12>>, <<2, 8>>}
MaxRouteEdits == 2

\* two routers that pick the same circuit numbers, one with a second line
FlowsIn == [c \in {"r", "s"} |-> IF c = "r" THEN {"f", "g"} ELSE {"f"}]
AddressesOf == [c \in {"r", "s"} |-> IF c = "r" THEN {1} ELSE {2, 3}]
SecondLine == [c \in {"r", "s"} |-> IF c = "r" THEN 4 ELSE None]
QueueCap == 1
FlowCap == 2
ExitPorts == 3
TorScene(clients, up, edits, packets) == [clients |-> clients, up |-> up, left |-> [edits |-> edits, packets |-> packets]]
TorScenes ==
  {TorScene({"r"}, FALSE, 1, 2), TorScene({"s"}, FALSE, 3, 1), TorScene({"s"}, TRUE, 2, 2), TorScene({"r", "s"}, TRUE, 0, 3)}

\* hosts, by what they have and what their DNS knows; what they are asked to connect to
Host4(v4, byHand, v6, router6, proxy, zone) ==
  [link |-> TRUE, v4 |-> v4, byHand |-> byHand, v6 |-> v6, router6 |-> router6, proxy |-> proxy, blocked |-> FALSE, zone |-> zone]
Zone(a, aaaa) == [qtype \in {"A", "AAAA"} |-> IF qtype = "A" THEN a ELSE aaaa]
Hosts4 ==
  {Host4(TRUE, byHand, v6, TRUE, FALSE, Zone("ok", "ok")) : byHand, v6 \in BOOLEAN}
  \cup {Host4(TRUE, TRUE, FALSE, FALSE, TRUE, Zone("ok", "nodata")), Host4(TRUE, FALSE, TRUE, FALSE, FALSE, Zone("ok", "ok")),
        Host4(TRUE, FALSE, TRUE, TRUE, FALSE, Zone("ok", "nodata")), Host4(TRUE, TRUE, TRUE, TRUE, TRUE, Zone("nodata", "ok")),
        Host4(FALSE, FALSE, TRUE, TRUE, FALSE, Zone("nx", "nx"))}
Wish(kind, port, jump) == [kind |-> kind, port |-> port, jump |-> jump]
Wishes ==
  {Wish(kind, 80, None) : kind \in {"v4", "v6", "multicast", "mine", "name", "magic", "bad"}} \cup {Wish("name", 22, None)}
  \cup {Wish("name", 22, jump) : jump \in {"v4", "v6", "name", "magic"}} \cup {Wish("v6", 22, "v4")}
MaxDials == 1
MaxDialEdits == 2

VARIABLES
  part,  \* the component this behaviour is of; the variables of the others rest at 0
  if6, dads, link6, nud, vanished, lost6, sent6, edits6,
  homes, isp6, pdWire, guests, asked6, gotIn, lost, troubles, written,
  phone, users, through, signals, sipLost, sipEdits, dialled,
  lan, cables, vlan, bridge, frames, host, sent, regrouped, lanEdits,
  card, ipStack, dhcp, asked, answers, probes, service, renewed, granted, laptopEdits, given,
  page, topology, history, selection, net, synced, slotTable, file, count, saga,
  way, pulled, events, known, queue, nat, tools, answered, finished, told,
  home, wanNet, multi, routes, carries, routeEdits,
  tor, lineOf, natted, toGuard, fromGuard, guard, torExit, replies, handed, arrived, excused,
  torAnswers, torLeft,
  me, dials, questions, conns, noted, dialEdits,
  want, target, rule, conn, inbox, cut, app, stage, heard, log, relayFaults

VVars == <<if6, dads, link6, nud, vanished, lost6, sent6, edits6>>
HVars == <<homes, isp6, pdWire, guests, asked6, gotIn, lost, troubles, written>>
SVars == <<phone, users, through, signals, sipLost, sipEdits, dialled>>
LVars == <<lan, cables, vlan, bridge, frames, host, sent, regrouped, lanEdits>>
TVars == <<card, ipStack, dhcp, asked, answers, probes, service, renewed, granted, laptopEdits,
           given>>
EVars == <<page, topology, history, selection, net, synced, slotTable, file, count, saga>>
DVars == <<way, pulled, events, known, queue, nat, tools, answered, finished, told>>
WVars == <<home, wanNet, multi, routes, carries, routeEdits>>
OVars == <<tor, lineOf, natted, toGuard, fromGuard, guard, torExit, replies, handed, arrived,
           excused, torAnswers, torLeft>>
CVars == <<me, dials, questions, conns, noted, dialEdits>>
RVars == <<want, target, rule, conn, inbox, cut, app, stage, heard, log, relayFaults>>
vars == <<part, VVars, HVars, SVars, LVars, TVars, EVars, DVars, WVars, OVars, CVars, RVars>>

V == INSTANCE Ipv6
H == INSTANCE Home6
S == INSTANCE Sip
L == INSTANCE Lan
T == INSTANCE Laptop WITH Addresses <- {1, 2}, Fixed <- {3}
E == INSTANCE Editor
D == INSTANCE Diag
W == INSTANCE Routes WITH lan <- home, net <- wanNet
O == INSTANCE Tor WITH exit <- torExit, answered <- torAnswers
C == INSTANCE Dial
R == INSTANCE Relay

At(p) == part = p

RestV == if6 = 0 /\ dads = 0 /\ link6 = 0 /\ nud = 0 /\ vanished = 0 /\ lost6 = 0 /\ sent6 = 0
          /\ edits6 = 0
RestH == homes = 0 /\ isp6 = 0 /\ pdWire = 0 /\ guests = 0 /\ asked6 = 0 /\ gotIn = 0 /\ lost =
          0 /\ troubles = 0 /\ written = 0
RestS == phone = 0 /\ users = 0 /\ through = 0 /\ signals = 0 /\ sipLost = 0 /\ sipEdits = 0 /\
          dialled = 0
RestL == lan = 0 /\ cables = 0 /\ vlan = 0 /\ bridge = 0 /\ frames = 0 /\ host = 0 /\ sent = 0
          /\ regrouped = 0 /\ lanEdits = 0
RestT == card = 0 /\ ipStack = 0 /\ dhcp = 0 /\ asked = 0 /\ answers = 0 /\ probes = 0 /\
          service = 0 /\ renewed = 0 /\ granted = 0 /\ laptopEdits = 0 /\ given = 0
RestE == page = 0 /\ topology = 0 /\ history = 0 /\ selection = 0 /\ net = 0 /\ synced = 0 /\
          slotTable = 0 /\ file = 0 /\ count = 0 /\ saga = 0
RestD == way = 0 /\ pulled = 0 /\ events = 0 /\ known = 0 /\ queue = 0 /\ nat = 0 /\ tools = 0
          /\ answered = 0 /\ finished = 0 /\ told = 0
RestW == home = 0 /\ wanNet = 0 /\ multi = 0 /\ routes = 0 /\ carries = 0 /\ routeEdits = 0
RestO == tor = 0 /\ lineOf = 0 /\ natted = 0 /\ toGuard = 0 /\ fromGuard = 0 /\ guard = 0 /\
          torExit = 0 /\ replies = 0 /\ handed = 0 /\ arrived = 0 /\ excused = 0 /\ torAnswers =
          0 /\ torLeft = 0
RestC == me = 0 /\ dials = 0 /\ questions = 0 /\ conns = 0 /\ noted = 0 /\ dialEdits = 0
RestR == want = 0 /\ target = 0 /\ rule = 0 /\ conn = 0 /\ inbox = 0 /\ cut = 0 /\ app = 0 /\
          stage = 0 /\ heard = 0 /\ log = 0 /\ relayFaults = 0

Init ==
  /\ part \in {"ipv6", "home6", "sip", "lan", "laptop", "editor", "diag", "routes", "tor",
                "dial", "relay"}
  /\ IF At("ipv6") THEN V!Init ELSE RestV
  /\ IF At("home6") THEN H!Init ELSE RestH
  /\ IF At("sip") THEN S!Init ELSE RestS
  /\ IF At("lan") THEN L!Init ELSE RestL
  /\ IF At("laptop") THEN T!Init ELSE RestT
  /\ IF At("editor") THEN E!Init ELSE RestE
  /\ IF At("diag") THEN D!Init ELSE RestD
  /\ IF At("routes") THEN W!Init ELSE RestW
  /\ IF At("tor") THEN O!Init ELSE RestO
  /\ IF At("dial") THEN C!Init ELSE RestC
  /\ IF At("relay") THEN R!Init ELSE RestR

Next ==
  \/ At("ipv6") /\ V!Next /\ UNCHANGED <<part, HVars, SVars, LVars, TVars, EVars, DVars, WVars, OVars,
                              CVars, RVars>>
  \/ At("home6") /\ H!Next /\ UNCHANGED <<part, VVars, SVars, LVars, TVars, EVars, DVars, WVars, OVars,
                              CVars, RVars>>
  \/ At("sip") /\ S!Next /\ UNCHANGED <<part, VVars, HVars, LVars, TVars, EVars, DVars, WVars, OVars,
                              CVars, RVars>>
  \/ At("lan") /\ L!Next /\ UNCHANGED <<part, VVars, HVars, SVars, TVars, EVars, DVars, WVars, OVars,
                              CVars, RVars>>
  \/ At("laptop") /\ T!Next /\ UNCHANGED <<part, VVars, HVars, SVars, LVars, EVars, DVars, WVars, OVars,
                              CVars, RVars>>
  \/ At("editor") /\ E!Next /\ UNCHANGED <<part, VVars, HVars, SVars, LVars, TVars, DVars, WVars, OVars,
                              CVars, RVars>>
  \/ At("diag") /\ D!Next /\ UNCHANGED <<part, VVars, HVars, SVars, LVars, TVars, EVars, WVars, OVars,
                              CVars, RVars>>
  \/ At("routes") /\ W!Next /\ UNCHANGED <<part, VVars, HVars, SVars, LVars, TVars, EVars, DVars, OVars,
                              CVars, RVars>>
  \/ At("tor") /\ O!Next /\ UNCHANGED <<part, VVars, HVars, SVars, LVars, TVars, EVars, DVars, WVars,
                              CVars, RVars>>
  \/ At("dial") /\ C!Next /\ UNCHANGED <<part, VVars, HVars, SVars, LVars, TVars, EVars, DVars, WVars,
                              OVars, RVars>>
  \/ At("relay") /\ R!Next /\ UNCHANGED <<part, VVars, HVars, SVars, LVars, TVars, EVars, DVars, WVars,
                              OVars, CVars>>

Spec == Init /\ [][Next]_vars

-------------------------------------------------------------------------------
\* The state of each component has the shape the code relies on
TypeOK ==
  /\ At("ipv6") => V!TypeOK
  /\ At("home6") => H!TypeOK
  /\ At("sip") => S!TypeOK
  /\ At("lan") => L!TypeOK
  /\ At("laptop") => T!TypeOK
  /\ At("editor") => E!TypeOK
  /\ At("diag") => D!TypeOK
  /\ At("routes") => W!TypeOK
  /\ At("tor") => O!TypeOK
  /\ At("dial") => C!TypeOK
  /\ At("relay") => R!TypeOK

\* What a station believes of its network is so, or mended: addresses, prefixes and delegations are the ones
\* that are given, calls end at both ends, frames reach whom they are for once, routes, circuits and dials lead
\* where they should, no half of a tunnel is left, and the simulation is the one the editor draws
NobodyMisled ==
  /\ At("ipv6") => V!NoTwoHolders /\ V!NobodyMisled /\ V!NothingStale /\ V!Founded
                     /\ V!WayOut
  /\ At("home6") => H!OnlyDelegated /\ H!GuestsFollow /\ H!Connected6 /\ H!Uninvited
  /\ At("sip") => S!CallsEnd /\ S!VoicesHeard /\ S!KnownByName
  /\ At("lan") => L!HeardOnce /\ L!HeardInside /\ L!Arrives
  /\ At("laptop") => T!BestCard /\ T!OwnLease /\ T!AppFollows
  /\ At("editor") => E!InStep /\ E!StoryKept /\ E!SelectionDrawn /\ E!NoDoubles
  /\ At("diag") => D!ToolsEnd /\ D!HopsTrue /\ D!PingsTrue /\ D!StatsTrue /\ D!WayShown
  /\ At("routes") => W!FromItsLine /\ W!OutIsOut /\ W!RoutesWork
  /\ At("tor") => O!OwnAnswers /\ O!NothingForgotten /\ O!WayUp
  /\ At("dial") => C!Shown /\ C!OneAtATime /\ C!V6First /\ C!AsTold
  /\ At("relay") => R!NothingLeft /\ R!TunnelIntact

\* The editor alone, on the page on which ends of cables are moved
EditorSpec ==
  At("editor") /\ Init /\ "moveEnd" \in page.ops /\ [][Next]_vars

\* sim.ts: "keeps the drawing being edited in step with the live simulation at all times": a cable
\* joins in the network the ports it joins in the drawing
CablesFollow ==
  At("editor") => E!CablesFollow

===============================================================================
