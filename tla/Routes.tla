-------------------------------- MODULE Routes --------------------------------
(***************************************************************************)
(* The ways a router with two lines knows (nodes/routerroute.ts): networks *)
(* it is connected to, static routes, default routes, and which of them a  *)
(* packet takes, passed on or its own.  An address is a number of few      *)
(* bits, a network an address and the length of its prefix, so that the    *)
(* networks of lines, LAN and routes may contain each other.               *)
(* How a line is found dead is in Mwan; here it is a step of its own.      *)
(***************************************************************************)
EXTENDS Naturals, Sequences, SequencesExt, FiniteSets

CONSTANTS
  None,
  Bits,        \* of an address (32)
  LanNets,     \* what the LAN may be: addresses with a prefix
  Leases,      \* Leases[w]: addresses line w may be given, each with a prefix and a gateway
  RouteLists,  \* lists of static routes
  RulesFor,    \* what policy rules say: functions from sources to a line or None
  Destinations,  \* what the router may be asked for
  RouteFlows,  \* source and destination of what hosts of the LAN send
  MaxRouteEdits   \* bound

VARIABLES
  lan,       \* address and prefix inside
  net,       \* net[w]: cable, mode, address, prefix, gateway and DHCP client of line w, and its life
  multi,     \* multi-WAN: on, member (WAN2 may carry the default route), active, rule
  routes,    \* static routes
  carries,   \* carries[w]: the flows the translation table of line w knows
  routeEdits
routeVars == <<lan, net, multi, routes, carries, routeEdits>>

Lines == {"wan", "wan2"}
Addresses == 0 .. 2 ^ Bits - 1
SameSubnet(a, b, prefix) == a \div 2 ^ (Bits - prefix) = b \div 2 ^ (Bits - prefix)
In(a, i) == i.ip # None /\ SameSubnet(a, i.ip, i.prefix)
Wan2On == multi.on
\* WAN2 has no address while its port is one of the LAN
Ip(w) == net[w].ip

-------------------------------------------------------------------------------
(* The main table *)
\* the line a static route leaves by, if it has an address
RouteIface(r) == IF r.iface = "wan2" /\ ~Wan2On THEN None ELSE IF Ip(r.iface) = None THEN None ELSE r.iface
\* an entry: whether it is used, its network, the line, None if it is the LAN, and its next hop
Entry(used, ip, prefix, line, via) == [used |-> used, ip |-> ip, prefix |-> prefix, line |-> line, via |-> via]
Connected ==
  <<Entry(lan.ip # None, lan.ip, lan.prefix, None, None),
    Entry(Ip("wan") # None, Ip("wan"), net["wan"].prefix, "wan", None),
    Entry(Wan2On /\ Ip("wan2") # None, Ip("wan2"), net["wan2"].prefix, "wan2", None)>>
RouteEntry(r, dst) ==
  LET w == RouteIface(r) IN
  Entry(r.prefix # 0 /\ w # None /\ (r.via # None => In(r.via, net[w]) /\ r.via # Ip(w)),
        r.ip, r.prefix, r.iface, IF r.via = None THEN dst ELSE r.via)
\* entries are offered in order, a longer one takes the place of a shorter one
Best(dst, entries) ==
  FoldLeft(LAMBDA best, e : IF e.used /\ SameSubnet(dst, e.ip, e.prefix) /\ (best = None \/ e.prefix > best.prefix) THEN e ELSE best,
           None, entries)
MainRoute(dst) ==
  LET best == Best(dst, Connected \o [i \in DOMAIN routes |-> RouteEntry(routes[i], dst)])
  IN IF best = None \/ best.line = None THEN None ELSE best
ViaOn(r, w) == IF r # None /\ r.line = w THEN r.via ELSE None
StaticVia(dst, w) == ViaOn(MainRoute(dst), w)
ToLan(dst) == In(dst, lan) /\ MainRoute(dst) = None
\* routeRows: why a static route is shown as unused
WhyUnused(r) ==
  CASE r.prefix = 0 -> "default"
    [] r.prefix # 0 /\ r.iface = "wan2" /\ ~Wan2On -> "no WAN2"
    [] OTHER -> IF Ip(r.iface) = None THEN "no address" ELSE IF r.via = None THEN ""
                ELSE IF r.via = Ip(r.iface) THEN "mine" ELSE IF ~In(r.via, net[r.iface]) THEN "out of reach" ELSE ""

-------------------------------------------------------------------------------
(* Default routes *)
Usable(w) == net[w].online /\ (w = "wan2" => multi.member)
Out == IF Wan2On /\ multi.active = "wan2" THEN "wan2" ELSE "wan"
OverlapsLan(w) ==
  Ip(w) # None /\ lan.ip # None
    /\ SameSubnet(Ip(w), lan.ip, IF net[w].prefix < lan.prefix THEN net[w].prefix ELSE lan.prefix)
DefaultRouteProblem(w) ==
  LET gw == net[w].gateway
  IN Ip(w) # None /\ gw # None /\ lan.ip # None /\ (gw \in {lan.ip, Ip("wan"), Ip("wan2")} \/ In(gw, lan))
WanRouteProblem(w, dst) ==
  /\ Ip(w) # None /\ lan.ip # None
  /\ \/ OverlapsLan(w) /\ In(dst, lan)
     \/ ~In(dst, net[w]) /\ StaticVia(dst, w) = None /\ DefaultRouteProblem(w)

\* NetInterface.sendIp of a line, by way of its outbound hook: where the packet goes
Dropped == [line |-> None, hop |-> None]
First(a, b) == IF a # None THEN a ELSE b
NextHop(w, dst, via) ==
  IF via = None /\ In(dst, net[w]) THEN dst ELSE First(via, First(StaticVia(dst, w), net[w].gateway))
NoRouteOut(w, dst) == WanRouteProblem(w, dst)
Toward(w, hop) == IF hop = None THEN Dropped ELSE [line |-> w, hop |-> hop]
SendIp(w, dst, via) ==
  IF NoRouteOut(w, dst) \/ Ip(w) = None THEN Dropped ELSE Toward(w, NextHop(w, dst, via))
\* without a default route, WAN2 leaves to WAN1 what it has no other route for
Wan2NoDefault(dst) ==
  /\ Wan2On /\ ~multi.member /\ Ip("wan2") # None /\ ~In(dst, net["wan2"])
  /\ LET r == MainRoute(dst) IN r = None \/ r.line # "wan2"
Emit(w, dst, via) ==
  LET passed == w = "wan2" /\ Wan2NoDefault(dst)
  IN SendIp(IF passed THEN "wan" ELSE w, dst, IF passed THEN None ELSE via)

-------------------------------------------------------------------------------
(* What hosts of the LAN send: a flow keeps a line that lives; then the main   *)
(* table, then the policy rule, then the line in use                           *)
OtherLine(w) == IF w = "wan" THEN "wan2" ELSE "wan"
Taken(w, main) == [line |-> w, main |-> main]
OutFor(f) ==
  LET main == MainRoute(f[2])
      Keeps(w) == Wan2On /\ f \in carries[w] /\ Usable(w) /\ (main = None \/ main.line # w)
      rule == multi.rule[f[1]]
  IN CASE Keeps(Out) -> Taken(Out, None)
       [] ~Keeps(Out) /\ Keeps(OtherLine(Out)) -> Taken(OtherLine(Out), None)
       [] OTHER -> IF main # None THEN Taken(main.line, main)
                   ELSE IF Wan2On /\ f \notin carries[Out] /\ rule # None /\ Usable(rule) THEN Taken(rule, None)
                   ELSE Taken(Out, None)
\* ForwardToWan: "no route" is told, not just dropped
Forwarded(f) ==
  LET o == OutFor(f)
  IN IF ToLan(f[2]) \/ Ip(o.line) = None \/ WanRouteProblem(o.line, f[2]) THEN Dropped
     ELSE Emit(o.line, f[2], IF o.main = None THEN None ELSE o.main.via)

(* What the router itself sends *)
StickySource(local) ==
  Wan2On /\ \E w \in Lines : local = Ip(w) /\ net[w].ip # None /\ net[w].link /\ Usable(w)
SourceBy(r) == IF r = None THEN None ELSE Ip(r.line)
MainSource(dst) == SourceBy(MainRoute(dst))
OwnSource(dst, local) ==
  IF StickySource(local) THEN local
  ELSE First(MainSource(dst), IF net[Out].link THEN Ip(Out) ELSE None)
LineOf(src) ==
  IF ~Wan2On \/ Ip("wan") = Ip("wan2") THEN Out
  ELSE IF src = Ip("wan2") THEN "wan2" ELSE IF src = Ip("wan") THEN "wan" ELSE Out
SendMain(r, src, dst) ==
  IF r # None /\ src = SourceBy(r) THEN Emit(r.line, dst, r.via) ELSE Emit(LineOf(src), dst, None)
SendOwn(src, dst) ==
  IF ToLan(dst) THEN [line |-> "lan", hop |-> dst] ELSE SendMain(MainRoute(dst), src, dst)

-------------------------------------------------------------------------------
(* What changes *)
Ready(n, on, w) == n[w].link /\ n[w].ip # None /\ (w = "wan2" => on)
Waiting(n) == n["wan"].link /\ n["wan"].ip = None /\ n["wan"].mode = "dhcp" /\ n["wan"].client = "asking"
\* MultiWan.onLine and decide; a line the pings found dead waits for them
OnLine(m, n, w) ==
  IF ~m.on THEN n
  ELSE [n EXCEPT ![w].online = Ready(n, TRUE, w) /\ (@ \/ ~n[w].dead), ![w].dead = @ /\ ~n[w].online]
Decide(m, n) ==
  IF ~m.on THEN [m EXCEPT !.active = "wan"]
  ELSE [m EXCEPT !.active = IF n["wan"].online \/ (@ = "wan" /\ Waiting(n)) \/ ~n["wan2"].online \/ ~m.member THEN "wan" ELSE "wan2"]
Becomes(m, n, w) == net' = OnLine(m, n, w) /\ multi' = Decide(m, net')
Edit == routeEdits < MaxRouteEdits /\ routeEdits' = routeEdits + 1
Has(q, l) == [q EXCEPT !.ip = l.ip, !.prefix = l.prefix, !.gateway = l.gateway, !.client = "idle"]
NoAddress(q) == [q EXCEPT !.ip = None, !.prefix = Bits, !.gateway = None, !.client = "idle"]
Started(q) == IF q.mode = "dhcp" /\ q.link THEN [q EXCEPT !.client = "asking"] ELSE q
Serves(w) == w = "wan2" => Wan2On

\* the DHCP client of a line got an address, the same or another, or gave up
Bound(w, l) ==
  /\ Serves(w) /\ net[w].link /\ net[w].mode = "dhcp" /\ (net[w].client = "asking" \/ (net[w].ip # None /\ Edit))
  /\ Becomes(multi, [net EXCEPT ![w] = Has(@, l)], w)
  /\ (net[w].client = "asking" => UNCHANGED routeEdits) /\ UNCHANGED <<lan, routes, carries>>
GaveUp(w) ==
  /\ net[w].client = "asking" /\ Becomes(multi, [net EXCEPT ![w].client = "failed"], w)
  /\ UNCHANGED <<lan, routes, carries, routeEdits>>
OnLink(w) ==
  /\ Edit
  /\ LET q == [net[w] EXCEPT !.link = ~@]
         n == [net EXCEPT ![w] = IF q.link THEN Started(q) ELSE IF q.mode = "dhcp" THEN NoAddress(q) ELSE [q EXCEPT !.client = "idle"]]
     IN IF Serves(w) THEN Becomes(multi, n, w) ELSE net' = [net EXCEPT ![w] = q] /\ UNCHANGED multi
  /\ UNCHANGED <<lan, routes, carries>>
\* setAddressing, if it differs: a static address is probed for, and WAN1 is judged after that, or when DHCP ends
Addressed(w, q) ==
  /\ Edit /\ Serves(w) /\ <<q.mode, q.ip, q.prefix, q.gateway>> # <<net[w].mode, net[w].ip, net[w].prefix, net[w].gateway>>
  /\ LET n == [net EXCEPT ![w] = q]
     IN IF w = "wan2" THEN Becomes(multi, n, w) ELSE net' = n /\ UNCHANGED multi
  /\ UNCHANGED <<lan, routes, carries>>
SetStatic(w, l) ==
  Addressed(w, [Has(net[w], l) EXCEPT !.mode = "static", !.client = IF net[w].link THEN "probing" ELSE "idle"])
SetDhcp(w) == net[w].mode = "static" /\ Addressed(w, Started([NoAddress(net[w]) EXCEPT !.mode = "dhcp"]))
FinishProbe(w) ==
  /\ net[w].client = "probing" /\ Becomes(multi, [net EXCEPT ![w].client = "idle"], w)
  /\ UNCHANGED <<lan, routes, carries, routeEdits>>
\* lan4 becomes WAN2, with an address by DHCP, or a port of the LAN again
SetWan2(on, member) ==
  /\ Edit /\ <<on, member>> # <<multi.on, multi.member>>
  /\ LET m == [multi EXCEPT !.on = on, !.member = member]
         q == IF ~on THEN NoAddress(net["wan2"]) ELSE IF ~Wan2On THEN Started([net["wan2"] EXCEPT !.mode = "dhcp"]) ELSE net["wan2"]
         n == [net EXCEPT !["wan2"] = q]
     IN /\ net' = [w \in Lines |-> [n[w] EXCEPT !.online = Ready(n, on, w), !.dead = FALSE]]
        /\ multi' = Decide(m, net')
  /\ UNCHANGED <<lan, routes, carries>>
\* the pings of a line went unanswered, or were answered again
Tracked(w) ==
  /\ Edit /\ Wan2On /\ Ready(net, TRUE, w) /\ (w = "wan2" => multi.member)
  /\ net' = [net EXCEPT ![w].online = ~@, ![w].dead = net[w].online] /\ multi' = Decide(multi, net')
  /\ UNCHANGED <<lan, routes, carries>>
SetLan(l) == Edit /\ lan' = l /\ l # lan /\ UNCHANGED <<net, multi, routes, carries>>
SetRoutes(rs) == Edit /\ rs # routes /\ routes' = rs /\ UNCHANGED <<lan, net, multi, carries>>
\* a flow is entered in the table of the line its packet is translated for
Send(f) ==
  /\ Forwarded(f) # Dropped /\ carries' = [carries EXCEPT ![OutFor(f).line] = @ \cup {f}]
  /\ UNCHANGED <<lan, net, multi, routes, routeEdits>>

Init ==
  /\ lan \in LanNets /\ routes \in RouteLists
  /\ net = [w \in Lines |-> [link |-> TRUE, mode |-> "dhcp", ip |-> None, prefix |-> Bits, gateway |-> None,
                             client |-> IF w = "wan" THEN "asking" ELSE "idle",
                             online |-> FALSE, dead |-> FALSE]]
  /\ \E rule \in RulesFor : multi = [on |-> FALSE, member |-> TRUE, active |-> "wan", rule |-> rule]
  /\ carries = [w \in Lines |-> {}] /\ routeEdits = 0

Next ==
  \/ \E w \in Lines : \/ GaveUp(w) \/ OnLink(w) \/ Tracked(w) \/ SetDhcp(w) \/ FinishProbe(w)
                      \/ \E l \in Leases[w] : Bound(w, l) \/ SetStatic(w, l)
  \/ \E on, member \in BOOLEAN : SetWan2(on, member)
  \/ \E l \in LanNets : SetLan(l)
  \/ \E rs \in RouteLists : SetRoutes(rs)
  \/ \E f \in RouteFlows : Send(f)

Spec == Init /\ [][Next]_routeVars

-------------------------------------------------------------------------------
(* Properties *)
Mine == {lan.ip, Ip("wan"), Ip("wan2")} \ {None}
Outside == {Ip("wan"), Ip("wan2")} \ {None}
Sent(dst) == LET src == OwnSource(dst, None) IN IF src = None THEN Dropped ELSE SendOwn(src, dst)

\* A line that lives has its cable, and its address unless it is being asked for; the line in use lives
\* if one does, unless its address is being asked or probed for
TypeOK ==
  /\ multi.active \in Lines /\ (~Wan2On => multi.active = "wan" /\ Ip("wan2") = None)
  /\ Wan2On => \A w \in Lines : net[w].online => Ready(net, TRUE, w) \/ Waiting(net)
  /\ Wan2On /\ ~net["wan"].online /\ Usable("wan2") => multi.active = "wan2" \/ Waiting(net) \/ net["wan"].client = "probing"

\* routerroute.ts: a packet of the router leaves by the line whose address it has for its source, or
\* goes to the LAN, or WAN2, which has no default route, leaves it to WAN1; and a peer that asked an
\* address of a line that lives is answered from it, whichever line is in use by now
FromItsLine ==
  \A dst \in Destinations \ Mine, local \in Outside :
    /\ \A way \in {SendOwn(local, dst)} :
         way.line \in Lines => Ip(way.line) = local \/ (way.line = "wan" /\ local = Ip("wan2") /\ ~multi.member)
    /\ \A w \in Lines : Wan2On /\ local = Ip(w) /\ Usable(w) => OwnSource(dst, local) = local

\* routerroute.ts: what the LAN has is never sent out, and what is sent over a default route has a next hop
\* that is not the router itself and not in its LAN; WAN2 without a default route carries only what it has a way for
OutIsOut ==
  \A dst \in Destinations \ Mine :
    \A way \in {SendOwn(src, dst) : src \in Outside} \cup {Forwarded(<<f[1], dst>>) : f \in RouteFlows} :
      way.line \in Lines =>
        /\ ~ToLan(dst)
        /\ OverlapsLan(way.line) => ~In(dst, lan)
        /\ way.line = "wan2" /\ ~multi.member => In(dst, net["wan2"]) \/ StaticVia(dst, "wan2") # None
        /\ ~In(dst, net[way.line]) /\ StaticVia(dst, way.line) = None => way.hop \notin Mine /\ ~In(way.hop, lan)

\* routerroute.ts: the longest static route is the one a new flow takes, and what the router itself sends, to
\* its next hop, unless its line and the LAN overlap; and exactly those that no packet may take are
\* shown as unused
Shown == {i \in DOMAIN routes : WhyUnused(routes[i]) = ""}
Longest(dst) ==
  {i \in Shown : LET r == routes[i] IN
     /\ SameSubnet(dst, r.ip, r.prefix)
     /\ \A j \in Shown : SameSubnet(dst, routes[j].ip, routes[j].prefix) => routes[j].prefix < r.prefix \/ (routes[j].prefix = r.prefix /\ i <= j)
     /\ \A k \in {lan, net["wan"], net["wan2"]} : In(dst, k) => k.prefix < r.prefix}
RoutesWork ==
  /\ \A dst \in Destinations \ Mine : \A i \in Longest(dst) :
       LET r == routes[i]
           way == [line |-> r.iface, hop |-> IF r.via = None THEN dst ELSE r.via]
       IN ~OverlapsLan(r.iface) =>
            /\ Sent(dst) = way
            /\ \A f \in RouteFlows : f[2] = dst /\ (\A w \in Lines : f \notin carries[w]) => Forwarded(f) = way
  /\ \A i \in DOMAIN routes :
       i \in Shown <=> \E dst \in Addresses : SameSubnet(dst, routes[i].ip, routes[i].prefix) /\ RouteEntry(routes[i], dst).used
===============================================================================
