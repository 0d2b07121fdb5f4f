---------------------------------- MODULE Lan ----------------------------------
(***************************************************************************)
(* The boxes that carry frames from one port to others: switches with      *)
(* VLANs and IGMP snooping (nodes/switch.ts, igmp.ts; the spanning tree is *)
(* in Stp.tla and off here), hubs, access points, the bridge in a router   *)
(* (nodes/routerbridge.ts) and the transparent firewall (fwbridge.ts), and *)
(* what a host does when it is plugged, joins a group or leaves it.  All   *)
(* links have the same latency, so frames arrive in the order they were    *)
(* sent in; the user may act between any two.                              *)
(***************************************************************************)
EXTENDS Naturals, Sequences, FiniteSets, FiniteSetsExt
LOCAL INSTANCE SequencesExt

CONSTANTS
  Lans,     \* networks: [kind, cables, spare, vlan, deny, edits], see Init
  None, Trunk,
  MaxHops,  \* MAX_L2_HOPS
  MaxFrames, MaxLanEdits

VARIABLES
  lan,      \* the network
  cables,   \* the cables plugged in, each a set of two ends <<node, port>>
  vlan,     \* the VLAN of each switch port, or Trunk
  bridge,   \* the tables of each box
  frames,   \* the frames under way, in the order they arrive
  host,     \* of each host: the probes that have not ended, has it joined the group
  sent,     \* what users sent: to whom, who could hear it, who heard it
  regrouped, \* a cable between boxes was pulled, or a port moved under a snooping switch
  lanEdits
lanVars == <<lan, cables, vlan, bridge, frames, host, sent, regrouped, lanEdits>>

Nodes == DOMAIN lan.kind
Kind(n) == lan.kind[n]
HostsOf(l) == {n \in DOMAIN l.kind : l.kind[n] \in {"host", "router"}}
Stations == HostsOf(lan)
Bridges == {n \in Nodes : Kind(n) # "host"}
Groups == {"all", "group", "routers", "hosts"}
\* a router's own LAN port, an access point's cable, and a firewall's two sides
Outside == 0
Inside == 1
Eth == 0

-------------------------------------------------------------------------------
(* One step, as it goes on: x *)
Now == [cables |-> cables, bridge |-> bridge, frames |-> frames, host |-> host, sent |-> sent]
PeerOf(cs, e) == LET c == {d \in cs : e \in d} IN IF c = {} THEN None ELSE CHOOSE f \in (CHOOSE d \in c : TRUE) : f # e
Connected(x, e) == PeerOf(x.cables, e) # None
PortsOf(x, n) == {p \in 0 .. 3 : Connected(x, <<n, p>>)}
Emit(x, e, f) ==
  IF ~Connected(x, e) THEN x ELSE [x EXCEPT !.frames = Append(@, [from |-> e, to |-> PeerOf(x.cables, e), f |-> f])]
EmitAll(x, n, ports, f) == FoldLeft(LAMBDA y, p : Emit(y, <<n, p>>, f), x, SetToSortSeq(ports, <))

UsedIds(x) == {x.frames[i].f.id : i \in DOMAIN x.frames}
NewId(x) ==
  LET taken == UsedIds(x) \cup {g[1] : g \in UNION {x.bridge[n].seen : n \in DOMAIN x.bridge}}
  IN Min((MaxFrames + 1 .. MaxFrames + Cardinality(taken) + 1) \ taken)
Frame(id, s, d, body) == [id |-> id, src |-> s, dst |-> d, body |-> body, tag |-> None, hops |-> 0]
\* ARP and the discovery of IPv6 pass a firewall, whatever its rules
IsIp(f) == f.body \notin {"arp"}

(* The tables of a box *)
NewBridge == [table |-> {}, groups |-> {}, seen |-> {}, snoop |-> FALSE]
PortOf(b, v, mac) == LET t == {r \in b.table : r.vlan = v /\ r.mac = mac} IN IF t = {} THEN None ELSE (CHOOSE r \in t : TRUE).port
Learn(b, v, mac, p) == [b EXCEPT !.table = {r \in @ : ~(r.vlan = v /\ r.mac = mac)} \cup {[vlan |-> v, mac |-> mac, port |-> p]}]
ForgetPort(b, p) == [b EXCEPT !.table = {r \in @ : r.port # p}]
AnyPort == <<"any", 0>>
\* guardLoop: a frame seen before, or that has gone through too many boxes
Looped(b, f, scope) == f.hops >= MaxHops \/ <<f.id, scope>> \in b.seen
Guard(b, f, scope) == IF f.hops >= MaxHops THEN b ELSE [b EXCEPT !.seen = @ \cup {<<f.id, scope>>}]

(* IGMP snooping: what a box learns from a frame, and where a stream goes *)
Observed(b, p, v, f) ==
  CASE b.snoop /\ f.body = "report" -> [b EXCEPT !.groups = @ \cup {<<v, p>>}]
    [] b.snoop /\ f.body = "leave" -> [b EXCEPT !.groups = @ \ {<<v, p>>}]
    [] OTHER -> b
Only(b, p, v) == {g[2] : g \in {m \in b.groups : m[1] = v}} \ {p}

-------------------------------------------------------------------------------
(* A switch *)
Scope(n, p, f) == LET m == vlan[<<n, p>>] IN IF m = Trunk THEN <<"t", f.tag>> ELSE <<"a", m>>
Admitted(n, p, f) == (vlan[<<n, p>>] = Trunk) <=> f.tag # None
VlanOf(n, p, f) == IF vlan[<<n, p>>] = Trunk THEN f.tag ELSE vlan[<<n, p>>]
Carries(n, q, v) == vlan[<<n, q>>] \in {Trunk, v}
SendOut(x, n, q, v, f) == Emit(x, <<n, q>>, [f EXCEPT !.tag = IF vlan[<<n, q>>] = Trunk THEN v ELSE None])
SendOutAll(x, n, ports, v, f) == FoldLeft(LAMBDA y, q : SendOut(y, n, q, v, f), x, SetToSortSeq(ports, <))
Flood(x, n, p, v, f) == SendOutAll(x, n, {q \in PortsOf(x, n) \ {p} : Carries(n, q, v)}, v, f)
SwitchReceive(x, n, p, f0) ==
  LET b == x.bridge[n]
      f == [f0 EXCEPT !.hops = @ + 1]
      v == VlanOf(n, p, f)
      learnt == Learn(Guard(b, f0, Scope(n, p, f)), v, f.src, p)
      to(c) == [x EXCEPT !.bridge[n] = c]
      q == PortOf(learnt, v, f.dst)
  IN CASE Looped(b, f0, Scope(n, p, f)) -> x
       [] ~Looped(b, f0, Scope(n, p, f)) /\ ~Admitted(n, p, f) -> to(Guard(b, f0, Scope(n, p, f)))
       [] OTHER ->
            IF b.snoop /\ f.body = "stream"
              THEN SendOutAll(to(learnt), n, {r \in Only(b, p, v) : Connected(x, <<n, r>>) /\ Carries(n, r, v)}, v, f)
            ELSE IF f.dst \in Groups \/ q = None
              THEN Flood(to(IF f.dst \in Groups THEN Observed(learnt, p, v, f) ELSE learnt), n, p, v, f)
            ELSE IF q = p THEN to(learnt)
            ELSE SendOut(to(learnt), n, q, v, f)

(* A hub repeats everything *)
HubReceive(x, n, p, f) ==
  IF Looped(x.bridge[n], f, AnyPort) THEN x
  ELSE EmitAll([x EXCEPT !.bridge[n] = Guard(@, f, AnyPort)], n, PortsOf(x, n) \ {p}, [f EXCEPT !.hops = @ + 1])

(* An access point: what comes from the cable goes on the air *)
ApReceive(x, n, p, f0) ==
  LET b == Guard(x.bridge[n], f0, AnyPort)
      f == [f0 EXCEPT !.hops = @ + 1]
      radios == PortsOf(x, n) \ {Eth}
      known == Learn(b, 1, f.src, p)
      station == PortOf(IF p = Eth THEN b ELSE known, 1, f.dst)
      y == [x EXCEPT !.bridge[n] = IF p = Eth THEN b ELSE known]
  IN IF Looped(x.bridge[n], f0, AnyPort) THEN x
     ELSE IF p = Eth
       THEN IF f.dst \in Groups \/ station = None \/ station \notin radios THEN EmitAll(y, n, radios, f) ELSE Emit(y, <<n, station>>, f)
     ELSE IF f.dst \in Groups THEN EmitAll(Emit(y, <<n, Eth>>, f), n, radios \ {p}, f)
     ELSE IF station = None THEN Emit(y, <<n, Eth>>, f)
     ELSE IF station = p THEN y ELSE Emit(y, <<n, station>>, f)

-------------------------------------------------------------------------------
(* Hosts *)
Hear(x, h, f) ==
  IF f.id > MaxFrames THEN x
  ELSE [x EXCEPT !.sent[f.id].heard = IF h \in @ THEN @ ELSE @ \cup {h}, !.sent[f.id].twice = @ \/ h \in x.sent[f.id].heard]
Report(x, h) == Emit(x, <<h, 0>>, Frame(NewId(x), h, "group", "report"))
HostReceive(x, h, f) ==
  LET joined == x.host[h].joined
  IN CASE f.tag # None -> x
       [] f.tag = None /\ f.body \in {"arp", "data"} -> IF f.dst \in {h, "all"} THEN Hear(x, h, f) ELSE x
       [] f.tag = None /\ f.body = "stream" -> IF joined THEN Hear(x, h, f) ELSE x
       [] f.tag = None /\ f.body = "query" -> IF joined THEN Report(x, h) ELSE x
       [] f.tag = None /\ f.body = "leave" -> IF joined /\ f.src # h THEN Report(x, h) ELSE x
       [] OTHER -> x

(* The bridge in a router, and the router on it *)
RouterReceive(x, n, p, f0) ==
  LET f == [f0 EXCEPT !.hops = @ + 1]
      learnt == Learn(Guard(x.bridge[n], f0, AnyPort), 1, f.src, p)
      to(c) == [x EXCEPT !.bridge[n] = c]
      others == PortsOf(x, n) \ {p}
      q == PortOf(learnt, 1, f.dst)
  IN CASE f.tag # None \/ Looped(x.bridge[n], f0, AnyPort) -> x
       [] OTHER ->
            IF f.dst = "all" THEN Hear(EmitAll(to(learnt), n, others, f), n, f)
            ELSE IF learnt.snoop /\ f.body = "stream"
              THEN EmitAll(to(learnt), n, Only(learnt, p, 1) \cap PortsOf(x, n), f)
            ELSE IF f.dst = n THEN Hear(to(learnt), n, f)
            ELSE IF f.dst \in Groups THEN EmitAll(to(Observed(learnt, p, 1, f)), n, others, f)
            ELSE IF q = None THEN EmitAll(to(learnt), n, others, f)
            ELSE IF q = p THEN to(learnt) ELSE Emit(to(learnt), <<n, q>>, f)
\* the router sends to its own network
RouterEmit(x, n, f) ==
  LET q == PortOf(x.bridge[n], 1, f.dst)
  IN IF f.dst # "all" /\ q # None THEN Emit(x, <<n, q>>, f) ELSE EmitAll(x, n, PortsOf(x, n), f)

\* a transparent firewall: rules for IP; nothing that is sent in here answers what went out
FirewallReceive(x, n, p, f) ==
  IF IsIp(f) /\ p = Outside /\ lan.deny THEN x
  ELSE Emit(x, <<n, IF p = Outside THEN Inside ELSE Outside>>, [f EXCEPT !.hops = @ + 1])

Receive(x, e, f) ==
  LET n == e[1] p == e[2]
  IN CASE Kind(n) = "switch" -> SwitchReceive(x, n, p, f)
       [] Kind(n) = "hub" -> HubReceive(x, n, p, f)
       [] Kind(n) = "ap" -> ApReceive(x, n, p, f)
       [] Kind(n) = "router" -> RouterReceive(x, n, p, f)
       [] Kind(n) = "firewall" -> FirewallReceive(x, n, p, f)
       [] Kind(n) = "host" -> HostReceive(x, n, f)

-------------------------------------------------------------------------------
(* Who can hear a host: the ends its frames reach, with the tag they bear there *)
Onward(n, p, tag, cs, vl) ==
  LET others == {q \in 0 .. 3 : q # p /\ PeerOf(cs, <<n, q>>) # None}
      v == IF Kind(n) = "switch" THEN (IF vl[<<n, p>>] = Trunk THEN tag ELSE vl[<<n, p>>]) ELSE tag
  IN CASE Kind(n) = "switch" ->
            IF (vl[<<n, p>>] = Trunk) # (tag # None) THEN {}
            ELSE {<<PeerOf(cs, <<n, q>>), IF vl[<<n, q>>] = Trunk THEN v ELSE None>> : q \in {r \in others : vl[<<n, r>>] \in {Trunk, v}}}
       [] Kind(n) = "firewall" -> IF p = Outside /\ lan.deny THEN {} ELSE {<<PeerOf(cs, <<n, q>>), tag>> : q \in others}
       [] Kind(n) = "router" -> IF tag # None THEN {} ELSE {<<PeerOf(cs, <<n, q>>), None>> : q \in others}
       [] Kind(n) = "host" -> {}
       [] OTHER -> {<<PeerOf(cs, <<n, q>>), tag>> : q \in others}
Reach(first, cs, vl) ==
  LET reach[i \in 0 .. 2 * Cardinality(Nodes)] ==
        IF i = 0 THEN first
        ELSE LET near == reach[i - 1] IN near \cup UNION {Onward(a[1][1], a[1][2], a[2], cs, vl) : a \in near}
  IN {a[1][1] : a \in {r \in reach[2 * Cardinality(Nodes)] : r[2] = None}} \cap Stations
Audience(h, cs, vl) == Reach({<<PeerOf(cs, <<h, p>>), None>> : p \in {q \in 0 .. 3 : PeerOf(cs, <<h, q>>) # None}}, cs, vl)

-------------------------------------------------------------------------------
\* what is not under way any more need not be remembered as seen
Becomes(x) ==
  /\ cables' = x.cables /\ frames' = x.frames /\ host' = x.host /\ sent' = x.sent
  /\ bridge' = [n \in Bridges |-> [x.bridge[n] EXCEPT !.seen = {s \in @ : s[1] \in UsedIds(x)}]]
Keep == UNCHANGED <<lan, vlan, regrouped, lanEdits>>
Quiet == frames = <<>>

Deliver ==
  /\ frames # <<>>
  /\ Becomes(Receive([Now EXCEPT !.frames = Tail(@)], Head(frames).to, Head(frames).f))
  /\ Keep
FromStation(x, h, f) == IF Kind(h) = "router" THEN RouterEmit(x, h, f) ELSE Emit(x, <<h, 0>>, f)
\* a user sends a packet, or a stream to the group
Send(h, d, body) ==
  LET id == Len(sent) + 1
      calm == ~regrouped /\ (body = "stream" => \A s \in DOMAIN host : host[s].probes = 0)
      record == [src |-> h, dst |-> d, body |-> body, audience |-> Audience(h, cables, vlan), calm |-> calm, heard |-> {}, twice |-> FALSE]
  IN /\ Quiet /\ id <= MaxFrames /\ h # d
     /\ Becomes(FromStation([Now EXCEPT !.sent = Append(@, record)], h, Frame(id, h, d, body)))
     /\ Keep

\* an edit changes who can hear what is under way
Disturbed(x, vl) ==
  LET copies(i) == {<<x.frames[k].to, x.frames[k].f.tag>> : k \in {j \in DOMAIN x.frames : x.frames[j].f.id = i}}
  IN [x EXCEPT !.sent = [i \in DOMAIN @ |-> [@[i] EXCEPT !.calm = FALSE, !.audience = @ \cup Reach(copies(i), x.cables, vl)]]]
\* after the last packet has arrived nothing of interest happens
Going == Len(sent) < MaxFrames \/ ~Quiet
Edit == Going /\ lanEdits < MaxLanEdits /\ lanEdits' = lanEdits + 1
Member(h) == host[h].joined
Join(h) ==
  /\ Quiet /\ Going /\ h \in lan.groups /\ ~Member(h)
  /\ Becomes(Disturbed(Report([Now EXCEPT !.host[h].joined = TRUE], h), vlan))
  /\ Keep
Leave(h) ==
  /\ Edit /\ Kind(h) = "host" /\ Member(h)
  /\ Becomes(Disturbed(Emit([Now EXCEPT !.host[h].joined = FALSE], <<h, 0>>, Frame(NewId(Now), h, "routers", "leave")), vlan))
  /\ UNCHANGED <<lan, vlan, regrouped>>
\* a host that is plugged in asks whether its address is free, and tells it when nobody has answered
ProbeEnds(h) ==
  LET x == Emit([Now EXCEPT !.host[h].probes = @ - 1], <<h, 0>>, Frame(NewId(Now), h, "all", "arp"))
  IN /\ Quiet /\ Going /\ host[h].probes > 0
     /\ Becomes(IF Member(h) THEN Report(x, h) ELSE x)
     /\ Keep
\* between two boxes, or a box and a host
Between(c) == \A e \in c : Kind(e[1]) # "host"
Snooping == \E n \in Bridges : bridge[n].snoop
\* the bridge of a router goes on remembering the groups of a port that is down
LinkDown(x, e) ==
  LET b == ForgetPort(x.bridge[e[1]], e[2])
  IN CASE Kind(e[1]) = "host" -> x
       [] Kind(e[1]) = "switch" -> [x EXCEPT !.bridge[e[1]] = [b EXCEPT !.groups = {g \in @ : g[2] # e[2]}]]
       [] OTHER -> [x EXCEPT !.bridge[e[1]] = b]
LinkUp(x, e) ==
  IF Kind(e[1]) # "host" THEN x
  ELSE Emit([x EXCEPT !.host[e[1]].probes = @ + 1], e, Frame(NewId(x), e[1], "all", "arp"))
Unplug(c) ==
  LET x == [Now EXCEPT !.cables = @ \ {c}, !.frames = SelectSeq(@, LAMBDA t : {t.from, t.to} # c)]
  IN /\ Edit /\ c \in cables
     /\ Becomes(Disturbed(FoldLeft(LinkDown, x, SetToSeq(c)), vlan))
     /\ regrouped' = (regrouped \/ Between(c))
     /\ UNCHANGED <<lan, vlan>>
Plug(c) ==
  LET x == [Now EXCEPT !.cables = @ \cup {c}]
  IN /\ Edit /\ c \notin cables /\ \A e \in c : PeerOf(cables, e) = None
     /\ Becomes(Disturbed(FoldLeft(LinkUp, x, SetToSeq(c)), vlan))
     /\ UNCHANGED <<lan, vlan, regrouped>>
SetVlan(e, v) ==
  LET new == [vlan EXCEPT ![e] = v]
  IN /\ Edit /\ Quiet /\ vlan[e] # v /\ vlan' = new
     /\ Becomes(Disturbed([Now EXCEPT !.bridge[e[1]].table = {}], new))
     /\ regrouped' = (regrouped \/ Snooping)
     /\ UNCHANGED lan
\* a box that begins to snoop asks the hosts what they have joined
QueryTo(x, n, q) ==
  LET f == Frame(NewId(x), n, "hosts", "query")
  IN IF Kind(n) = "switch" /\ vlan[<<n, q>>] = Trunk THEN SendOut(x, n, q, 1, f) ELSE Emit(x, <<n, q>>, f)
SetIgmp(n, on) ==
  LET x == [Now EXCEPT !.bridge[n].snoop = on, !.bridge[n].groups = {}]
      ask(y, q) == QueryTo(y, n, q)
  IN /\ Edit /\ lan.groups # {} /\ Kind(n) \in {"switch", "router"} /\ bridge[n].snoop # on
     /\ Becomes(Disturbed(IF on THEN FoldLeft(ask, x, SetToSortSeq(PortsOf(x, n), <)) ELSE x, vlan))
     /\ UNCHANGED <<lan, vlan, regrouped>>

Init ==
  /\ lan \in Lans /\ cables = lan.cables /\ vlan = lan.vlan
  /\ bridge = [n \in Bridges |-> NewBridge]
  /\ host = [h \in {n \in Nodes : Kind(n) = "host"} |-> [probes |-> 0, joined |-> FALSE]]
  /\ frames = FoldLeft(LinkUp, [cables |-> lan.cables, bridge |-> bridge, frames |-> <<>>, host |-> host],
                       SetToSeq({<<h, 0>> : h \in DOMAIN host})).frames
  /\ sent = <<>> /\ regrouped = FALSE /\ lanEdits = 0
Next ==
  \/ Deliver
  \/ \E h \in Stations, d \in Stations \cup {"all"} : Send(h, d, "data")
  \/ \E h \in DOMAIN host \ lan.groups : lan.groups # {} /\ Send(h, "group", "stream")
  \/ \E h \in DOMAIN host : Join(h) \/ Leave(h) \/ ProbeEnds(h)
  \/ \E c \in lan.cables \cup lan.spare : Unplug(c) \/ Plug(c)
  \/ \E e \in lan.edits, v \in {1, 2} : SetVlan(e, v)
  \/ \E n \in Bridges, on \in BOOLEAN : SetIgmp(n, on)
Spec == Init /\ [][Next]_lanVars

-------------------------------------------------------------------------------
\* A frame goes through few boxes, a table has one port for a host, and a port that leads nowhere is in no table.
TypeOK ==
  /\ \A i \in DOMAIN frames : frames[i].f.hops <= MaxHops /\ {frames[i].from, frames[i].to} \in cables
  /\ \A n \in Bridges :
       /\ \A r, s \in bridge[n].table : r.vlan = s.vlan /\ r.mac = s.mac => r = s
       /\ \A r \in bridge[n].table : PeerOf(cables, <<n, r.port>>) # None
       /\ Kind(n) = "switch" => \A g \in bridge[n].groups : PeerOf(cables, <<n, g[2]>>) # None

\* No host hears a packet twice, even where cables form a loop, nor one of a network it was not part of.
HeardOnce == \A i \in DOMAIN sent : ~sent[i].twice
HeardInside == \A i \in DOMAIN sent : sent[i].heard \subseteq sent[i].audience

\* What is sent when the network is at rest, and not disturbed on its way, reaches all it is for, wherever the hosts
\* were plugged before and whatever the tables remember of it.
For(i) ==
  LET s == sent[i]
  IN (CASE s.dst = "all" -> s.audience
        [] s.dst = "group" -> {h \in DOMAIN host : Member(h)}
        [] OTHER -> {s.dst}) \cap (s.audience \ {s.src})
Arrives == Quiet => \A i \in DOMAIN sent : sent[i].calm => For(i) \subseteq sent[i].heard
===============================================================================
