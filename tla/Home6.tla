--------------------------------- MODULE Home6 ---------------------------------
(***************************************************************************)
(* IPv6 at home (src/src/core/nodes/router6.ts, dhcp6.ts and the provider  *)
(* in internet.ts): routers ask their provider for a prefix, announce it   *)
(* on their networks and let in from outside what was asked for.  An       *)
(* address is <<prefix, station>>; prefix 0 is the Internet.  The links    *)
(* themselves (NDP) are those of Ipv6.tla: here a link local address is    *)
(* made, ready or not there.                                               *)
(***************************************************************************)
EXTENDS Firewall
LOCAL INSTANCE SequencesExt

CONSTANTS
  Homes,        \* the routers of the provider's customers
  Tries6,       \* how often a router asks (MAX_TRIES, RS_MAX)
  Pinholes,     \* rules a user may have in the router's own filter
  Writes6,      \* packets guests may send: <<flag, destination>>
  Peers6,       \* packets that come from outside: <<flag, name of the peer>>
  MaxTroubles, MaxPackets6  \* bounds: losses and edits, packets

VARIABLES
  homes,     \* homes[h]: the router of h
  isp6,      \* the provider: prefixes given away and the routes to them
  pdWire,    \* messages between routers and provider, oldest first
  guests,    \* guests[h]: the prefix the station at home h has its address of, 0: none
  asked6,    \* <<h, name>>: the guest of h has opened a connection to this one
  gotIn,     \* connections from outside that reached a guest: [home, from, free]
  lost,      \* a message was lost
  troubles, written
home6Vars == <<homes, isp6, pdWire, guests, asked6, gotIn, lost, troubles, written>>

Isp == "isp"
NoPrefix == 0
NotAsking == [state |-> "idle", tries |-> 0, xid |-> 0, offered |-> NoPrefix, delegated |-> NoPrefix, timer |-> "none"]
LanOff == [on |-> FALSE, ll |-> "none", addr |-> NoPrefix, ra |-> FALSE, sent |-> NoPrefix]
PinholeFilter(rules) == NewFirewall(rules # <<>>, TRUE, "allow", rules)
InboundFilter(on) == NewFirewall(on, TRUE, "deny", <<>>)

-------------------------------------------------------------------------------
(* A step of router x.h works on x.r; x.out goes to the provider, x.lan is   *)
(* what it tells its network: prefixes announced and taken back.             *)
At6(h) == [h |-> h, r |-> homes[h], out |-> <<>>, lan |-> <<>>]
Ask(x, m) == [x EXCEPT !.out = Append(@, [to |-> Isp, from |-> x.h, msg |-> m])]

LanRa(x, final) ==
  LET l == x.r.lan
      now == IF final THEN NoPrefix ELSE l.addr
  IN IF l.ll # "ready" THEN x
     ELSE [x EXCEPT !.r.lan.sent = now, !.lan = Append(@, [prefix |-> now, gone |-> {l.sent} \ {now}])]
\* Ipv6Interface.configure of the home network
LanConfigure(x, addr, ra) ==
  LET was == x.r.lan
      y == [x EXCEPT !.r.lan.addr = addr, !.r.lan.ra = ra]
  IN CASE ra /\ addr # was.sent -> LanRa(y, FALSE)
       [] ~ra /\ was.ra -> LanRa(y, TRUE)
       [] OTHER -> y
LanSwitchOff(x) == [(IF x.r.lan.ra THEN LanRa(x, TRUE) ELSE x) EXCEPT !.r.lan = LanOff]

OnDelegation(x, p) == IF ~x.r.on THEN x ELSE LanConfigure(x, p, p # NoPrefix)

PdSend(x, type) ==
  IF x.r.ll # "ready" THEN x
  ELSE Ask([x EXCEPT !.r.pd.tries = @ + 1, !.r.pd.timer = IF type = "release" THEN @ ELSE type],
           [kind |-> type, xid |-> x.r.pd.xid])
PdStart(x) ==
  PdSend([x EXCEPT !.r.pd.state = "soliciting", !.r.pd.tries = 0, !.r.pd.offered = NoPrefix, !.r.pd.xid = @ + 1,
                   !.r.pd.timer = "none"], "solicit")
PdStop(x) ==
  LET y == [x EXCEPT !.r.pd = [@ EXCEPT !.state = "idle", !.offered = NoPrefix, !.delegated = NoPrefix, !.timer = "none"]]
  IN IF x.r.pd.delegated # NoPrefix THEN OnDelegation(y, NoPrefix) ELSE y
PdRelease(x) == PdStop(IF x.r.pd.state = "bound" THEN PdSend(x, "release") ELSE x)
PdHandle(x, m) ==
  LET pd == x.r.pd
  IN CASE m.xid # pd.xid -> x
       [] m.xid = pd.xid /\ m.kind = "advertise" /\ pd.state = "soliciting" ->
            PdSend([x EXCEPT !.r.pd.offered = m.prefix, !.r.pd.state = "requesting", !.r.pd.tries = 0,
                             !.r.pd.timer = "none"], "request")
       [] m.xid = pd.xid /\ m.kind = "reply" /\ pd.state = "requesting" ->
            OnDelegation([x EXCEPT !.r.pd.state = "bound", !.r.pd.delegated = m.prefix, !.r.pd.timer = "none"], m.prefix)
       [] OTHER -> x

SendRs6(x) == Ask([x EXCEPT !.r.rs = TRUE, !.r.rsTries = @ + 1], [kind |-> "rs"])
\* the link local address towards the provider is made anew
WanUp6(x) == IF x.r.on /\ x.r.up THEN [x EXCEPT !.r.ll = "made", !.r.rsTries = 0] ELSE x
WanDown6(x) == [x EXCEPT !.r.ll = IF x.r.on THEN "waiting" ELSE "none", !.r.gw = FALSE, !.r.rs = FALSE]

-------------------------------------------------------------------------------
(* What passes a router: the guest's packet out, and one from outside in.    *)

Owned(r, d) == r.lan.on /\ r.lan.addr # NoPrefix /\ d = <<r.lan.addr, "router">>
OnLan(r, d) == r.lan.addr # NoPrefix /\ d[1] = r.lan.addr /\ d[2] # "unused"
InDelegated(r, d) == r.pd.delegated # NoPrefix /\ d[1] = r.pd.delegated

WayOut6(r, p) ==
  CASE ~r.on \/ ~r.lan.on \/ Owned(r, p.dst) \/ OnLan(r, p.dst) -> "here"
    [] InDelegated(r, p.dst) /\ ~OnLan(r, p.dst) -> "unreachable"
    [] OTHER -> IF ~r.gw THEN "unreachable" ELSE IF Passes(r.fw, p, "out") THEN "wan" ELSE "dropped"
HandleLan6(x, p) ==
  IF WayOut6(x.r, p) # "wan" THEN x
  ELSE LET f == [x EXCEPT !.r.fw = Checked(@, p, "out"),
                          !.r.in6 = IF @.on /\ IsInitiator(p) THEN ImportFlow(@, Flow(p)) ELSE @]
       IN Ask(f, [kind |-> "data", pkt |-> p])

AllowedByRule(fw, p) == fw.on /\ FirstRule(fw, p, "in") # {} /\ Verdict(fw, p, "in") = "allow"
WayIn(r, p) ==
  CASE ~r.on \/ Owned(r, p.dst) \/ ~OnLan(r, p.dst) -> "here"
    [] OTHER -> IF Passes(r.fw, p, "in") /\ (AllowedByRule(r.fw, p) \/ Passes(r.in6, p, "in")) THEN "lan" ELSE "dropped"
HandleWan6(x, p) ==
  IF ~x.r.on \/ ~OnLan(x.r, p.dst) \/ Owned(x.r, p.dst) THEN x ELSE [x EXCEPT !.r.fw = Checked(@, p, "in")]

-------------------------------------------------------------------------------
(* The provider *)

DelegationFor(p) == {k \in DOMAIN isp6.via : k = p /\ isp6.via[k] # "none"}
HandleDhcp6(h, m) ==
  LET at == {k \in DOMAIN isp6.alloc : isp6.alloc[k] = h}
      alloc == IF at = {} THEN Append(isp6.alloc, h) ELSE isp6.alloc
      p == IF at = {} THEN Len(alloc) ELSE CHOOSE k \in at : TRUE
  IN CASE m.kind = "release" ->
            [isp |-> [isp6 EXCEPT !.via = [k \in DOMAIN @ |-> IF @[k] = h THEN "none" ELSE @[k]]], out |-> <<>>]
       [] m.kind = "solicit" ->
            [isp |-> [isp6 EXCEPT !.alloc = alloc],
             out |-> <<[to |-> h, from |-> Isp, msg |-> [kind |-> "advertise", xid |-> m.xid, prefix |-> p]]>>]
       [] m.kind = "request" ->
            [isp |-> [alloc |-> alloc, via |-> [isp6.via EXCEPT ![p] = h]],
             out |-> <<[to |-> h, from |-> Isp, msg |-> [kind |-> "reply", xid |-> m.xid, prefix |-> p]]>>]
\* a customer's packet: from a prefix that is given away, to another one or into the Internet
Forward6(m) ==
  LET p == m.pkt
  IN [isp |-> isp6,
      out |-> IF DelegationFor(p.src[1]) = {} \/ DelegationFor(p.dst[1]) = {} THEN <<>>
              ELSE <<[to |-> isp6.via[p.dst[1]], from |-> Isp, msg |-> m]>>]

-------------------------------------------------------------------------------
Quiet6 == pdWire = <<>>
\* the guest follows what its router announces
Heard(g, ra) == IF ra.prefix # NoPrefix THEN ra.prefix ELSE IF g \in ra.gone THEN NoPrefix ELSE g
Hears(g, ras) == FoldLeft(Heard, g, ras)
Step6(x) ==
  /\ homes' = [homes EXCEPT ![x.h] = x.r]
  /\ guests' = [guests EXCEPT ![x.h] = Hears(@, x.lan)]
Trouble6 == troubles < MaxTroubles /\ troubles' = troubles + 1
Send6(x) == pdWire' = pdWire \o x.out

ReceiveHome ==
  LET f == Head(pdWire)
      m == f.msg
      y == At6(f.to)
      x == CASE m.kind = "ra" -> IF y.r.on THEN [y EXCEPT !.r.gw = TRUE, !.r.rs = FALSE] ELSE y
             [] m.kind = "data" -> HandleWan6(y, m.pkt)
             [] OTHER -> IF y.r.on THEN PdHandle(y, m) ELSE y
      passed == m.kind = "data" /\ WayIn(y.r, m.pkt) = "lan"
  IN /\ pdWire # <<>> /\ f.to \in Homes
     /\ IF homes[f.to].up
        THEN Step6(x) /\ pdWire' = Tail(pdWire) \o x.out
        ELSE pdWire' = Tail(pdWire) /\ UNCHANGED <<homes, guests>>
     /\ gotIn' = IF homes[f.to].up /\ passed
                 THEN gotIn \cup {[home |-> f.to, from |-> m.pkt.src,
                                   free |-> ~y.r.in6.on \/ AllowedByRule(y.r.fw, m.pkt) \/ <<f.to, m.pkt.src>> \in asked6]}
                 ELSE gotIn
     /\ UNCHANGED <<isp6, asked6, lost, troubles, written>>
ReceiveIsp ==
  LET f == Head(pdWire)
      m == f.msg
      a == CASE m.kind = "rs" -> [isp |-> isp6, out |-> <<[to |-> f.from, from |-> Isp, msg |-> [kind |-> "ra"]]>>]
             [] m.kind = "data" -> Forward6(m)
             [] OTHER -> HandleDhcp6(f.from, m)
  IN /\ pdWire # <<>> /\ f.to = Isp
     /\ isp6' = a.isp /\ pdWire' = Tail(pdWire) \o a.out
     /\ UNCHANGED <<homes, guests, asked6, gotIn, lost, troubles, written>>
LoseMessage ==
  /\ pdWire # <<>> /\ Trouble6
  /\ lost' = TRUE /\ pdWire' = Tail(pdWire)
  /\ UNCHANGED <<homes, isp6, guests, asked6, gotIn, written>>

(* Timers *)
Rest6 == UNCHANGED <<isp6, asked6, gotIn, lost, troubles, written>>
WanReady(h) ==
  LET x == [At6(h) EXCEPT !.r.ll = "ready"]
  IN /\ Quiet6 /\ homes[h].ll = "made"
     /\ LET y == PdStart(IF x.r.gw THEN x ELSE SendRs6(x)) IN Step6(y) /\ Send6(y)
     /\ Rest6
LanReady(h) ==
  LET x == [At6(h) EXCEPT !.r.lan.ll = "ready"]
  IN /\ Quiet6 /\ homes[h].lan.ll = "made"
     /\ Step6(IF x.r.lan.ra THEN LanRa(x, FALSE) ELSE x)
     /\ UNCHANGED pdWire /\ Rest6
PdTimer(h) ==
  LET pd == homes[h].pd
      x == [At6(h) EXCEPT !.r.pd.timer = "none"]
      y == IF pd.tries < Tries6 THEN PdSend(x, pd.timer) ELSE [x EXCEPT !.r.pd.state = "failed"]
  IN /\ Quiet6 /\ pd.timer # "none"
     /\ Step6(y) /\ Send6(y) /\ Rest6
RsTimer(h) ==
  LET x == [At6(h) EXCEPT !.r.rs = FALSE]
      y == IF ~x.r.gw /\ x.r.rsTries < Tries6 THEN SendRs6(x) ELSE x
  IN /\ Quiet6 /\ homes[h].rs
     /\ Step6(y) /\ Send6(y) /\ Rest6

(* Users *)
WanLink6(h) ==
  LET x == At6(h)
      y == IF x.r.up THEN PdStop(WanDown6([x EXCEPT !.r.up = FALSE])) ELSE WanUp6([x EXCEPT !.r.up = TRUE])
  IN /\ Trouble6
     /\ Step6(y) /\ Send6(y)
     /\ UNCHANGED <<isp6, asked6, gotIn, lost, written>>
SwitchIpv6(h) ==
  LET x == At6(h)
      off == [WanDown6(LanSwitchOff(PdRelease(x))) EXCEPT !.r.on = FALSE, !.r.ll = "none", !.r.rsTries = 0]
      on == [x EXCEPT !.r.on = TRUE, !.r.lan = [LanOff EXCEPT !.on = TRUE, !.ll = "made"]]
      y == IF x.r.on THEN off ELSE WanUp6(on)
  IN /\ Trouble6
     /\ Step6(y) /\ Send6(y)
     /\ UNCHANGED <<isp6, asked6, gotIn, lost, written>>
SetFilters(h) ==
  /\ Trouble6
  /\ \/ homes' = [homes EXCEPT ![h].in6.on = ~@]
     \/ \E rules \in Pinholes :
          homes' = [homes EXCEPT ![h].fw = SetConfig(@, [PinholeFilter(rules) EXCEPT !.flows = <<>>])]
  /\ UNCHANGED <<isp6, pdWire, guests, asked6, gotIn, lost, written>>
\* the station at home is plugged in (again), and asks for routers
PlugGuest(h) ==
  LET r == homes[h]
      x == [At6(h) EXCEPT !.r.lan.ll = IF r.lan.on /\ @ = "none" THEN "made" ELSE @]
  IN /\ Trouble6
     /\ homes' = [homes EXCEPT ![h] = x.r]
     /\ guests' = [guests EXCEPT ![h] = IF r.on /\ r.lan.ra /\ r.lan.ll = "ready" THEN r.lan.addr ELSE NoPrefix]
     /\ UNCHANGED <<isp6, pdWire, asked6, gotIn, lost, written>>

(* Packets *)
Packet6(src, dst, flag) == [proto |-> "tcp", src |-> src, sport |-> 1, dst |-> dst, dport |-> 1, flag |-> flag]
GuestWrites(h, w) ==
  LET p == Packet6(<<guests[h], "guest">>, w[2], w[1])
      x == HandleLan6(At6(h), p)
  IN /\ written < MaxPackets6 /\ written' = written + 1
     /\ guests[h] # NoPrefix
     /\ Step6(x) /\ Send6(x)
     /\ asked6' = IF IsInitiator(p) THEN asked6 \cup {<<h, p.dst>>} ELSE asked6
     /\ UNCHANGED <<isp6, gotIn, lost, troubles>>
PeerWrites(h, w) ==
  LET p == Packet6(<<0, w[2]>>, <<guests[h], "guest">>, w[1])
  IN /\ written < MaxPackets6 /\ written' = written + 1
     /\ DelegationFor(guests[h]) # {}
     /\ pdWire' = pdWire \o <<[to |-> isp6.via[guests[h]], from |-> Isp, msg |-> [kind |-> "data", pkt |-> p]]>>
     /\ UNCHANGED <<homes, isp6, guests, asked6, gotIn, lost, troubles>>

-------------------------------------------------------------------------------
Init ==
  /\ homes = [h \in Homes |->
       [on |-> TRUE, up |-> TRUE, ll |-> "made", gw |-> FALSE, rs |-> FALSE, rsTries |-> 0, pd |-> NotAsking,
        lan |-> [LanOff EXCEPT !.on = TRUE], fw |-> PinholeFilter(<<>>), in6 |-> InboundFilter(TRUE)]]
  /\ isp6 = [alloc |-> <<>>, via |-> [k \in 1..Cardinality(Homes) |-> "none"]]
  /\ guests = [h \in Homes |-> NoPrefix]
  /\ pdWire = <<>> /\ asked6 = {} /\ gotIn = {} /\ lost = FALSE /\ troubles = 0 /\ written = 0
Next ==
  \/ ReceiveHome \/ ReceiveIsp \/ LoseMessage
  \/ \E h \in Homes :
       \/ WanReady(h) \/ LanReady(h) \/ PdTimer(h) \/ RsTimer(h)
       \/ WanLink6(h) \/ SwitchIpv6(h) \/ SetFilters(h) \/ PlugGuest(h)
       \/ (\E w \in Writes6 : GuestWrites(h, w)) \/ (\E w \in Peers6 : PeerWrites(h, w))
Spec == Init /\ [][Next]_home6Vars

-------------------------------------------------------------------------------
\* A router is bound exactly while it has a prefix, repeats only what it waits for, and announces only when it has one.
TypeOK ==
  \A h \in Homes :
    LET r == homes[h]
    IN /\ r.pd.state = "bound" <=> r.pd.delegated # NoPrefix
       /\ r.pd.timer # "none" <=> r.pd.state \in {"soliciting", "requesting"}
       /\ r.lan.ra <=> r.lan.addr # NoPrefix
       /\ r.lan.sent \in {NoPrefix, r.lan.addr}

\* What a router announces at home was given to it and to nobody else: the provider sends
\* what comes for the prefix to this router.  A router that lost its prefix announces none.
OnlyDelegated ==
  \A h \in Homes :
    LET p == homes[h].lan.addr
    IN p = homes[h].pd.delegated /\ (p # NoPrefix => isp6.via[p] = h)

\* A station has an address exactly of the prefix its router announces, however the line,
\* IPv6 itself and the cable of the station come and go.
GuestsFollow == \A h \in Homes : guests[h] \in {NoPrefix, homes[h].lan.sent}

\* When nothing is due any more and no message was lost, every router that is switched on and
\* connected has its prefix and a way out, and its station an address.
Settled6 ==
  /\ Quiet6
  /\ \A h \in Homes : homes[h].ll # "made" /\ homes[h].lan.ll # "made" /\ homes[h].pd.timer = "none" /\ ~homes[h].rs
Connected6 ==
  Settled6 /\ ~lost =>
    \A h \in Homes : homes[h].on /\ homes[h].up =>
      /\ homes[h].pd.state = "bound" /\ homes[h].gw
      /\ homes[h].lan.ll = "ready" => guests[h] = homes[h].pd.delegated

\* Nothing reaches a station from outside that it did not ask for, unless its user let it in.
Uninvited == \A g \in gotIn : g.free
===============================================================================
