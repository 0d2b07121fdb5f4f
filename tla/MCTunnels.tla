------------------------------ MODULE MCTunnels ------------------------------
(***************************************************************************)
(* Routing between sites and the ways through the Internet: RIP,           *)
(* WireGuard, OpenVPN, IPsec, L2TP, peer-to-peer connections and mesh      *)
(* networks, side by side: each behaviour is one of one component, on a    *)
(* small instance.                                                         *)
(***************************************************************************)
EXTENDS Naturals, FiniteSets

\* three routers in a ring, one of them with the way out
CONSTANTS None, Default, Infinity
Routers == {"a", "b", "c"}
Links == {"ab", "bc", "ca", "sa"}
Attached == [l \in Links |-> CASE l = "ab" -> {"a", "b"} [] l = "bc" -> {"b", "c"}
                               [] l = "ca" -> {"c", "a"} [] OTHER -> {"a"}]
Uplink == "sa"
Segments == {}
MaxEdits == 1

\* WireGuard
Tries == 2
MaxWgFaults == 1
MaxWgWire == 3

\* two gateways
Retransmits == 1
MaxIpsecFaults == 1
MaxIpsecWire == 3

\* two programs behind a translator each
Agents == {1, 2}
NatKinds == [Agents -> {"restricted", "port-restricted", "symmetric"}]
PunchTries == 2
P2pRetries == 2
RegTries == 2
Wait == 3
MaxConnects == 2
MaxP2pFaults == 1

\* two devices of a mesh network, one of which sends to the other
Devices == {"a", "b"}
Talks == {<<"a", "b">>}
LoginTries == 2
DiscoTries == 1
MaxTroubles == 1

\* the VPN servers and their clients: each may be given the values of the instance below, or any others
CONSTANTS
  OvpnClients, Certs, VpnPool, OvpnTries, MaxOvpnFaults,
  Laptops, Secrets, L2tpPool, L2tpRetransmits, MaxL2tpFaults,
  RaClients, RaSecrets, RaPools, RaRetransmits, MaxRaFaults

ASSUME PoolsAssumption ==
  VpnPool \subseteq Nat \ {0} /\ L2tpPool \subseteq Nat \ {0} /\ \A pool \in RaPools : pool \subseteq Nat \ {0}

\* two OpenVPN clients with a certificate each, or the same; one laptop may have a secret wrong
OwnOrShared == {[c \in OvpnClients |-> c], [c \in OvpnClients |-> "c"]}
OneWrong(clients) == {[c \in clients |-> IF c = "c" THEN w ELSE "none"] : w \in {"none", "psk", "account"}}
L2tpOneWrong == OneWrong(Laptops)
RaOneWrong == OneWrong(RaClients)

VARIABLES
  part,  \* the component this behaviour is of; the variables of the others rest at 0
  rip, due, up, wire, edits,
  wg, wgAddr, wgWire, owed, wgFaults,
  ovpn, ovpnServer, cnOf, place, asks, tells, ovpnFaults,
  sa, dpdOn, pskMatch, ipsecAddr, ipsecWire, waits, ipsecFaults,
  l2tp, l2tpServer, wrong, toServer, toLaptop, l2tpFaults, l2tpEdits,
  ra, raServer, raWrong, raAsks, raTells, raFaults, raEdits,
  nat, ag, sess, hole, registry, server, net, connects, p2pFaults,
  dev, addr, known, way, ctl, derp, meshUp, down, tun, crosses, dropped, troubles

RVars == <<rip, due, up, wire, edits>>
WVars == <<wg, wgAddr, wgWire, owed, wgFaults>>
OVars == <<ovpn, ovpnServer, cnOf, place, asks, tells, ovpnFaults>>
IVars == <<sa, dpdOn, pskMatch, ipsecAddr, ipsecWire, waits, ipsecFaults>>
LVars == <<l2tp, l2tpServer, wrong, toServer, toLaptop, l2tpFaults, l2tpEdits>>
AVars == <<ra, raServer, raWrong, raAsks, raTells, raFaults, raEdits>>
PVars == <<nat, ag, sess, hole, registry, server, net, connects, p2pFaults>>
MVars == <<dev, addr, known, way, ctl, derp, meshUp, down, tun, crosses, dropped, troubles>>
vars == <<part, RVars, WVars, OVars, IVars, LVars, AVars, PVars, MVars>>

R == INSTANCE Rip
W == INSTANCE WireGuard
O == INSTANCE OpenVpn
I == INSTANCE Ipsec
L == INSTANCE L2tp
A == INSTANCE RemoteAccess
P == INSTANCE P2p
M == INSTANCE Mesh WITH up <- meshUp

At(p) == part = p

RestR == rip = 0 /\ due = 0 /\ up = 0 /\ wire = 0 /\ edits = 0
RestW == wg = 0 /\ wgAddr = 0 /\ wgWire = 0 /\ owed = 0 /\ wgFaults = 0
RestO == ovpn = 0 /\ ovpnServer = 0 /\ cnOf = 0 /\ place = 0 /\ asks = 0 /\ tells = 0 /\
          ovpnFaults = 0
RestI == sa = 0 /\ dpdOn = 0 /\ pskMatch = 0 /\ ipsecAddr = 0 /\ ipsecWire = 0 /\ waits = 0 /\
          ipsecFaults = 0
RestL == l2tp = 0 /\ l2tpServer = 0 /\ wrong = 0 /\ toServer = 0 /\ toLaptop = 0 /\ l2tpFaults
          = 0 /\ l2tpEdits = 0
RestA == ra = 0 /\ raServer = 0 /\ raWrong = 0 /\ raAsks = 0 /\ raTells = 0 /\ raFaults = 0 /\
          raEdits = 0
RestP == nat = 0 /\ ag = 0 /\ sess = 0 /\ hole = 0 /\ registry = 0 /\ server = 0 /\ net = 0 /\
          connects = 0 /\ p2pFaults = 0
RestM == dev = 0 /\ addr = 0 /\ known = 0 /\ way = 0 /\ ctl = 0 /\ derp = 0 /\ meshUp = 0 /\
          down = 0 /\ tun = 0 /\ crosses = 0 /\ dropped = 0 /\ troubles = 0

Init ==
  /\ part \in {"rip", "wireguard", "openvpn", "ipsec", "l2tp", "ravpn", "p2p", "mesh"}
  /\ IF At("rip") THEN R!Init ELSE RestR
  /\ IF At("wireguard") THEN W!Init ELSE RestW
  /\ IF At("openvpn") THEN O!Init ELSE RestO
  /\ IF At("ipsec") THEN I!Init ELSE RestI
  /\ IF At("l2tp") THEN L!Init ELSE RestL
  /\ IF At("ravpn") THEN A!Init ELSE RestA
  /\ IF At("p2p") THEN P!Init ELSE RestP
  /\ IF At("mesh") THEN M!Init ELSE RestM

Next ==
  \/ At("rip") /\ R!Next /\ UNCHANGED <<part, WVars, OVars, IVars, LVars, AVars, PVars, MVars>>
  \/ At("wireguard") /\ W!Next /\ UNCHANGED <<part, RVars, OVars, IVars, LVars, AVars, PVars, MVars>>
  \/ At("openvpn") /\ O!Next /\ UNCHANGED <<part, RVars, WVars, IVars, LVars, AVars, PVars, MVars>>
  \/ At("ipsec") /\ I!Next /\ UNCHANGED <<part, RVars, WVars, OVars, LVars, AVars, PVars, MVars>>
  \/ At("l2tp") /\ L!Next /\ UNCHANGED <<part, RVars, WVars, OVars, IVars, AVars, PVars, MVars>>
  \/ At("ravpn") /\ A!Next /\ UNCHANGED <<part, RVars, WVars, OVars, IVars, LVars, PVars, MVars>>
  \/ At("p2p") /\ P!Next /\ UNCHANGED <<part, RVars, WVars, OVars, IVars, LVars, AVars, MVars>>
  \/ At("mesh") /\ M!Next /\ UNCHANGED <<part, RVars, WVars, OVars, IVars, LVars, AVars, PVars>>

Fairness ==
  /\ \A p \in W!Peers : WF_WVars(At("wireguard") /\ W!Handle(p))
  /\ \A p \in W!Peers : WF_WVars(At("wireguard") /\ W!Rekey(p))
  /\ \A p \in W!Peers : WF_WVars(At("wireguard") /\ W!Dead(p))
  /\ \A p \in W!Peers : WF_WVars(At("wireguard") /\ W!Keepalive(p))
  /\ WF_WVars(At("wireguard") /\ W!Send("c"))
  /\ WF_WVars(At("wireguard") /\ W!Resolved(TRUE))
  /\ \A c \in OvpnClients : WF_OVars(At("openvpn") /\ O!ClientHandle(c))
  /\ \A c \in OvpnClients : WF_OVars(At("openvpn") /\ O!ServerHandle(c))
  /\ \A c \in OvpnClients : WF_OVars(At("openvpn") /\ O!Resolved(c, TRUE))
  /\ \A c \in OvpnClients : WF_OVars(At("openvpn") /\ O!Retry(c))
  /\ \A c \in OvpnClients : WF_OVars(At("openvpn") /\ O!ConnectRetry(c))
  /\ \A c \in OvpnClients : WF_OVars(At("openvpn") /\ O!Reconnect(c))
  /\ \A c \in OvpnClients : WF_OVars(At("openvpn") /\ O!Ping(c))
  /\ \A c \in OvpnClients : WF_OVars(At("openvpn") /\ O!PingRestart(c))
  /\ \A p \in I!Ends : WF_IVars(At("ipsec") /\ I!Handle(p))
  /\ \A p \in I!Ends : WF_IVars(At("ipsec") /\ I!OnTimer(p))
  /\ \A p \in I!Ends : WF_IVars(At("ipsec") /\ I!OnDpdTick(p))
  /\ WF_IVars(At("ipsec") /\ I!SendIpsec("a"))
  /\ \A c \in Laptops : WF_LVars(At("l2tp") /\ L!LaptopHandle(c))
  /\ \A c \in Laptops : WF_LVars(At("l2tp") /\ L!ServerHandle(c))
  /\ \A c \in Laptops : WF_LVars(At("l2tp") /\ L!OnTimer(c))
  /\ \A c \in Laptops : WF_LVars(At("l2tp") /\ L!Intercept(c))
  /\ \A c \in RaClients : WF_AVars(At("ravpn") /\ A!ClientHandle(c))
  /\ \A c \in RaClients : WF_AVars(At("ravpn") /\ A!ServerHandle(c))
  /\ \A c \in RaClients : WF_AVars(At("ravpn") /\ A!OnTimer(c))
  /\ \A c \in RaClients : WF_AVars(At("ravpn") /\ A!Intercept(c))
  /\ \A c \in RaClients : WF_AVars(At("ravpn") /\ A!OnDpdTick(c))
  /\ WF_PVars(At("p2p") /\ P!Tick)
  /\ \A i \in Agents : WF_PVars(At("p2p") /\ P!ServerAnswers(i))
  /\ \A i \in Agents : WF_PVars(At("p2p") /\ P!OnTimer(i))
  /\ \A i \in Agents : WF_PVars(At("p2p") /\ P!OnRegisterTimer(i))
  /\ \A p \in P!Pairs : WF_PVars(At("p2p") /\ P!HandleSignal(p))
  /\ \A p \in P!Pairs : WF_PVars(At("p2p") /\ P!HandlePeer(p))
  /\ \A i \in Devices : WF_MVars(At("mesh") /\ M!ServerHandle(i))
  /\ \A i \in Devices : WF_MVars(At("mesh") /\ M!Handle(i))
  /\ \A i \in Devices : WF_MVars(At("mesh") /\ M!LoginTimer(i))

Spec == Init /\ [][Next]_vars /\ Fairness

-------------------------------------------------------------------------------
\* The state of each component has the shape the code relies on
TypeOK ==
  /\ At("rip") => R!TypeOK
  /\ At("wireguard") => W!TypeOK
  /\ At("openvpn") => O!TypeOK
  /\ At("ipsec") => I!TypeOK
  /\ At("l2tp") => L!TypeOK
  /\ At("ravpn") => A!TypeOK
  /\ At("p2p") => P!TypeOK
  /\ At("mesh") => M!TypeOK

\* Once nothing is due, all routers know the shortest ways; and a packet sent into a tunnel finds
\* the far end able to open it, as long as nothing was lost or forgotten, however both ends began; a refused
\* laptop is told so, and not of a timeout, unless too much was lost; two programs
\* that connect to each other get together, over the relay only if they must, and the devices of a mesh
\* network know where the others are, if nothing is lost
EndsAgree ==
  /\ At("rip") => R!Converged
  /\ At("wireguard") => W!InStep
  /\ At("ipsec") => I!Opens
  /\ At("l2tp") => L!TrueReason
  /\ At("ravpn") => A!TrueReason
  /\ At("p2p") => P!OneOffers /\ P!NoNeedToFail /\ P!RelayOnlyIfNeeded
  /\ At("mesh") => M!MapsTrue

\* A VPN server gives no address to two devices, and device and server mean the same address
OneAddressEach ==
  /\ At("openvpn") => O!OneHolder /\ O!SameAddress
  /\ At("l2tp") => L!OneHolder /\ L!SameAddress
  /\ At("ravpn") => A!OneHolder /\ A!SameAddress

\* What is still to be settled, in the tunnel of the first or the second device or gateway
Unsettled(i) ==
  \/ At("wireguard") /\ i = 1 /\ owed["c"]
  \/ At("openvpn") /\ ~O!Settled(<<"c", "d">>[i])
  \/ At("ipsec") /\ LET p == <<"a", "b">>[i] IN I!Waiting(p) \/ I!HalfOpen(p)
  \/ At("l2tp") /\ LET c == <<"c", "d">>[i] IN L!Stranded(c) \/ L!Attempting(c)
  \/ At("ravpn") /\ LET c == <<"c", "d">>[i] IN A!Stranded(c) \/ A!Attempting(c)
  \/ At("p2p") /\ P!Open(i)
  \/ At("mesh") /\ M!LoggingIn(<<"a", "b">>[i])

\* What a host keeps sending through a WireGuard tunnel, or an IPsec tunnel with DPD, arrives in the
\* end; an OpenVPN client that may connect is in a session its server knows; an IPsec end with
\* DPD, an L2TP laptop and an IKEv2 laptop (with DPD, or an address the server still gives) do not
\* keep a tunnel that the other end has forgotten; an attempt to connect two programs ends, and a
\* device of a mesh network is logged in
TunnelsRecover ==
  \A i \in {1, 2} : Unsettled(i) ~> ~Unsettled(i)

\* Two OpenVPN clients that were given the same certificate
OneCertificate ==
  At("openvpn") /\ Init /\ cnOf["c"] = cnOf["d"] /\ [][Next]_vars /\ Fairness

\* openvpn.ts:295: a client thrown out does not connect again by itself
StaysOut ==
  [][At("openvpn") => O!NotByItself]_vars

===============================================================================
