---------------------------------- MODULE Mesh ---------------------------------
(***************************************************************************)
(* Mesh networks, Tailscale and ZeroTier (src/src/core/nodes/tailscale.ts):*)
(* devices that log in at a coordinator, get its map of the network when-  *)
(* ever something changes, send by a relay and look for a direct path.     *)
(* Every device is behind a translator of its own, so its candidate is the *)
(* outer address STUN reports; whether pings cross the translators of two  *)
(* devices (the subject of P2p) is chosen once.  An address is a number,   *)
(* another one after every move.  Messages are faster than timers.         *)
(***************************************************************************)
EXTENDS Naturals, Sequences, FiniteSets, TLC

CONSTANTS
  Devices,
  Talks,        \* bound: the pairs <<i, j>> where i sends to j
  LoginTries,   \* logins sent before the slow ones (3)
  DiscoTries,   \* rounds of pings before a device stays on the relay (5)
  MaxTroubles   \* bound: addresses lost, changes of the configuration and messages lost

VARIABLES
  dev,     \* dev[i]: on, share (routes and exit node it offers), phase, tries, self, ep, stun
  addr,    \* addr[i]: its outer address; 0: none now
  known,   \* known[i][j]: what i's map says of j: online, share, eps
  way,     \* way[i][j]: path, fresh (confirmed lately), disco (rounds), relayOnly
  ctl,     \* ctl[j]: what the coordinator knows of j, and where it reaches it (at)
  derp,    \* derp[j]: the address the relay knows of j
  up,      \* up[i]: messages from i to the servers
  down,    \* down[i]: messages from the servers to i
  tun,     \* tun[i, j]: messages from i to j directly
  crosses, \* do pings cross the translators?
  dropped, \* has a message been lost?
  troubles
meshVars == <<dev, addr, known, way, ctl, derp, up, down, tun, crosses, dropped, troubles>>

Pairs == {p \in Devices \X Devices : p[1] # p[2]}
Unknown == [online |-> FALSE, share |-> FALSE, eps |-> {}, entry |-> FALSE]
NoWay == [path |-> 0, fresh |-> FALSE, disco |-> 0, relayOnly |-> FALSE]
Off(on, share) == [on |-> on, share |-> share, phase |-> "off", tries |-> 0, self |-> FALSE, ep |-> 0, stun |-> FALSE]
Eps(d) == IF d.ep = 0 THEN {} ELSE {d.ep}

Quiet == /\ \A i \in Devices : up[i] = <<>> /\ down[i] = <<>>
         /\ \A p \in Pairs : tun[p] = <<>>
Trouble == troubles < MaxTroubles /\ troubles' = troubles + 1
IsUp(i) == dev[i].on /\ dev[i].phase = "up" /\ dev[i].self

-------------------------------------------------------------------------------
(* To the servers, each message with its sender's address *)

Status(op, d) == [op |-> op, eps |-> Eps(d), share |-> d.share]
Stun(d) == IF d.ep = 0 THEN <<[op |-> "stun"]>> ELSE <<>>
Hello(d) == <<[op |-> "hello"]>> \o Stun(d)
SentFrom(at, ms) == [k \in DOMAIN ms |-> ms[k] @@ [from |-> at]]
ToServers(i, ms) == IF addr[i] = 0 THEN up[i] ELSE up[i] \o SentFrom(addr[i], ms)
LoginMessages(d) == <<Status("login", d)>> \o Hello(d)

\* what a login makes of a device that has an address
Login(d) == [d EXCEPT !.phase = "login", !.tries = 1, !.ep = 0, !.stun = TRUE]

\* all devices are on, logged in and at rest
Init ==
  LET rec == [online |-> TRUE, share |-> FALSE, eps |-> {1}, entry |-> TRUE] IN
  /\ dev = [i \in Devices |-> [Off(TRUE, FALSE) EXCEPT !.phase = "up", !.tries = 1, !.self = TRUE, !.ep = 1]]
  /\ addr = [i \in Devices |-> 1]
  /\ known = [i \in Devices |-> [j \in Devices \ {i} |-> rec]]
  /\ way = [i \in Devices |-> [j \in Devices \ {i} |-> NoWay]]
  /\ ctl = [i \in Devices |-> [at |-> 1] @@ rec] /\ derp = [i \in Devices |-> 1]
  /\ up = [i \in Devices |-> <<>>] /\ down = [i \in Devices |-> <<>>]
  /\ tun = [p \in Pairs |-> <<>>]
  /\ crosses \in BOOLEAN
  /\ dropped = FALSE /\ troubles = 0

\* i logs in if it has an address, with the messages of before first
StartLogin(i, d, before) ==
  IF addr[i] = 0 THEN dev' = [dev EXCEPT ![i] = d] /\ UNCHANGED up
  ELSE /\ dev' = [dev EXCEPT ![i] = Login(d)]
       /\ up' = [up EXCEPT ![i] = ToServers(i, before \o LoginMessages(Login(d)))]

ForgetPeers(i) ==
  /\ known' = [known EXCEPT ![i] = [j \in Devices \ {i} |-> Unknown]]
  /\ way' = [way EXCEPT ![i] = [j \in Devices \ {i} |-> NoWay]]

Logout(i) == IF dev[i].phase = "up" THEN <<[op |-> "logout"]>> ELSE <<>>

Switch(i) ==
  /\ Trouble
  /\ IF dev[i].on
     THEN /\ dev' = [dev EXCEPT ![i] = Off(FALSE, @.share)]
          /\ up' = [up EXCEPT ![i] = ToServers(i, Logout(i))]
     ELSE StartLogin(i, Off(TRUE, dev[i].share), <<>>)
  /\ ForgetPeers(i)
  /\ UNCHANGED <<addr, ctl, derp, down, tun, crosses, dropped>>

\* only what it offers changes: a device that is up stays so
Share(i) ==
  /\ Trouble /\ dev[i].on
  /\ LET d == [dev[i] EXCEPT !.share = ~@] IN
     IF d.phase = "up"
     THEN /\ dev' = [dev EXCEPT ![i] = d]
          /\ up' = [up EXCEPT ![i] = ToServers(i, <<Status("endpoints", d)>>)]
          /\ UNCHANGED <<known, way>>
     ELSE StartLogin(i, Off(TRUE, d.share), <<>>) /\ ForgetPeers(i)
  /\ UNCHANGED <<addr, ctl, derp, down, tun, crosses, dropped>>

\* the address is lost, and another one found; what is under way to the old one is lost
Lost(i) ==
  /\ Trouble /\ addr[i] # 0
  /\ addr' = [addr EXCEPT ![i] = 0]
  /\ IF dev[i].on
     THEN /\ dev' = [dev EXCEPT ![i].phase = "off"]
          /\ way' = [way EXCEPT ![i] = [j \in Devices \ {i} |-> [@[j] EXCEPT !.path = 0, !.disco = 0, !.relayOnly = FALSE]]]
     ELSE UNCHANGED <<dev, way>>
  /\ UNCHANGED <<known, ctl, derp, up, down, tun, crosses, dropped>>

OnAddress(i) ==
  /\ addr[i] = 0
  /\ addr' = [addr EXCEPT ![i] = troubles + 1]
  /\ IF dev[i].on /\ dev[i].phase = "off"
     THEN LET d == Login(dev[i]) IN
          /\ dev' = [dev EXCEPT ![i] = d]
          /\ up' = [up EXCEPT ![i] = @ \o SentFrom(troubles + 1, LoginMessages(d))]
     ELSE UNCHANGED <<dev, up>>
  /\ UNCHANGED <<known, way, ctl, derp, down, tun, crosses, dropped, troubles>>

-------------------------------------------------------------------------------
(* The servers *)

\* every device that is online gets a map of its own
Pushed(c) ==
  [r \in Devices |->
    IF c[r].online
    THEN Append(down[r], [op |-> "netmap", to |-> c[r].at,
                          map |-> [j \in Devices \ {r} |-> [online |-> c[j].online, share |-> c[j].share,
                                                            eps |-> c[j].eps, entry |-> c[j].entry]]])
    ELSE down[r]]

Record(m, online) == [online |-> online, share |-> m.share, eps |-> m.eps, entry |-> TRUE, at |-> m.from]

Control(i, m) ==
  LET r == ctl[i]
      c == [ctl EXCEPT ![i] =
             CASE m.op = "login" -> Record(m, TRUE)
               [] m.op = "logout" -> [r EXCEPT !.online = FALSE]
               [] OTHER -> Record(m, r.online)] IN
  IF m.op # "login" /\ ~r.entry THEN UNCHANGED <<ctl, down>>
  ELSE /\ ctl' = c
       /\ down' = IF m.op = "endpoints" /\ r.share = m.share /\ r.eps = m.eps THEN down ELSE Pushed(c)

Relay(i, m) ==
  /\ derp' = [derp EXCEPT ![i] = m.from]
  /\ down' = IF m.op = "send" /\ derp[m.far] # 0
             THEN [down EXCEPT ![m.far] = Append(@, [op |-> "recv", to |-> derp[m.far], far |-> i, msg |-> m.msg])]
             ELSE down

ServerHandle(i) ==
  /\ up[i] # <<>>
  /\ up' = [up EXCEPT ![i] = Tail(@)]
  /\ LET m == Head(up[i]) IN
     CASE m.op \in {"hello", "send"} -> Relay(i, m) /\ UNCHANGED ctl
       [] m.op = "stun" -> /\ down' = [down EXCEPT ![i] = Append(@, [op |-> "stun", to |-> m.from])]
                           /\ UNCHANGED <<ctl, derp>>
       [] OTHER -> Control(i, m) /\ UNCHANGED derp
  /\ UNCHANGED <<dev, addr, known, way, tun, crosses, dropped, troubles>>

-------------------------------------------------------------------------------
(* Between the devices *)

Ping(i, eps) == [e \in 1 .. Cardinality(eps) |->
  [op |-> "ping", from |-> addr[i], to |-> CHOOSE x \in eps : Cardinality({y \in eps : y < x}) = e - 1]]
CallMe(i, j) == [op |-> "send", far |-> j, msg |-> [op |-> "call", eps |-> Eps(dev[i])]]
RelayData(j) == [op |-> "send", far |-> j, msg |-> [op |-> "data", eps |-> {}]]

Confirmed(w, at) == [w EXCEPT !.path = at, !.fresh = TRUE, !.relayOnly = FALSE, !.disco = 0]

\* i looks for a direct path to j, if it does not already: w becomes the way, eps the candidates
Disco(i, j, w, eps) ==
  IF w.disco > 0 THEN [w |-> w, pings |-> <<>>]
  ELSE [w |-> [w EXCEPT !.disco = 1], pings |-> Ping(i, eps)]

ApplyNetmap(i, m) ==
  /\ dev' = [dev EXCEPT ![i].phase = "up", ![i].self = TRUE]
  /\ known' = [known EXCEPT ![i] = m.map]
  /\ way' = [way EXCEPT ![i] = [j \in Devices \ {i} |->
       IF known[i][j].entry /\ known[i][j].eps = m.map[j].eps /\ m.map[j].online THEN @[j]
       ELSE [@[j] EXCEPT !.path = 0, !.relayOnly = FALSE, !.disco = 0]]]
  /\ UNCHANGED <<up, tun>>

HandleStun(i, m) ==
  LET d == [dev[i] EXCEPT !.stun = FALSE, !.ep = m.to] IN
  /\ dev' = [dev EXCEPT ![i] = IF dev[i].stun THEN d ELSE @]
  /\ up' = IF dev[i].stun /\ dev[i].ep # m.to THEN [up EXCEPT ![i] = ToServers(i, <<Status("endpoints", d)>>)] ELSE up
  /\ UNCHANGED <<known, way, tun>>

\* j's message m to i by the relay: data, or a call to ping it
FromRelay(i, j, m) ==
  LET w == way[i][j]
      d == Disco(i, j, w, m.eps) IN
  IF m.op = "data" THEN UNCHANGED <<known, way, tun>>
  ELSE /\ known' = [known EXCEPT ![i][j].eps = m.eps]
       /\ IF w.path = 0
          THEN way' = [way EXCEPT ![i][j] = d.w] /\ tun' = [tun EXCEPT ![<<i, j>>] = @ \o d.pings]
          ELSE UNCHANGED <<way, tun>>

Knows(i, j) == known[i][j].entry /\ dev[i].self

Handle(i) ==
  /\ down[i] # <<>>
  /\ down' = [down EXCEPT ![i] = Tail(@)]
  /\ LET m == Head(down[i]) IN
     CASE m.to # addr[i] \/ ~dev[i].on -> UNCHANGED <<dev, known, way, up, tun>>
       [] m.to = addr[i] /\ dev[i].on /\ m.op = "netmap" -> ApplyNetmap(i, m)
       [] m.to = addr[i] /\ dev[i].on /\ m.op = "stun" -> HandleStun(i, m)
       [] OTHER -> /\ IF Knows(i, m.far) THEN FromRelay(i, m.far, m.msg) ELSE UNCHANGED <<known, way, tun>>
                   /\ UNCHANGED <<dev, up>>
  /\ UNCHANGED <<addr, ctl, derp, crosses, dropped, troubles>>

HandleDirect(p) ==
  /\ tun[p] # <<>>
  /\ LET i == p[2]
         j == p[1]
         m == Head(tun[p])
         rest == [tun EXCEPT ![p] = Tail(@)]
         arrives == m.to = addr[i] /\ dev[i].on /\ (m.op = "ping" => crosses) IN
     IF ~arrives \/ ~Knows(i, j)
     THEN tun' = rest /\ UNCHANGED way
     ELSE LET w == way[i][j] IN
          /\ way' = [way EXCEPT ![i][j] =
               CASE m.op = "data" -> [w EXCEPT !.path = m.from, !.fresh = TRUE, !.relayOnly = FALSE]
                 [] m.op = "pong" /\ w.disco = 0 /\ w.path = m.from -> w
                 [] OTHER -> Confirmed(w, m.from)]
          /\ tun' = IF m.op = "ping"
                    THEN [rest EXCEPT ![<<i, j>>] = Append(@, [op |-> "pong", from |-> addr[i], to |-> m.from])] ELSE rest
  /\ UNCHANGED <<dev, addr, known, ctl, derp, up, down, crosses, dropped, troubles>>

\* a host behind i, or i itself, sends to j, or to what j offers; rested: the relay has been used long enough
Send(i, j, rested) ==
  /\ IsUp(i) /\ known[i][j].online /\ addr[i] # 0 /\ Quiet
  /\ LET w == [way[i][j] EXCEPT !.relayOnly = @ /\ ~rested]
         stale == w.path # 0 /\ ~w.fresh
         eps == known[i][j].eps \cup (IF stale THEN {w.path} ELSE {})
         d == Disco(i, j, [w EXCEPT !.path = 0], eps)
         looks == stale \/ ~w.relayOnly
         calls == IF looks /\ w.disco = 0 THEN <<CallMe(i, j)>> ELSE <<>> IN
     /\ rested => way[i][j].relayOnly
     /\ IF w.path # 0 /\ ~stale
        THEN /\ tun' = [tun EXCEPT ![<<i, j>>] = Append(@, [op |-> "data", from |-> addr[i], to |-> w.path])]
             /\ way' = [way EXCEPT ![i][j] = w]
             /\ UNCHANGED <<up, known>>
        ELSE /\ up' = [up EXCEPT ![i] = ToServers(i, <<RelayData(j)>> \o calls)]
             /\ known' = [known EXCEPT ![i][j].eps = eps]
             /\ way' = [way EXCEPT ![i][j] = IF looks THEN d.w ELSE w]
             /\ tun' = [tun EXCEPT ![<<i, j>>] = @ \o (IF looks THEN d.pings ELSE <<>>)]
  /\ UNCHANGED <<dev, addr, ctl, derp, down, crosses, dropped, troubles>>

-------------------------------------------------------------------------------
(* Timers; the slow logins and the refresh are background timers *)

LoginTimer(i) ==
  /\ dev[i].on /\ dev[i].phase = "login" /\ up[i] = <<>>
  /\ \A k \in DOMAIN down[i] : down[i][k].op # "netmap"
  /\ LET tries == IF dev[i].tries <= LoginTries THEN dev[i].tries + 1 ELSE dev[i].tries
         d == [dev[i] EXCEPT !.tries = tries, !.stun = @ \/ dev[i].ep = 0] IN
     /\ dev' = [dev EXCEPT ![i] = d]
     /\ up' = [up EXCEPT ![i] = ToServers(i, LoginMessages(d))]
  /\ UNCHANGED <<addr, known, way, ctl, derp, down, tun, crosses, dropped, troubles>>

Refresh(i) ==
  /\ dev[i].on /\ dev[i].phase = "up" /\ addr[i] # 0 /\ Quiet
  /\ dev' = [dev EXCEPT ![i].stun = TRUE]
  /\ up' = [up EXCEPT ![i] = ToServers(i, <<Status("endpoints", dev[i]), [op |-> "hello"], [op |-> "stun"]>>)]
  /\ UNCHANGED <<addr, known, way, ctl, derp, down, tun, crosses, dropped, troubles>>

DiscoTimer(i, j) ==
  /\ way[i][j].disco > 0 /\ Quiet
  /\ way' = [way EXCEPT ![i][j] = IF @.disco >= DiscoTries THEN [@ EXCEPT !.disco = 0, !.relayOnly = TRUE]
                                  ELSE [@ EXCEPT !.disco = @ + 1]]
  /\ tun' = IF way[i][j].disco >= DiscoTries \/ addr[i] = 0 THEN tun
            ELSE [tun EXCEPT ![<<i, j>>] = @ \o Ping(i, known[i][j].eps)]
  /\ UNCHANGED <<dev, addr, known, ctl, derp, up, down, crosses, dropped, troubles>>

\* time goes by without a confirmation of the path
Age(i, j) ==
  /\ way[i][j].fresh /\ Quiet
  /\ way' = [way EXCEPT ![i][j].fresh = FALSE]
  /\ UNCHANGED <<dev, addr, known, ctl, derp, up, down, tun, crosses, dropped, troubles>>

Lose ==
  /\ Trouble /\ dropped' = TRUE
  /\ \/ \E i \in Devices : up[i] # <<>> /\ up' = [up EXCEPT ![i] = Tail(@)] /\ UNCHANGED <<down, tun>>
     \/ \E i \in Devices : down[i] # <<>> /\ down' = [down EXCEPT ![i] = Tail(@)] /\ UNCHANGED <<up, tun>>
     \/ \E p \in Pairs : tun[p] # <<>> /\ tun' = [tun EXCEPT ![p] = Tail(@)] /\ UNCHANGED <<up, down>>
  /\ UNCHANGED <<dev, addr, known, way, ctl, derp, crosses>>

Next ==
  \/ \E i \in Devices :
       \/ Switch(i) \/ Share(i) \/ Lost(i) \/ OnAddress(i)
       \/ ServerHandle(i) \/ Handle(i) \/ LoginTimer(i) \/ Refresh(i)
  \/ \E p \in Pairs :
       \/ HandleDirect(p) \/ DiscoTimer(p[1], p[2]) \/ Age(p[1], p[2])
       \/ p \in Talks /\ \E rested \in BOOLEAN : Send(p[1], p[2], rested)
  \/ Lose

-------------------------------------------------------------------------------
TypeOK ==
  \A i \in Devices :
    /\ ~dev[i].on => dev[i] = Off(FALSE, dev[i].share)
    /\ dev[i].phase = "up" => dev[i].self
    /\ ctl[i].online => ctl[i].entry
    /\ \A j \in Devices \ {i} :
         /\ way[i][j].disco \in 0 .. DiscoTries
         /\ way[i][j].path # 0 => known[i][j].entry

\* As long as nothing is lost, the map of every device that is up is the coordinator's, which
\* knows of each such device what it offers and where it is, and so does the relay, once all
\* that was sent has arrived: what goes by the relay reaches the device it is for.
MapsTrue ==
  ~dropped /\ Quiet => \A i \in Devices : IsUp(i) /\ addr[i] # 0 =>
    /\ ctl[i].online /\ ctl[i].at = addr[i] /\ ctl[i].share = dev[i].share /\ ctl[i].eps = {addr[i]} /\ derp[i] = addr[i]
    /\ \A j \in Devices \ {i} : /\ known[i][j].online = ctl[j].online /\ known[i][j].share = ctl[j].share
                                /\ ctl[j].eps \subseteq known[i][j].eps

\* A device that is on and has an address is logged in in the end.
LoggingIn(i) == dev[i].on /\ addr[i] # 0 /\ dev[i].phase # "up"
===============================================================================
