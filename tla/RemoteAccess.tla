------------------------------ MODULE RemoteAccess ------------------------------
(***************************************************************************)
(* Remote access by IKEv2 (src/src/core/nodes/ravpn.ts): laptops negotiate *)
(* with a gateway in two exchanges, or three if it asks for an account,    *)
(* and get an address of the company's network.                            *)
(*                                                                         *)
(* As in L2tp, a device has one SA at the server at most, an SPI is drawn  *)
(* from those not in use, a message is faster than any timer, and NAT      *)
(* makes no difference (the outer address of a laptop does not change).    *)
(***************************************************************************)
EXTENDS Naturals, Sequences, FiniteSets, FiniteSetsExt

CONSTANTS
  RaClients,
  RaSecrets,     \* possible secrets: what each laptop has wrong, "psk", "account" or "none"
  RaPools,       \* possible pools of the server, sets of addresses
  RaRetransmits, \* times a request is sent again (IKE_RETRANSMITS)
  MaxRaFaults    \* bound: messages lost, settings of the server, users' doings, moves

VARIABLES
  ra,       \* ra[c]: state, what was asked last and how often, spi, vip, whether DPD is on, and why it failed
  raServer, \* pool, accounts; pending[c], eapPending[c]: SPIs of negotiations;
            \* clients[c]: SPI and address; leases[c] (0: none); lastAuth[c]
  raWrong,  \* raWrong[c]
  raAsks, raTells, \* raAsks[c], raTells[c]: messages of c and to c under way
  raFaults, raEdits
raVars == <<ra, raServer, raWrong, raAsks, raTells, raFaults, raEdits>>

Off(dpd) == [state |-> "off", asked |-> "none", tries |-> 0, spi |-> 0, vip |-> 0, dpd |-> dpd, why |-> "none"]
NoClient == [spi |-> 0, vip |-> 0]
NoAnswer == [op |-> "none", spi |-> 0, v |-> 0, eap |-> FALSE]
NoSpis == [c \in RaClients |-> {}]

NewServer(pool, accounts) ==
  [pool |-> pool, accounts |-> accounts, pending |-> NoSpis, eapPending |-> NoSpis,
   clients |-> [c \in RaClients |-> NoClient], leases |-> [c \in RaClients |-> 0],
   lastAuth |-> [c \in RaClients |-> NoAnswer]]

Init ==
  /\ raWrong \in RaSecrets
  /\ \E dpd \in BOOLEAN : ra = [c \in RaClients |-> Off(dpd)]
  /\ \E pool \in RaPools, accounts \in BOOLEAN : raServer = NewServer(pool, accounts)
  /\ raAsks = [c \in RaClients |-> <<>>] /\ raTells = [c \in RaClients |-> <<>>]
  /\ raFaults = 0 /\ raEdits = 0

Msg(op, spi, v) == <<[op |-> op, spi |-> spi, v |-> v]>>
Still(x) == [x |-> x, out |-> <<>>]

Spis(msgs) == {msgs[i].spi : i \in DOMAIN msgs}
UsedSpis(c) == {ra[c].spi, raServer.clients[c].spi, raServer.lastAuth[c].spi}
               \cup raServer.pending[c] \cup raServer.eapPending[c] \cup Spis(raAsks[c]) \cup Spis(raTells[c])
NewSpi(c) == CHOOSE n \in 1 .. Cardinality(UsedSpis(c)) + 1 : n \notin UsedSpis(c)

Request(x, op) == [x |-> [x EXCEPT !.asked = op, !.tries = 0], out |-> Msg(op, x.spi, x.vip)]
Connect(c) == Request([Off(ra[c].dpd) EXCEPT !.spi = NewSpi(c), !.state = "init"], "init")
Fail(x, why) == Still([x EXCEPT !.state = "failed", !.asked = "none", !.tries = 0, !.vip = 0, !.why = why])

Become(c, step) == /\ ra' = [ra EXCEPT ![c] = step.x]
                   /\ raAsks' = [raAsks EXCEPT ![c] = @ \o step.out]

-------------------------------------------------------------------------------
\* The server: its next state and its answer to message m of laptop c
Serve(s, answer) == [s |-> s, out |-> answer]

InUse(s, c) == {s.clients[d].vip : d \in RaClients \ {c}} \ {0}
Leased(s, c) == {s.leases[d] : d \in RaClients \ {c}} \ {0}

\* the last address if nobody has it, one that nobody has or had, or the last one of a laptop not connected
Allocate(s, c) ==
  IF s.leases[c] # 0 /\ s.leases[c] \notin InUse(s, c) THEN {s.leases[c]}
  ELSE IF s.pool \ (InUse(s, c) \cup Leased(s, c)) # {} THEN {Min(s.pool \ (InUse(s, c) \cup Leased(s, c)))}
  ELSE Leased(s, c) \ InUse(s, c)

\* the last answer to an IKE_AUTH is remembered, to be given again
FinalAuth(s, c, eap, op, spi, v) ==
  Serve([s EXCEPT !.lastAuth[c] = [op |-> op, spi |-> spi, v |-> v, eap |-> eap]], Msg(op, spi, v))

Grant(s, c, spi, eap) ==
  IF Allocate(s, c) = {} THEN {FinalAuth(s, c, eap, "refused", spi, 0)}
  ELSE {FinalAuth([s EXCEPT !.clients[c] = [spi |-> spi, vip |-> v],
                            !.leases = [d \in RaClients |-> IF d = c THEN v ELSE IF @[d] = v THEN 0 ELSE @[d]]],
                  c, eap, "assigned", spi, v) : v \in Allocate(s, c)}

Auth(s, c, m) ==
  LET t == [s EXCEPT !.pending[c] = @ \ {m.spi}] IN
  IF m.spi \notin s.pending[c]
  THEN {Serve(s, IF m.spi \in s.eapPending[c] THEN Msg("eap", m.spi, 0) ELSE <<>>)}
  ELSE IF raWrong[c] = "psk" THEN {FinalAuth(t, c, FALSE, "refused", m.spi, 0)}
  ELSE IF s.accounts THEN {Serve([t EXCEPT !.eapPending[c] = @ \cup {m.spi}], Msg("eap", m.spi, 0))}
  ELSE Grant(t, c, m.spi, FALSE)

Eap(s, c, m) ==
  LET t == [s EXCEPT !.eapPending[c] = @ \ {m.spi}] IN
  IF m.spi \notin s.eapPending[c] THEN {Serve(s, <<>>)}
  ELSE IF s.accounts /\ raWrong[c] = "account" THEN {FinalAuth(t, c, TRUE, "refused", m.spi, 0)}
  ELSE Grant(t, c, m.spi, TRUE)

Answered(s, c, m) ==
  m.op \in {"auth", "eap"} /\ s.lastAuth[c].spi = m.spi /\ s.lastAuth[c].eap = (m.op = "eap")

\* a tunnel nobody knows: its laptop is told, if what came is of the pool
HandleIke(s, c, m) ==
  LET known == s.clients[c].spi = m.spi IN
  IF m.op = "init" THEN {Serve([s EXCEPT !.pending[c] = @ \cup {m.spi}], Msg("init", m.spi, 0))}
  ELSE IF m.op = "dpd" THEN {Serve(s, Msg(IF known THEN "alive" ELSE "invalid", m.spi, 0))}
  ELSE IF m.op = "delete"
  THEN {Serve([s EXCEPT !.clients[c] = NoClient, !.leases[c] = 0, !.lastAuth[c] = NoAnswer], <<>>)}
  ELSE IF m.op = "esp"
  THEN {Serve(s, IF m.v \in s.pool /\ s.clients[c] # [spi |-> m.spi, vip |-> m.v]
                 THEN Msg("invalid", m.spi, 0) ELSE <<>>)}
  ELSE IF Answered(s, c, m) THEN {Serve(s, Msg(s.lastAuth[c].op, m.spi, s.lastAuth[c].v))}
  ELSE IF m.op = "auth" THEN Auth(s, c, m)
  ELSE Eap(s, c, m)

ServerHandle(c) ==
  /\ raAsks[c] # <<>>
  /\ raAsks' = [raAsks EXCEPT ![c] = Tail(@)]
  /\ \E step \in HandleIke(raServer, c, Head(raAsks[c])) :
       raServer' = step.s /\ raTells' = [raTells EXCEPT ![c] = @ \o step.out]
  /\ UNCHANGED <<ra, raWrong, raFaults, raEdits>>

Room == raFaults + raEdits < MaxRaFaults
Edit == Room /\ raEdits' = raEdits + 1

\* a new configuration, of the same pool or another: everything is forgotten, and nobody told
SetServer(pool) ==
  /\ Edit /\ raServer' = NewServer(pool, raServer.accounts)
  /\ UNCHANGED <<ra, raWrong, raAsks, raTells, raFaults>>

\* accounts are added to a server that had none, or the last one removed: who is connected stays so
SetUsers ==
  /\ Edit /\ raServer' = [raServer EXCEPT !.accounts = ~@]
  /\ UNCHANGED <<ra, raWrong, raAsks, raTells, raFaults>>

\* the box stops being master of its pair: tunnels and negotiations are gone, leases are not
DropAll ==
  /\ Edit
  /\ raServer' = [NewServer(raServer.pool, raServer.accounts) EXCEPT !.leases = raServer.leases]
  /\ UNCHANGED <<ra, raWrong, raAsks, raTells, raFaults>>

-------------------------------------------------------------------------------
\* The laptop
Heard(c, x, m) ==
  IF m.op = "invalid" /\ x.state = "up" THEN Connect(c)
  ELSE IF m.op = "alive" /\ x.asked = "dpd" THEN Still([x EXCEPT !.asked = "none", !.tries = 0])
  ELSE IF m.op = "init" /\ x.state = "init" THEN Request([x EXCEPT !.state = "auth"], "auth")
  ELSE IF x.state # "auth" THEN Still(x)
  ELSE IF m.op = "eap" THEN Request(x, "eap")
  ELSE IF m.op = "refused" THEN Fail(x, "refused")
  ELSE IF m.op = "assigned" THEN Still([x EXCEPT !.state = "up", !.asked = "none", !.tries = 0, !.vip = m.v])
  ELSE Still(x)

ClientHandle(c) ==
  /\ raTells[c] # <<>>
  /\ raTells' = [raTells EXCEPT ![c] = Tail(@)]
  /\ LET m == Head(raTells[c])
     IN  Become(c, IF m.spi = ra[c].spi THEN Heard(c, ra[c], m) ELSE Still(ra[c]))
  /\ UNCHANGED <<raServer, raWrong, raFaults, raEdits>>

Quiet(c) == raAsks[c] = <<>> /\ raTells[c] = <<>>
\* what was asked is not under way, nor any answer
Unheard(c) == raTells[c] = <<>> /\ \A i \in DOMAIN raAsks[c] : raAsks[c][i].op # ra[c].asked

\* no answer for a while: asked again, or given up.  A tunnel whose server does not answer is taken down
OnTimer(c) ==
  /\ ra[c].asked # "none" /\ Unheard(c)
  /\ LET x == ra[c] IN
       Become(c, IF x.tries >= RaRetransmits THEN Fail(x, IF x.asked = "dpd" THEN "dpd" ELSE "timeout")
                 ELSE [x |-> [x EXCEPT !.tries = @ + 1], out |-> Msg(x.asked, x.spi, x.vip)])
  /\ UNCHANGED <<raServer, raWrong, raTells, raFaults, raEdits>>

Start(c) == /\ ra[c].state = "off" /\ Become(c, Connect(c))
            /\ UNCHANGED <<raServer, raWrong, raTells, raFaults, raEdits>>

\* a packet for the company's network
Intercept(c) == /\ ra[c].state = "up" /\ Quiet(c)
                /\ Become(c, [x |-> ra[c], out |-> Msg("esp", ra[c].spi, ra[c].vip)])
                /\ UNCHANGED <<raServer, raWrong, raTells, raFaults, raEdits>>

\* nothing was heard of the server for ten seconds
OnDpdTick(c) == /\ ra[c].dpd /\ ra[c].state = "up" /\ ra[c].asked = "none" /\ Unheard(c)
                /\ Become(c, Request(ra[c], "dpd"))
                /\ UNCHANGED <<raServer, raWrong, raTells, raFaults, raEdits>>

\* the user connects again, whatever there is: an open tunnel is taken down at the server first
Reconnect(c) ==
  /\ Edit
  /\ LET b == Connect(c) IN
       Become(c, [b EXCEPT !.out = (IF ra[c].state = "up" THEN Msg("delete", ra[c].spi, 0) ELSE <<>>) \o @])
  /\ UNCHANGED <<raServer, raWrong, raTells, raFaults>>

\* c has no address any more: the server is not told, and what was on its way to c is lost
Lost(c) ==
  /\ Edit /\ ra[c].state \notin {"off", "failed"}
  /\ ra' = [ra EXCEPT ![c] = [Off(@.dpd) EXCEPT !.spi = ra[c].spi]]
  /\ raTells' = [raTells EXCEPT ![c] = <<>>]
  /\ UNCHANGED <<raServer, raWrong, raAsks, raFaults>>

Drop(c) ==
  /\ Room /\ raFaults' = raFaults + 1
  /\ \/ raAsks[c] # <<>> /\ raAsks' = [raAsks EXCEPT ![c] = Tail(@)] /\ UNCHANGED raTells
     \/ raTells[c] # <<>> /\ raTells' = [raTells EXCEPT ![c] = Tail(@)] /\ UNCHANGED raAsks
  /\ UNCHANGED <<ra, raServer, raWrong, raEdits>>

Next == \/ DropAll \/ SetUsers
        \/ \E pool \in RaPools : SetServer(pool)
        \/ \E c \in RaClients : \/ ServerHandle(c) \/ ClientHandle(c) \/ OnTimer(c) \/ Start(c) \/ OnDpdTick(c)
                                \/ Intercept(c) \/ Reconnect(c) \/ Lost(c) \/ Drop(c)

-------------------------------------------------------------------------------
TypeOK ==
  \A c \in RaClients : /\ (ra[c].state = "up") = (ra[c].vip # 0)
                       /\ ra[c].asked # "none" <=> ra[c].state \in {"init", "auth"} \/ ra[c].asked = "dpd"
                       /\ raServer.clients[c].vip \in raServer.pool \cup {0}

\* No address is given to two laptops at once, and one in use is leased to who uses it
OneHolder ==
  /\ \A c, d \in RaClients : c # d /\ raServer.leases[c] # 0 => raServer.leases[c] # raServer.leases[d]
  /\ \A c \in RaClients : raServer.clients[c].vip # 0 => raServer.leases[c] = raServer.clients[c].vip

\* A laptop whose tunnel the server knows has the address the server thinks it has
SameAddress == \A c \in RaClients : ra[c].state = "up" /\ ra[c].spi = raServer.clients[c].spi
                                      => ra[c].vip = raServer.clients[c].vip

\* An attempt that times out was out of luck as often as it asked, or the server was set
\* anew meanwhile; and no tunnel is taken down for silence unless so much was lost
TrueReason == \A c \in RaClients : /\ ra[c].why = "timeout" => raFaults > RaRetransmits \/ raEdits > 0
                                   /\ ra[c].why = "dpd" => raFaults > RaRetransmits

\* A laptop that is up by a tunnel the server does not know, and can learn of it: it has DPD
\* on, or what it sends is still of the server's pool
Stranded(c) == /\ ra[c].state = "up" /\ ra[c].spi # raServer.clients[c].spi
               /\ ra[c].dpd \/ ra[c].vip \in raServer.pool
Attempting(c) == ra[c].state \in {"init", "auth"}
===============================================================================
