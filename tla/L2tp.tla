--------------------------------- MODULE L2tp ----------------------------------
(***************************************************************************)
(* Remote access by L2TP over IPsec (src/src/core/nodes/l2tp.ts): a laptop *)
(* asks a router's VPN server eight things in turn, each asked again when  *)
(* nothing is answered, and gets an address of the home network.           *)
(*                                                                         *)
(* A device has one SA at the server at most, since a new one replaces it. *)
(* An SPI is drawn from those the device has not in use, and a message is  *)
(* faster than any timer.  Whether there is a NAT makes no difference.     *)
(***************************************************************************)
EXTENDS Naturals, Sequences, FiniteSets, FiniteSetsExt

CONSTANTS
  Laptops,
  Secrets,         \* possible secrets: what each laptop has wrong, "psk" or "account", or "none"
  L2tpPool,        \* addresses the server may give
  L2tpRetransmits, \* times a request is sent again (2)
  MaxL2tpFaults    \* bound: messages lost, settings of the server, users' doings, moves

VARIABLES
  l2tp,       \* l2tp[c]: phase, spi, tries, vip, and why it failed
  l2tpServer, \* mm[c], authed[c]: SPIs of negotiations; sas[c]; leases[c] (0: none)
  wrong,      \* wrong[c]
  toServer, toLaptop, \* toServer[c], toLaptop[c]: messages of c and to c under way
  l2tpFaults, l2tpEdits
l2tpVars == <<l2tp, l2tpServer, wrong, toServer, toLaptop, l2tpFaults, l2tpEdits>>

\* what is asked after what; after the address (IPCP) the tunnel is up
After == [mm1 |-> "mm2", mm2 |-> "qm", qm |-> "sccrq", sccrq |-> "icrq", icrq |-> "lcp", lcp |-> "chap",
          chap |-> "ipcp"]
Asking == {"mm1", "mm2", "qm", "sccrq", "icrq", "lcp", "chap", "ipcp"}

Down == [phase |-> "off", spi |-> 0, tries |-> 0, vip |-> 0, why |-> "none"]
NoSa == [spi |-> 0, tunnel |-> FALSE, user |-> FALSE, vip |-> 0, failed |-> "none"]
Nothing == [c \in Laptops |-> {}]
NoSas == [c \in Laptops |-> NoSa]

Init ==
  /\ wrong \in Secrets
  /\ l2tp = [c \in Laptops |-> Down]
  /\ l2tpServer = [mm |-> Nothing, authed |-> Nothing, sas |-> NoSas, leases |-> [c \in Laptops |-> 0]]
  /\ toServer = [c \in Laptops |-> <<>>] /\ toLaptop = [c \in Laptops |-> <<>>]
  /\ l2tpFaults = 0 /\ l2tpEdits = 0

Msg(op, spi, v) == <<[op |-> op, spi |-> spi, v |-> v]>>
Still(x) == [x |-> x, out |-> <<>>]

Spis(msgs) == {msgs[i].spi : i \in DOMAIN msgs}
UsedSpis(c) == {l2tp[c].spi, l2tpServer.sas[c].spi} \cup l2tpServer.mm[c] \cup l2tpServer.authed[c]
               \cup Spis(toServer[c]) \cup Spis(toLaptop[c])
NewSpi(c) == CHOOSE n \in 1 .. Cardinality(UsedSpis(c)) + 1 : n \notin UsedSpis(c)

Ask(x, phase) == [x |-> [x EXCEPT !.phase = phase, !.tries = 0], out |-> Msg(phase, x.spi, 0)]
Begin(c) == Ask([Down EXCEPT !.spi = NewSpi(c)], "mm1")
\* (mutant) the address outlives the tunnel
FailKeepingAddress(x, why) == Still([x EXCEPT !.phase = "failed", !.why = why, !.tries = 0])
Fail(x, why) == Still([x EXCEPT !.phase = "failed", !.why = why, !.vip = 0, !.tries = 0])

Become(c, step) == /\ l2tp' = [l2tp EXCEPT ![c] = step.x]
                   /\ toServer' = [toServer EXCEPT ![c] = @ \o step.out]

-------------------------------------------------------------------------------
\* The server.  Its next state and its answers, to message m of laptop c
Own(c) == l2tpServer.sas[c]
InUse(c) == {Own(d).vip : d \in Laptops \ {c}} \ {0}
Leased(c) == {l2tpServer.leases[d] : d \in Laptops \ {c}} \ {0}

\* (mutant) a lease left behind is taken without a look at who is connected
CandidatesLeased(c) ==
  IF l2tpServer.leases[c] \in L2tpPool THEN {l2tpServer.leases[c]}
  ELSE IF L2tpPool \ Leased(c) # {} THEN {Min(L2tpPool \ Leased(c))} ELSE Leased(c)

\* the last address if it is free, one that nobody has or had, or the last one of a laptop not connected
Candidates(c) ==
  IF l2tpServer.leases[c] \in L2tpPool \ InUse(c) THEN {l2tpServer.leases[c]}
  ELSE IF L2tpPool \ (InUse(c) \cup Leased(c)) # {} THEN {Min(L2tpPool \ (InUse(c) \cup Leased(c)))}
  ELSE Leased(c) \ InUse(c)

Serve(x, answer) == [x |-> x, out |-> answer]
Sa(s, c, a) == [s EXCEPT !.sas[c] = a]

\* the lease of c is v, and no longer anybody else's
Lease(s, c, v) == [s EXCEPT !.leases = [d \in Laptops |-> IF d = c THEN v ELSE IF @[d] = v THEN 0 ELSE @[d]]]

ServerIke(s, c, m) ==
  IF m.op = "mm1" THEN Serve([s EXCEPT !.mm[c] = @ \cup {m.spi}], Msg("mm1", m.spi, 0))
  ELSE IF m.op = "mm2"
  THEN IF m.spi \notin s.mm[c] \cup s.authed[c] THEN Serve(s, <<>>)
       ELSE IF wrong[c] = "psk" THEN Serve(s, Msg("refused", m.spi, 0))
       ELSE Serve([s EXCEPT !.mm[c] = @ \ {m.spi}, !.authed[c] = @ \cup {m.spi}], Msg("mm2", m.spi, 0))
  ELSE IF m.op = "qm"
  THEN IF m.spi # Own(c).spi /\ m.spi \notin s.authed[c] THEN Serve(s, <<>>)
       ELSE LET t == IF m.spi = Own(c).spi THEN s ELSE Sa(s, c, [NoSa EXCEPT !.spi = m.spi])
            IN  Serve([t EXCEPT !.authed[c] = @ \ {m.spi}], Msg("qm", m.spi, 0))
  ELSE Serve(IF m.spi = Own(c).spi THEN Sa(s, c, NoSa) ELSE s, <<>>)

\* What comes in the tunnel.  One that was refused is refused again
ServerEsp(s, c, m) ==
  LET a == Own(c) IN
  IF m.spi # a.spi THEN {Serve(s, Msg("invalid", m.spi, 0))}
  ELSE IF a.failed # "none"
  THEN {Serve(s, IF m.op \in {"chap", "ipcp"} THEN Msg("refused", m.spi, 0) ELSE <<>>)}
  ELSE IF m.op = "sccrq" THEN {Serve(Sa(s, c, [a EXCEPT !.tunnel = TRUE]), Msg("sccrq", m.spi, 0))}
  ELSE IF m.op \in {"icrq", "lcp"} THEN {Serve(s, Msg(m.op, m.spi, 0))}
  ELSE IF m.op = "stop" THEN {Serve(Sa(s, c, NoSa), <<>>)}
  ELSE IF m.op = "chap"
  THEN IF wrong[c] = "account" THEN {Serve(Sa(s, c, [a EXCEPT !.failed = "account"]), Msg("refused", m.spi, 0))}
       ELSE {Serve(Sa(s, c, [a EXCEPT !.user = TRUE]), Msg("chap", m.spi, 0))}
  ELSE IF m.op # "ipcp" \/ ~a.user THEN {Serve(s, <<>>)}
  ELSE IF a.vip # 0 THEN {Serve(s, Msg("ipcp", m.spi, a.vip))}
  ELSE IF Candidates(c) = {} THEN {Serve(Sa(s, c, [a EXCEPT !.failed = "full"]), Msg("refused", m.spi, 0))}
  ELSE {Serve(Lease(Sa(s, c, [a EXCEPT !.vip = v]), c, v), Msg("ipcp", m.spi, v)) : v \in Candidates(c)}

ServerHandle(c) ==
  /\ toServer[c] # <<>>
  /\ toServer' = [toServer EXCEPT ![c] = Tail(@)]
  /\ LET m == Head(toServer[c]) IN
       \E step \in IF m.op \in {"mm1", "mm2", "qm", "delete"} THEN {ServerIke(l2tpServer, c, m)}
                   ELSE ServerEsp(l2tpServer, c, m) :
         /\ l2tpServer' = step.x
         /\ toLaptop' = [toLaptop EXCEPT ![c] = @ \o step.out]
  /\ UNCHANGED <<l2tp, wrong, l2tpFaults, l2tpEdits>>

Room == l2tpFaults + l2tpEdits < MaxL2tpFaults
Edit == Room /\ l2tpEdits' = l2tpEdits + 1

\* a new configuration: who has a tunnel is told that it ends, and everything is forgotten
SetServer ==
  /\ Edit
  /\ toLaptop' = [c \in Laptops |-> toLaptop[c] \o (IF Own(c).tunnel /\ Own(c).failed = "none"
                                                    THEN Msg("stop", Own(c).spi, 0) ELSE <<>>)]
  /\ l2tpServer' = [mm |-> Nothing, authed |-> Nothing, sas |-> NoSas, leases |-> [c \in Laptops |-> 0]]
  /\ UNCHANGED <<l2tp, wrong, toServer, l2tpFaults>>

\* the line is down for a moment: tunnels and negotiations are gone, and nobody can be told
ClearServer ==
  /\ Edit
  /\ l2tpServer' = [l2tpServer EXCEPT !.mm = Nothing, !.authed = Nothing, !.sas = NoSas]
  /\ UNCHANGED <<l2tp, wrong, toServer, toLaptop, l2tpFaults>>

-------------------------------------------------------------------------------
\* The laptop.  An answer counts if it is of this negotiation and to what was asked last
Heard(c, x, m) ==
  IF m.op = "invalid" /\ x.phase = "up" THEN Begin(c)
  ELSE IF m.op = "stop" THEN Fail(x, "stopped")
  ELSE IF m.op = "refused" /\ x.phase \in {"mm2", "chap", "ipcp"} THEN Fail(x, "refused")
  ELSE IF m.op # x.phase THEN Still(x)
  ELSE IF m.op = "ipcp" THEN Still([x EXCEPT !.phase = "up", !.vip = m.v, !.tries = 0])
  ELSE Ask(x, After[x.phase])

LaptopHandle(c) ==
  /\ toLaptop[c] # <<>>
  /\ toLaptop' = [toLaptop EXCEPT ![c] = Tail(@)]
  /\ LET m == Head(toLaptop[c])
         mine == m.spi = l2tp[c].spi /\ l2tp[c].phase \notin {"off", "failed"}
     IN  Become(c, IF mine THEN Heard(c, l2tp[c], m) ELSE Still(l2tp[c]))
  /\ UNCHANGED <<l2tpServer, wrong, l2tpFaults, l2tpEdits>>

Quiet(c) == toServer[c] = <<>> /\ toLaptop[c] = <<>>

\* a second without an answer: asked again, or given up until the user tries again
OnTimer(c) ==
  /\ l2tp[c].phase \in Asking /\ Quiet(c)
  /\ LET x == l2tp[c] IN
       Become(c, IF x.tries >= L2tpRetransmits THEN Fail(x, "timeout")
                 ELSE [x |-> [x EXCEPT !.tries = @ + 1], out |-> Msg(x.phase, x.spi, 0)])
  /\ UNCHANGED <<l2tpServer, wrong, toLaptop, l2tpFaults, l2tpEdits>>

Connect(c) == /\ l2tp[c].phase = "off" /\ Become(c, Begin(c))
              /\ UNCHANGED <<l2tpServer, wrong, toLaptop, l2tpFaults, l2tpEdits>>

\* a packet of c's host goes through the tunnel
Intercept(c) == /\ l2tp[c].phase = "up" /\ Quiet(c)
                /\ Become(c, [x |-> l2tp[c], out |-> Msg("ip", l2tp[c].spi, l2tp[c].vip)])
                /\ UNCHANGED <<l2tpServer, wrong, toLaptop, l2tpFaults, l2tpEdits>>

\* the user connects again: an open tunnel is taken down at the server first
Reconnect(c) ==
  /\ Edit
  /\ LET b == Begin(c)
         bye == IF l2tp[c].phase = "up" THEN Msg("stop", l2tp[c].spi, 0) \o Msg("delete", l2tp[c].spi, 0) ELSE <<>>
     IN  Become(c, [b EXCEPT !.out = bye \o @])
  /\ UNCHANGED <<l2tpServer, wrong, toLaptop, l2tpFaults>>

\* c has no address any more: the server is not told, and what was on its way to c is lost
Lost(c) ==
  /\ Edit /\ l2tp[c].phase # "failed"
  /\ l2tp' = [l2tp EXCEPT ![c] = [Down EXCEPT !.spi = l2tp[c].spi]]
  /\ toLaptop' = [toLaptop EXCEPT ![c] = <<>>]
  /\ UNCHANGED <<l2tpServer, wrong, toServer, l2tpFaults>>

Drop(c) ==
  /\ Room /\ l2tpFaults' = l2tpFaults + 1
  /\ \/ toServer[c] # <<>> /\ toServer' = [toServer EXCEPT ![c] = Tail(@)] /\ UNCHANGED toLaptop
     \/ toLaptop[c] # <<>> /\ toLaptop' = [toLaptop EXCEPT ![c] = Tail(@)] /\ UNCHANGED toServer
  /\ UNCHANGED <<l2tp, l2tpServer, wrong, l2tpEdits>>

Next == \/ SetServer \/ ClearServer
        \/ \E c \in Laptops : \/ ServerHandle(c) \/ LaptopHandle(c) \/ OnTimer(c) \/ Connect(c)
                              \/ Intercept(c) \/ Reconnect(c) \/ Lost(c) \/ Drop(c)

-------------------------------------------------------------------------------
TypeOK ==
  \A c \in Laptops : /\ l2tp[c].phase \in Asking \cup {"up", "off", "failed"}
                     /\ (l2tp[c].phase = "up") = (l2tp[c].vip # 0)
                     /\ Own(c).vip \in L2tpPool \cup {0} /\ Own(c).vip # 0 => Own(c).user

\* No address is given to two laptops at once, and one in use is leased to who uses it
OneHolder ==
  /\ \A c, d \in Laptops : c # d /\ Own(c).vip # 0 => Own(d).vip # Own(c).vip
  /\ \A c \in Laptops : Own(c).vip # 0 => l2tpServer.leases[c] = Own(c).vip

\* A laptop that is connected by a tunnel the server knows has the address the server thinks it has
SameAddress == \A c \in Laptops : l2tp[c].phase = "up" /\ l2tp[c].spi = Own(c).spi => l2tp[c].vip = Own(c).vip

\* An attempt that times out was out of luck as often as it asked, or the server was set
\* anew meanwhile; otherwise the laptop learns the true reason
TrueReason == \A c \in Laptops : l2tp[c].why = "timeout" => l2tpFaults > L2tpRetransmits \/ l2tpEdits > 0

\* A laptop does not go on using a tunnel that the server has forgotten
Stranded(c) == l2tp[c].phase = "up" /\ l2tp[c].spi # Own(c).spi
Noticed == \A c \in Laptops : Stranded(c) ~> ~Stranded(c)
\* An attempt comes to an end
Attempting(c) == l2tp[c].phase \in Asking
Settled == \A c \in Laptops : Attempting(c) ~> ~Attempting(c)
===============================================================================
