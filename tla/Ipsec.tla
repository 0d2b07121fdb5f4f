-------------------------------- MODULE Ipsec ----------------------------------
(***************************************************************************)
(* A site-to-site IPsec tunnel between two gateways (vpn.ts, ike.ts and    *)
(* l3tunnel.ts in src/src/core/nodes).  The first packet starts an IKE     *)
(* exchange in which either end may be the initiator, or both at once; the *)
(* tunnel is one SA per end, and an end whose peer forgot it finds out by  *)
(* DPD, or by the peer starting anew when it gets packets it cannot open.  *)
(* DPD every 10 s is a setting of each end, off at first; without it an    *)
(* end asks only when its user does, and may keep a dead tunnel for good.  *)
(*                                                                         *)
(* Where a NAT sits does not matter to what is stated here; SPIs are drawn *)
(* from those in no use, and a message is faster than any timer.           *)
(***************************************************************************)
EXTENDS Naturals, Sequences, FiniteSets, FiniteSetsExt

CONSTANTS
  Retransmits,    \* times a request is sent again (2)
  MaxIpsecFaults, \* bound: messages lost, ends that forget or move
  MaxIpsecWire    \* bound: messages under way in one direction

VARIABLES
  sa,         \* sa[p]: state, spi, peer; pend: SPI it answers; req, tries; queue; waiting (for DPD), heard
  dpdOn,      \* dpdOn[p]: p asks every 10 s whether a silent peer is there
  pskMatch,   \* both ends have the same pre-shared key
  ipsecAddr, ipsecWire, waits, \* place of p; messages on their way to p; p's host waits for its packet to arrive
  ipsecFaults
ipsecVars == <<sa, dpdOn, pskMatch, ipsecAddr, ipsecWire, waits, ipsecFaults>>

Ends == {"a", "b"}
Far(p) == IF p = "a" THEN "b" ELSE "a"
ConfiguredPeer == 1
NoSa == [state |-> "idle", spi |-> 0, peer |-> 0, pend |-> 0, req |-> "none", tries |-> 0,
         queue |-> FALSE, waiting |-> FALSE, heard |-> FALSE]

Init == /\ sa = [p \in Ends |-> NoSa] /\ pskMatch \in BOOLEAN /\ dpdOn \in [Ends -> BOOLEAN]
        /\ ipsecAddr = [p \in Ends |-> ConfiguredPeer] /\ ipsecWire = [p \in Ends |-> <<>>]
        /\ waits = [p \in Ends |-> FALSE] /\ ipsecFaults = 0

NewSpi == Min((1 .. 20) \ ({sa[p].spi : p \in Ends} \cup {sa[p].pend : p \in Ends}
            \cup UNION {{ipsecWire[p][i].spi : i \in DOMAIN ipsecWire[p]} : p \in Ends}))

\* One end's next state with the messages it sends
Ike(p, to, type, spi) == <<[type |-> type, spi |-> spi, from |-> ipsecAddr[p], to |-> to]>>
Still(x) == [x |-> x, out |-> <<>>]
Then(a, b) == [x |-> b.x, out |-> a.out \o b.out]

Request(p, x, to, type) == [x |-> [x EXCEPT !.req = type, !.tries = 0], out |-> Ike(p, to, type, x.spi)]
Clear(x) == [x EXCEPT !.req = "none", !.tries = 0]
DropSa(x) == [Clear(x) EXCEPT !.state = "idle", !.spi = 0, !.peer = 0]

StartIke(p, x) == Request(p, [x EXCEPT !.state = "init", !.spi = NewSpi], ConfiguredPeer, "init")
SendEsp(p, x) == [x |-> x, out |-> Ike(p, x.peer, "esp", x.spi)]
Flush(p, x) == IF x.queue THEN SendEsp(p, [x EXCEPT !.queue = FALSE]) ELSE Still(x)
Establish(x, spi, peer) == [x EXCEPT !.state = "up", !.spi = spi, !.peer = peer, !.waiting = FALSE, !.heard = TRUE]

\* what is sent to a place where the far end is not is lost
Reached(p, out) == SelectSeq(out, LAMBDA m : m.to = ipsecAddr[Far(p)])

Do(p, step) ==
  /\ Len(ipsecWire[Far(p)]) < MaxIpsecWire
  /\ sa' = [sa EXCEPT ![p] = step.x]
  /\ ipsecWire' = [ipsecWire EXCEPT ![Far(p)] = @ \o Reached(p, step.out)]

-------------------------------------------------------------------------------
SendIpsec(p) ==
  /\ \A i \in DOMAIN ipsecWire[Far(p)] : ipsecWire[Far(p)][i].type # "esp"
  /\ LET x == [sa[p] EXCEPT !.queue = TRUE] IN
       Do(p, IF sa[p].state = "up" THEN SendEsp(p, sa[p]) ELSE IF x.state = "idle" THEN StartIke(p, x) ELSE Still(x))
  /\ waits' = [waits EXCEPT ![p] = TRUE]
  /\ UNCHANGED <<dpdOn, pskMatch, ipsecAddr, ipsecFaults>>

\* (mutant) the retransmission timer takes a DPD request for one that is over
CurrentWithoutDpd(x) == IF x.state \in {"init", "auth"} THEN x.state ELSE "none"
Current(x) == CASE x.state \in {"init", "auth"} -> x.state
                [] x.state = "up" /\ x.waiting -> "dpd"
                [] OTHER -> "none"

\* an IKE message m that has come to p
HandleIke(p, x, m) ==
  CASE m.type = "dpd" ->
         IF x.state = "up" /\ (m.spi = x.spi \/ m.from = x.peer)
         THEN [x |-> [x EXCEPT !.heard = TRUE], out |-> Ike(p, m.from, "dpdR", m.spi)]
         ELSE [x |-> x, out |-> Ike(p, m.from, "unknown", m.spi)]
    [] m.type \in {"dpdR", "unknown"} ->
         IF ~x.waiting \/ x.state # "up" \/ m.spi # x.spi THEN Still(x)
         ELSE IF m.type = "unknown" THEN Still([DropSa(x) EXCEPT !.waiting = FALSE])
         ELSE Still([Clear(x) EXCEPT !.waiting = FALSE, !.heard = TRUE])
    [] m.type = "init" -> [x |-> [x EXCEPT !.pend = m.spi], out |-> Ike(p, m.from, "initR", m.spi)]
    [] m.type = "initR" ->
         IF x.state # "init" \/ m.spi # x.spi THEN Still(x)
         ELSE Request(p, [x EXCEPT !.state = "auth"], ConfiguredPeer, "auth")
    [] m.type = "auth" ->
         IF x.pend # m.spi THEN Still(x)
         ELSE IF ~pskMatch THEN [x |-> [x EXCEPT !.pend = 0], out |-> Ike(p, m.from, "refused", m.spi)]
         ELSE LET y == Establish([x EXCEPT !.pend = 0], m.spi, m.from)
              IN  Then([x |-> y, out |-> Ike(p, m.from, "authR", m.spi)], Flush(p, y))
    [] m.type \in {"authR", "refused"} ->
         IF x.state # "auth" \/ m.spi # x.spi THEN Still(x)
         ELSE IF m.type = "refused" THEN Still([DropSa(x) EXCEPT !.queue = FALSE])
         ELSE Flush(p, Establish(Clear(x), m.spi, m.from))

\* a packet of the tunnel: opened, and its source is where the peer is now; or the
\* tunnel is unknown here, and p sets up another
HandleEsp(p, x, m) ==
  IF x.state = "up" THEN Still([x EXCEPT !.peer = m.from, !.heard = TRUE])
  ELSE IF x.state = "idle" THEN StartIke(p, x) ELSE Still(x)

Handle(p) ==
  /\ ipsecWire[p] # <<>>
  /\ LET m == Head(ipsecWire[p])
         step == IF m.type = "esp" THEN HandleEsp(p, sa[p], m) ELSE HandleIke(p, sa[p], m)
     IN  /\ sa' = [sa EXCEPT ![p] = step.x]
         /\ ipsecWire' = [ipsecWire EXCEPT ![p] = Tail(@), ![Far(p)] = @ \o Reached(p, step.out)]
         /\ waits' = [waits EXCEPT ![Far(p)] = @ /\ ~(m.type = "esp" /\ sa[p].state = "up")]
  /\ UNCHANGED <<dpdOn, pskMatch, ipsecAddr, ipsecFaults>>

\* p's request, or the answer to it, is still on its way
UnderWay(p) ==
  \/ \E i \in DOMAIN ipsecWire[Far(p)] : LET m == ipsecWire[Far(p)][i]
       IN  m.type = sa[p].req /\ m.spi = sa[p].spi
  \/ \E i \in DOMAIN ipsecWire[p] : LET m == ipsecWire[p][i]
       IN  m.spi = sa[p].spi /\ m.type \in {"initR", "authR", "refused", "dpdR", "unknown"}

\* A request not answered within a second: sent again (the SA's own peer for DPD, the
\* configured one before), or given up.  A timer of a step that is over does nothing
OnTimer(p) ==
  /\ sa[p].req # "none" /\ ~UnderWay(p)
  /\ LET x == sa[p]
         to == IF x.req = "dpd" THEN x.peer ELSE ConfiguredPeer
     IN  Do(p, IF Current(x) # x.req THEN Still(Clear(x))
               ELSE IF x.tries < Retransmits THEN [x |-> [x EXCEPT !.tries = @ + 1], out |-> Ike(p, to, x.req, x.spi)]
               ELSE IF x.req = "dpd" THEN Still([DropSa(x) EXCEPT !.waiting = FALSE])
               ELSE Still([DropSa(x) EXCEPT !.queue = FALSE]))
  /\ UNCHANGED <<dpdOn, pskMatch, ipsecAddr, waits, ipsecFaults>>

\* is the peer there, and does it know this tunnel?
Dpd(p) == Request(p, [sa[p] EXCEPT !.waiting = TRUE], sa[p].peer, "dpd")

\* Every 10 s, if the setting is on: was anything heard of the peer?  If not it is asked
OnDpdTick(p) ==
  /\ dpdOn[p] /\ sa[p].state = "up" /\ ~sa[p].waiting
  /\ Do(p, IF sa[p].heard THEN Still([sa[p] EXCEPT !.heard = FALSE]) ELSE Dpd(p))
  /\ UNCHANGED <<dpdOn, pskMatch, ipsecAddr, waits, ipsecFaults>>

\* the user asks
AskPeer(p) ==
  /\ sa[p].state = "up" /\ ~sa[p].waiting
  /\ Do(p, Dpd(p))
  /\ UNCHANGED <<dpdOn, pskMatch, ipsecAddr, waits, ipsecFaults>>

Fault == ipsecFaults < MaxIpsecFaults /\ ipsecFaults' = ipsecFaults + 1

\* of the settings DPD alone can be changed without a new tunnel
SetDpd(p) == Fault /\ dpdOn' = [dpdOn EXCEPT ![p] = ~@] /\ UNCHANGED <<sa, pskMatch, ipsecAddr, ipsecWire, waits>>

\* a new configuration, a restart, or a gateway that stops being master of its pair
ResetSa(p) == /\ Fault /\ sa' = [sa EXCEPT ![p] = NoSa] /\ waits' = [waits EXCEPT ![p] = FALSE]
              /\ UNCHANGED <<dpdOn, pskMatch, ipsecAddr, ipsecWire>>
Move(p) == /\ Fault /\ ipsecAddr' = [ipsecAddr EXCEPT ![p] = 3 - @] /\ ipsecWire' = [ipsecWire EXCEPT ![p] = <<>>]
           /\ UNCHANGED <<sa, dpdOn, pskMatch, waits>>
Lose(p) == /\ Fault /\ ipsecWire[p] # <<>> /\ ipsecWire' = [ipsecWire EXCEPT ![p] = Tail(@)]
           /\ UNCHANGED <<sa, dpdOn, pskMatch, ipsecAddr, waits>>

Next == \E p \in Ends : \/ SendIpsec(p) \/ Handle(p) \/ OnTimer(p) \/ OnDpdTick(p) \/ AskPeer(p)
                         \/ SetDpd(p) \/ ResetSa(p) \/ Move(p) \/ Lose(p)

-------------------------------------------------------------------------------
TypeOK == \A p \in Ends : /\ sa[p].tries \in 0 .. Retransmits
                          /\ (sa[p].state = "idle") = (sa[p].spi = 0)
                          /\ sa[p].queue => sa[p].state \in {"init", "auth"}

\* While nothing was lost or forgotten, a packet of the tunnel finds it up at the other
\* end, whichever end began and however their exchanges crossed
Opens == ipsecFaults = 0 => \A p \in Ends :
  ipsecWire[p] # <<>> /\ Head(ipsecWire[p]).type = "esp" => sa[p].state = "up"

\* An end with DPD does not keep a tunnel that the other has forgotten: DPD, or the other's
\* new exchange, settles it
HalfOpen(p) == dpdOn[p] /\ sa[p].state = "up" /\ sa[Far(p)].state = "idle"
HalfOpenEnds == \A p \in Ends : HalfOpen(p) ~> ~HalfOpen(p)

\* What a host behind a keeps sending arrives, with DPD and once b is where a was told
Waiting(p) == p = "a" /\ dpdOn[p] /\ waits[p] /\ ipsecAddr["b"] = ConfiguredPeer /\ pskMatch
Arrives == \A p \in Ends : Waiting(p) ~> ~Waiting(p)
===============================================================================
