---------------------------------- MODULE Ipv6 ---------------------------------
(***************************************************************************)
(* One link of hosts and routers that speak IPv6 (src/src/core/nodes/      *)
(* ipv6.ts): duplicate address detection, neighbours that are asked for,   *)
(* remembered and watched, routers that announce prefixes and hosts that   *)
(* make addresses of them.  An address is the prefix and the interface id; *)
(* a link layer address is the name of its station.  All cables are        *)
(* equally long, and a frame is faster than any timer.                     *)
(***************************************************************************)
EXTENDS Naturals, Sequences, FiniteSetsExt, TLC

CONSTANTS
  Hosts6, Routers6,
  Prefixes6,    \* the global prefixes
  Starts6,      \* for each station its settings and whether it is plugged in
  Settings6,    \* settings a user may change to
  Talks6,       \* where hosts send to, once and not after a loss
  Watch,        \* hosts watch their neighbours (NUD): TRUE, FALSE, or both
  Rounds,       \* how often a question is repeated (RS_MAX, MAX_UNICAST_SOLICIT)
  MaxEdits6     \* bound: cables, settings, frames lost

VARIABLES
  if6,      \* if6[n]: the Ipv6Interface of station n
  dads,     \* the timers of duplicate address detection, <<station, address>>, in the order they end
  link6,    \* the frames under way, oldest first, each with those still to get it
  nud,      \* hosts watch their neighbours
  vanished, \* routers that were cut off without a word
  lost6,    \* a frame was lost
  sent6,    \* a host sent a packet
  edits6
ipv6Vars == <<if6, dads, link6, nud, vanished, edits6, lost6, sent6>>

Nobody6 == "none"
Stations6 == Hosts6 \cup Routers6
LinkLocal(n) == <<"ll", n>>
Outside == <<"outside", Nobody6>>

NoAddrs == [a \in {} |-> 0]
NoDns == [server |-> Nobody6, from |-> Nobody6]
NotSent == [prefixes |-> {}, dns |-> "unsent"]
Tentative(origin) == [origin |-> origin, state |-> "tentative"]

\* an interface that was set up with its device, before its link is there
New6(n, cfg) ==
  [up |-> FALSE, on |-> cfg.on, slaac |-> cfg.slaac /\ n \in Hosts6, ra |-> cfg.ra /\ n \in Routers6, dns |-> cfg.dns,
   addrs |-> IF cfg.on THEN [a \in cfg.addrs \cup {LinkLocal(n)} |->
                               Tentative(IF a = LinkLocal(n) THEN "ll" ELSE "manual")] ELSE NoAddrs,
   known |-> NoAddrs, waiting |-> {}, routers |-> <<>>, by |-> [p \in Prefixes6 |-> {}], rdns |-> NoDns,
   tries |-> 0, rs |-> FALSE, sent |-> {}, key |-> NotSent, tick |-> FALSE]

Owns(i, a) == i.on /\ a \in DOMAIN i.addrs /\ i.addrs[a].state = "preferred"
Of(i, origin) == {a \in DOMAIN i.addrs : i.addrs[a].origin = origin}
Usable6(i) == {a \in DOMAIN i.addrs : i.addrs[a].origin # "ll" /\ i.addrs[a].state = "preferred"}
Position(i, r) == {k \in DOMAIN i.routers : i.routers[k].ip = r}

-------------------------------------------------------------------------------
(* A step of station x.n works on its interface x.i and sends the frames     *)
(* x.out.                                                                    *)
Work6(n) == [n |-> n, i |-> if6[n], out |-> <<>>, begun |-> <<>>]
Emit6(x, to, m) == [x EXCEPT !.out = Append(@, [to |-> to \ {x.n}, from |-> x.n, msg |-> m])]
Ns(target, src) == [kind |-> "ns", target |-> target, src |-> src]
Na(target, asked) == [kind |-> "na", target |-> target, asked |-> asked]

\* the address a station speaks from to d
SourceFor(i, n, d) ==
  LET near == {a \in Usable6(i) : a[1] = d[1]}
  IN IF d[1] = "ll" \/ Usable6(i) = {} THEN LinkLocal(n)
     ELSE IF near # {} THEN CHOOSE a \in near : TRUE ELSE CHOOSE a \in Usable6(i) : TRUE

StartDad(x, a) ==
  Emit6([x EXCEPT !.i.addrs[a].state = "tentative", !.begun = Append(@, <<x.n, a>>)], Stations6, Ns(a, Outside))
StartAll(x, as) == FoldSet(LAMBDA a, y : StartDad(y, a), x, as)

\* a router tells the prefixes of the addresses a user gave it
Announced(i) == {a[1] : a \in {b \in Of(i, "manual") : i.addrs[b].state # "duplicate"}}
RaKey(i) == [prefixes |-> Announced(i), dns |-> i.dns]
SendRa(x, final) ==
  IF ~Owns(x.i, LinkLocal(x.n)) THEN x
  ELSE LET now == IF final THEN {} ELSE Announced(x.i)
       IN Emit6([x EXCEPT !.i.sent = now, !.i.key = IF final THEN NotSent ELSE RaKey(x.i), !.i.tick = ~final /\ x.i.ra],
                Stations6, [kind |-> "ra", alive |-> ~final, prefixes |-> now, gone |-> x.i.sent \ now,
                            dns |-> IF final THEN Nobody6 ELSE x.i.dns])
SendRs(x) == Emit6([x EXCEPT !.i.tries = @ + 1, !.i.rs = TRUE], Routers6, [kind |-> "rs"])

RemoveAddrs(i, as) == [i EXCEPT !.addrs = [a \in DOMAIN @ \ as |-> @[a]]]
Unlearned6(i) == [i EXCEPT !.known = NoAddrs, !.waiting = {}]
ForgetRa(i) ==
  [RemoveAddrs(i, Of(i, "slaac")) EXCEPT !.routers = <<>>, !.by = [p \in Prefixes6 |-> {}], !.rdns = NoDns, !.rs = FALSE]

-------------------------------------------------------------------------------
(* Neighbours *)

Default6(i) ==
  LET trusted == {k \in DOMAIN i.routers : ~i.routers[k].suspect}
  IN IF i.routers = <<>> THEN Nobody6
     ELSE i.routers[IF trusted = {} THEN 1 ELSE Min(trusted)].ip

\* a router whose address a was not reached goes to the end of the list
Suspect(i, a) ==
  LET r == a[2]
  IN IF a[1] # "ll" \/ Position(i, r) = {} THEN i
     ELSE [i EXCEPT !.routers = Append(SelectSeq(@, LAMBDA e : e.ip # r), [ip |-> r, suspect |-> TRUE])]

Flush(i, a) == [i EXCEPT !.waiting = @ \ {a}]

\* learn, and send what waits for the neighbour
Learn6(x, a, mac, asked) ==
  LET new == a \notin DOMAIN x.i.known \/ x.i.known[a].mac # mac
      entry == IF ~(nud /\ x.n \in Hosts6) THEN [mac |-> mac, state |-> "none", probes |-> 0]
               ELSE [mac |-> mac, probes |-> 0,
                     state |-> IF asked THEN "reachable" ELSE IF new THEN "stale" ELSE x.i.known[a].state]
      learnt == [x.i EXCEPT !.known = [b \in DOMAIN @ \cup {a} |-> IF b = a THEN entry ELSE @[b]],
                            !.routers = [k \in DOMAIN @ |-> IF nud /\ asked /\ LinkLocal(@[k].ip) = a
                                                            THEN [@[k] EXCEPT !.suspect = FALSE] ELSE @[k]]]
  IN IF a = Outside THEN x ELSE [x EXCEPT !.i = Flush(learnt, a)]

DadFailed(x, a) ==
  LET y == [x EXCEPT !.i.addrs[a].state = "duplicate"]
  IN IF y.i.ra /\ y.i.addrs[a].origin = "manual" /\ RaKey(y.i) # y.i.key THEN SendRa(y, FALSE) ELSE y

HandleNs(x, f) ==
  LET a == f.msg.target
      dad == f.msg.src = Outside
      mine == IF a \in DOMAIN x.i.addrs THEN x.i.addrs[a].state ELSE "duplicate"
  IN CASE mine = "duplicate" \/ (mine = "tentative" /\ ~dad) -> x
       [] mine = "tentative" /\ dad -> DadFailed(x, a)
       [] mine = "preferred" /\ dad -> Emit6(x, Stations6, Na(a, FALSE))
       [] OTHER -> Emit6(Learn6(x, f.msg.src, f.from, FALSE), {f.from}, Na(a, TRUE))

HandleNa(x, f) ==
  LET a == f.msg.target
  IN CASE a \in DOMAIN x.i.addrs -> IF x.i.addrs[a].state = "tentative" THEN DadFailed(x, a) ELSE x
       [] a \in DOMAIN x.i.known \cup x.i.waiting -> Learn6(x, a, f.from, f.msg.asked)
       [] OTHER -> x

-------------------------------------------------------------------------------
(* Routers and the addresses made of their prefixes *)

HandleRs(x, f) ==
  IF x.n \notin Routers6 \/ ~x.i.ra THEN x
  ELSE SendRa(Learn6(x, LinkLocal(f.from), f.from, FALSE), FALSE)

\* a prefix a router announces, and one it takes back
Announces(x, p, r) ==
  LET y == [x EXCEPT !.i.by[p] = @ \cup {r}]
      a == <<p, x.n>>
  IN IF a \in DOMAIN y.i.addrs \/ \E b \in Of(y.i, "slaac") : b[1] = p THEN y
     ELSE StartDad([y EXCEPT !.i.addrs = [b \in DOMAIN @ \cup {a} |-> IF b = a THEN Tentative("slaac") ELSE @[b]]], a)
Withdraws(x, p, r) ==
  LET y == [x EXCEPT !.i.by[p] = @ \ {r}]
      as == {b \in Of(y.i, "slaac") : b[1] = p}
  IN IF y.i.by[p] # {} \/ as = {} THEN y ELSE [y EXCEPT !.i = Unlearned6(RemoveAddrs(@, as))]

ListRouter(i, r, alive) ==
  IF ~alive THEN [i EXCEPT !.routers = SelectSeq(@, LAMBDA e : e.ip # r)]
  ELSE IF Position(i, r) = {} THEN [i EXCEPT !.routers = Append(@, [ip |-> r, suspect |-> FALSE])]
  ELSE [i EXCEPT !.routers[CHOOSE k \in Position(i, r) : TRUE].suspect = FALSE]
TakeDns(i, r, dns) ==
  IF dns # Nobody6 /\ dns # i.rdns.server THEN [i EXCEPT !.rdns = [server |-> dns, from |-> r]]
  ELSE IF dns = Nobody6 /\ i.rdns.from = r THEN [i EXCEPT !.rdns = NoDns]
  ELSE i

HandleRa(x, f) ==
  IF ~x.i.slaac THEN x
  ELSE LET r == f.from
           heard == Learn6([x EXCEPT !.i.rs = FALSE], LinkLocal(r), r, FALSE)
           listed == [heard EXCEPT !.i = ListRouter(@, r, f.msg.alive)]
           made == FoldSet(LAMBDA p, y : Announces(y, p, r), listed, f.msg.prefixes)
           kept == FoldSet(LAMBDA p, y : Withdraws(y, p, r), made, f.msg.gone)
       IN [kept EXCEPT !.i = TakeDns(@, r, f.msg.dns)]

HandleNdp(x, f) ==
  CASE f.msg.kind = "ns" -> HandleNs(x, f)
    [] f.msg.kind = "na" -> HandleNa(x, f)
    [] f.msg.kind = "rs" -> HandleRs(x, f)
    [] f.msg.kind = "ra" -> HandleRa(x, f)

-------------------------------------------------------------------------------
Quiet6 == link6 = <<>>
\* the timers of addresses that are still in question
Running(is, q) ==
  SelectSeq(q, LAMBDA d : is[d[1]].up /\ d[2] \in DOMAIN is[d[1]].addrs /\ is[d[1]].addrs[d[2]].state = "tentative")
Done(x) ==
  /\ if6' = [if6 EXCEPT ![x.n] = x.i]
  /\ dads' = Running(if6', SelectSeq(dads, LAMBDA d : \A k \in DOMAIN x.begun : x.begun[k] # d) \o x.begun)
  /\ link6' = link6 \o x.out
Same6 == UNCHANGED <<nud, vanished, edits6, lost6, sent6>>
Edit6 == edits6 < MaxEdits6 /\ edits6' = edits6 + 1

\* the oldest frame reaches all it is for; one of them may miss it
Receive6 ==
  LET f == Head(link6)
      x == [n \in Stations6 |-> IF n \in f.to /\ if6[n].up /\ if6[n].on THEN HandleNdp(Work6(n), f) ELSE Work6(n)]
  IN /\ link6 # <<>>
     /\ if6' = [n \in Stations6 |-> x[n].i]
     /\ dads' = Running(if6', dads \o FoldSet(LAMBDA n, q : q \o x[n].begun, <<>>, f.to))
     /\ link6' = Tail(link6) \o FoldSet(LAMBDA n, q : q \o x[n].out, <<>>, f.to)
     /\ Same6
Lose6(n) ==
  /\ link6 # <<>> /\ n \in Head(link6).to
  /\ if6[n].up /\ Edit6
  /\ link6' = [link6 EXCEPT ![1].to = @ \ {n}] /\ lost6' = TRUE
  /\ UNCHANGED <<if6, dads, nud, vanished, sent6>>

(* Timers *)
FinishDad(n, a) ==
  LET x == [Work6(n) EXCEPT !.i.addrs[a].state = "preferred"]
      y == IF x.i.slaac /\ x.i.routers = <<>> THEN SendRs(x) ELSE x
  IN /\ Quiet6 /\ dads # <<>> /\ Head(dads) = <<n, a>>
     /\ Done(CASE x.i.addrs[a].origin = "ll" -> IF y.i.ra THEN SendRa(y, FALSE) ELSE y
               [] x.i.addrs[a].origin = "manual" -> Emit6(x, Stations6, Na(a, FALSE))
               [] OTHER -> x)
     /\ Same6

OnRsTimer(n) ==
  LET x == [Work6(n) EXCEPT !.i.rs = FALSE]
      found == ~x.i.on \/ ~x.i.slaac \/ x.i.routers # <<>> \/ Of(x.i, "slaac") # {}
  IN /\ Quiet6 /\ if6[n].rs
     /\ Done(IF ~found /\ x.i.tries < Rounds THEN SendRs(x) ELSE x)
     /\ Same6

OnRaTick(n) ==
  LET x == [Work6(n) EXCEPT !.i.tick = FALSE]
  IN /\ Quiet6 /\ if6[n].tick
     /\ Done(IF x.i.on /\ x.i.ra /\ x.i.up THEN SendRa(x, FALSE) ELSE x)
     /\ Same6

\* a router that announces itself does so three times in its lifetime, and less than that is lost
Advertising(r) == if6[r].up /\ if6[r].ra /\ Owns(if6[r], LinkLocal(r))
OnRouterExpiry(n, r) ==
  /\ Quiet6 /\ Position(if6[n], r) # {} /\ ~Advertising(r)
  /\ if6' = [if6 EXCEPT ![n].routers = SelectSeq(@, LAMBDA e : e.ip # r)]
  /\ UNCHANGED <<link6, dads>> /\ Same6

OnNsTimeout(n, a) ==
  LET i == Flush(if6[n], a)
  IN /\ Quiet6 /\ a \in if6[n].waiting
     /\ if6' = [if6 EXCEPT ![n] = IF a \in DOMAIN i.known THEN i ELSE Suspect(i, a)]
     /\ UNCHANGED <<link6, dads>> /\ Same6

OnNudTimer(n, a) ==
  LET e == if6[n].known[a]
      i == [if6[n] EXCEPT !.known = [b \in DOMAIN @ \ {a} |-> @[b]]]
      sent == IF e.state = "delay" THEN 0 ELSE e.probes
  IN /\ Quiet6 /\ a \in DOMAIN if6[n].known /\ e.state \in {"delay", "probe"}
     /\ Done(IF sent < Rounds
             THEN Emit6([Work6(n) EXCEPT !.i.known[a].state = "probe", !.i.known[a].probes = sent + 1],
                        {e.mac}, Ns(a, SourceFor(if6[n], n, a)))
             ELSE [Work6(n) EXCEPT !.i = Suspect(i, a)])
     /\ Same6

(* A host sends a packet to d, an address or somewhere outside; what it knows of the next hop may be old *)
NextHop(i, d) ==
  IF d[1] = "ll" \/ \E a \in DOMAIN i.addrs : a[1] = d[1] /\ i.addrs[a].state # "duplicate" THEN d
  ELSE IF Default6(i) = Nobody6 THEN Outside ELSE LinkLocal(Default6(i))
NudUse(e, old) ==
  IF e.state = "stale" \/ (e.state = "reachable" /\ old) THEN [e EXCEPT !.state = "delay"] ELSE e
Send6(n, d, old) ==
  LET i == if6[n]
      hop == NextHop(i, d)
      stale == hop \in DOMAIN i.known /\ i.known[hop].state = "none" /\ old
      x == IF stale THEN [Work6(n) EXCEPT !.i.known = [b \in DOMAIN @ \ {hop} |-> @[b]]] ELSE Work6(n)
  IN /\ Quiet6 /\ ~sent6 /\ ~lost6 /\ sent6' = TRUE
     /\ i.up /\ i.on /\ hop # Outside /\ ~Owns(i, d)
     /\ Done(CASE hop \in DOMAIN x.i.known -> [x EXCEPT !.i.known[hop] = NudUse(@, old)]
               [] hop \in x.i.waiting -> x
               [] OTHER -> Emit6([x EXCEPT !.i.waiting = @ \cup {hop}], Stations6, Ns(hop, SourceFor(i, n, hop))))
     /\ UNCHANGED <<nud, vanished, edits6, lost6>>

-------------------------------------------------------------------------------
(* What users do *)

LinkUp6(n) ==
  LET x == [Work6(n) EXCEPT !.i.up = TRUE, !.i.tries = IF if6[n].on THEN 0 ELSE @]
  IN /\ Quiet6 /\ ~if6[n].up /\ Edit6
     /\ Done(StartAll(x, DOMAIN x.i.addrs))
     /\ UNCHANGED <<nud, vanished, lost6, sent6>>

Down6(i) ==
  LET j == ForgetRa(Unlearned6(i))
  IN IF ~i.on THEN [i EXCEPT !.up = FALSE]
     ELSE [j EXCEPT !.up = FALSE, !.sent = {}, !.key = NotSent,
                    !.addrs = [a \in DOMAIN @ |-> [@[a] EXCEPT !.state = "tentative"]]]
LinkDown6(n) ==
  /\ Quiet6 /\ if6[n].up /\ Edit6
  /\ if6' = [if6 EXCEPT ![n] = Down6(@)] /\ dads' = Running(if6', dads)
  /\ vanished' = vanished \cup (IF n \in Routers6 /\ if6[n].ra THEN {n} ELSE {})
  /\ UNCHANGED <<link6, nud, lost6, sent6>>
\* a device that is taken away says good-bye
Shutdown6(n) ==
  LET x == IF if6[n].on /\ if6[n].ra THEN SendRa(Work6(n), TRUE) ELSE Work6(n)
  IN /\ Quiet6 /\ if6[n].up /\ n \in Routers6 /\ Edit6
     /\ Done([x EXCEPT !.i = Down6(@)])
     /\ UNCHANGED <<nud, vanished, lost6, sent6>>

SwitchedOff(x) ==
  LET y == IF x.i.ra /\ x.i.up THEN SendRa(x, TRUE) ELSE x
  IN [y EXCEPT !.i = [ForgetRa(Unlearned6(@)) EXCEPT !.on = FALSE, !.addrs = NoAddrs, !.ra = FALSE, !.slaac = FALSE,
                                                     !.tries = 0]]
\* the addresses a user enters, after those no longer entered have gone
SwitchedOn(x) ==
  LET y == [x EXCEPT !.i.on = TRUE, !.i.addrs = (LinkLocal(x.n) :> Tentative("ll"))]
  IN IF x.i.on THEN x ELSE IF x.i.up THEN StartDad(y, LinkLocal(x.n)) ELSE y
Readdressed(x, want) ==
  LET y == [x EXCEPT !.i = RemoveAddrs(@, Of(@, "manual") \ want)]
      new == want \ DOMAIN y.i.addrs
      z == [y EXCEPT !.i.addrs = [a \in DOMAIN @ \cup new |-> IF a \in new THEN Tentative("manual") ELSE @[a]]]
      asked == IF z.i.up THEN StartAll(z, new) ELSE z
  IN IF DOMAIN z.i.addrs = DOMAIN x.i.addrs THEN asked ELSE [asked EXCEPT !.i = Unlearned6(@)]
SlaacSet(x, on) ==
  LET y == [x EXCEPT !.i.slaac = TRUE, !.i.tries = 0]
  IN CASE on /\ ~x.i.slaac -> IF y.i.up /\ Owns(y.i, LinkLocal(y.n)) THEN SendRs(y) ELSE y
       [] ~on /\ x.i.slaac -> [x EXCEPT !.i = [ForgetRa(@) EXCEPT !.slaac = FALSE]]
       [] OTHER -> x
RaSet(x, cfg) ==
  LET y == [x EXCEPT !.i.ra = cfg.ra, !.i.dns = cfg.dns]
      ready == y.i.up /\ Owns(y.i, LinkLocal(y.n))
      z == CASE ready /\ cfg.ra /\ RaKey(y.i) # y.i.key -> SendRa(y, FALSE)
             [] ready /\ ~cfg.ra /\ x.i.ra -> SendRa(y, TRUE)
             [] OTHER -> y
  IN IF cfg.ra THEN z ELSE [z EXCEPT !.i.sent = {}, !.i.key = NotSent]
Configure6(n, cfg) ==
  LET x == Readdressed(SwitchedOn(Work6(n)), cfg.addrs)
  IN /\ Quiet6 /\ Edit6
     /\ Done(CASE ~cfg.on /\ ~if6[n].on -> Work6(n)
               [] ~cfg.on /\ if6[n].on -> SwitchedOff(Work6(n))
               [] cfg.on /\ n \in Hosts6 -> SlaacSet(x, cfg.slaac)
               [] OTHER -> RaSet(x, cfg))
     /\ UNCHANGED <<nud, vanished, lost6, sent6>>

-------------------------------------------------------------------------------
\* a router that is plugged in has been so for long; the hosts are plugged in at this moment
Long(i) ==
  LET j == [i EXCEPT !.up = TRUE, !.addrs = [a \in DOMAIN @ |-> [@[a] EXCEPT !.state = "preferred"]]]
  IN IF j.ra THEN [j EXCEPT !.sent = Announced(j), !.key = RaKey(j), !.tick = TRUE] ELSE j
Plugged6(n, cfg) ==
  LET x == [n |-> n, i |-> [New6(n, cfg) EXCEPT !.up = TRUE], out |-> <<>>, begun |-> <<>>]
  IN IF ~cfg.up THEN [x EXCEPT !.i.up = FALSE]
     ELSE IF n \in Hosts6 THEN StartAll(x, DOMAIN x.i.addrs) ELSE [x EXCEPT !.i = Long(@)]
Init ==
  /\ \E start \in Starts6 :
       LET x == [n \in Stations6 |-> Plugged6(n, start[n])]
       IN /\ if6 = [n \in Stations6 |-> x[n].i]
          /\ dads = FoldSet(LAMBDA n, q : q \o x[n].begun, <<>>, Stations6)
          /\ link6 = FoldSet(LAMBDA n, q : q \o x[n].out, <<>>, Stations6)
  /\ nud \in Watch
  /\ vanished = {} /\ edits6 = 0 /\ lost6 = FALSE /\ sent6 = FALSE

Timer6(n) ==
  \/ \E a \in DOMAIN if6[n].addrs : FinishDad(n, a)
  \/ OnRsTimer(n)
  \/ \E r \in Routers6 : OnRouterExpiry(n, r)
  \/ \E a \in if6[n].waiting : OnNsTimeout(n, a)
  \/ \E a \in DOMAIN if6[n].known : OnNudTimer(n, a)
Next ==
  \/ Receive6
  \/ \E n \in Stations6 :
    \/ Lose6(n)
    \/ Timer6(n) \/ OnRaTick(n)
    \/ n \in Hosts6 /\ \E old \in BOOLEAN, d \in Talks6 : Send6(n, d, old)
    \/ LinkUp6(n) \/ LinkDown6(n) \/ Shutdown6(n)
    \/ \E cfg \in Settings6[n] : Configure6(n, cfg)
Spec == Init /\ [][Next]_ipv6Vars

-------------------------------------------------------------------------------
\* An interface has addresses only while it is switched on, waits for no neighbour it knows, and lists a router once.
TypeOK ==
  \A n \in Stations6 :
    LET i == if6[n]
    IN /\ i.addrs # NoAddrs <=> i.on
       /\ i.waiting \cap DOMAIN i.known = {}
       /\ \A r \in Routers6 : Cardinality(Position(i, r)) <= 1
       /\ i.rs => i.up /\ i.slaac
       /\ ~i.slaac => i.routers = <<>> /\ Of(i, "slaac") = {}

\* However stations are plugged in, renumbered and made to build addresses at one time,
\* no two of them use one address, unless a question or an answer was lost.
NoTwoHolders ==
  Quiet6 /\ ~lost6 =>
    \A n, m \in Stations6 : n # m => \A a \in DOMAIN if6[n].addrs : ~(Owns(if6[n], a) /\ Owns(if6[m], a))

\* A station that takes an address over from another is known under its own link layer
\* address wherever the other was remembered.
NobodyMisled ==
  Quiet6 /\ ~lost6 =>
    \A n, m \in Stations6 : \A a \in DOMAIN if6[n].known : n # m /\ Owns(if6[m], a) => if6[n].known[a].mac = m

\* A host uses no router, prefix or name server that was withdrawn: when nothing is under
\* way, all it learnt is still announced, or was by a router cut off without a word.
NothingStale ==
  Quiet6 /\ ~lost6 =>
    \A n \in Hosts6, r \in Routers6 : r \notin vanished =>
      /\ Position(if6[n], r) # {} => Advertising(r)
      /\ \A p \in Prefixes6 : r \in if6[n].by[p] => Advertising(r) /\ p \in Announced(if6[r])
      /\ if6[n].rdns.from = r => Advertising(r) /\ if6[r].dns = if6[n].rdns.server
\* ... and a host has an address of a prefix exactly while some router it heard stands for the prefix.
Founded ==
  \A n \in Hosts6, p \in Prefixes6 :
    LET made == {a \in DOMAIN if6[n].addrs : a[1] = p}
    IN /\ if6[n].by[p] = {} => made \cap Of(if6[n], "slaac") = {}
       /\ if6[n].by[p] # {} => made # {}

\* When nothing is due any more, a host that builds its addresses sends to a router that is there, if there is
\* one.  (Not so one that heard of a router before its own address was ready: it never asks, and when that
\* router has gone it learns of another only when the other announces itself again.)
Due6(i) ==
  \/ i.rs \/ i.waiting # {} \/ dads # <<>>
  \/ \E a \in DOMAIN i.known : i.known[a].state \in {"delay", "probe"}
  \/ \E r \in Routers6 : Position(i, r) # {} /\ ~Advertising(r)
Searching(n) ==
  LET i == if6[n]
  IN /\ i.up /\ i.slaac /\ Owns(i, LinkLocal(n))
     /\ \E r \in Routers6 : Advertising(r)
     /\ i.tries > 0 \/ edits6 = 0
WayOut ==
  Quiet6 /\ ~lost6 /\ (\A n \in Stations6 : ~Due6(if6[n])) =>
    \A n \in Hosts6 : Searching(n) => Default6(if6[n]) # Nobody6 /\ Advertising(Default6(if6[n]))
===============================================================================
