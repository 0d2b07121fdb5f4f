------------------------------- MODULE Publish --------------------------------
(***************************************************************************)
(* Published ports and hairpin NAT (src/src/core/nodes/publish.ts): a TCP  *)
(* connection to an address of the box is passed on to an inside target    *)
(* from an address of the box and a proxy port of its own, and what the    *)
(* target answers to that port goes back to the client.  A box has two of  *)
(* these, one for published ports and one for hairpinning, which draw on   *)
(* the same proxy ports.                                                   *)
(***************************************************************************)
EXTENDS Naturals, FiniteSets, FiniteSetsExt

CONSTANTS
  None,
  Users,        \* the two users of proxy ports, "publish" before "hairpin"
  Clients,      \* client ends: address and port
  Addrs,        \* the addresses of the box
  Rules,        \* the rule sets a user may set: [port, bind, to], at most one for port and bind
  Everywhere,   \* the bind address that stands for all addresses
  ProxyPorts,   \* how many proxy ports there are (1000 in the code)
  TimeWait,     \* Ticks a finished flow keeps its port (2 s)
  Unanswered,   \* Ticks an unanswered one does (10 s)
  MaxSegments, MaxNow   \* bounds: segments sent, and the clock

VARIABLES
  pub,      \* pub[u]: the rules, the flows and the next proxy port to try
  pubNow,   \* the clock
  conns,    \* connections both ends take for open: [client, addr, port, to, proxy, fins]
  segments
vars == <<pub, pubNow, conns, segments>>

Init ==
  /\ pub \in [Users -> {[rules |-> r, flows |-> {}, next |-> 0] : r \in Rules}]
  /\ pubNow = 0 /\ conns = {} /\ segments = 0

Targets == {r.to : r \in UNION Rules}
Ports == {r.port : r \in UNION Rules}

SameFlow(f, c, a, p) == f.client = c /\ f.addr = a /\ f.port = p
Going(u, c, a, p) == {f \in pub[u].flows : SameFlow(f, c, a, p)}

\* a rule bound to the very address comes before one for every address
RuleFor(u, a, p) ==
  LET exact == {r \in pub[u].rules : r.port = p /\ r.bind = a}
  IN  IF exact # {} THEN exact ELSE {r \in pub[u].rules : r.port = p /\ r.bind = Everywhere}

InUse(u) == {f.proxy : f \in pub[u].flows}

Stale(f) == \/ f.closed # None /\ pubNow - f.closed >= TimeWait
            \/ ~f.established /\ pubNow - f.since >= Unanswered

\* (mutant) the ports of the other user are not looked at
FreeOfOwn(u, flows) ==
  {i \in 0 .. ProxyPorts - 1 : (pub[u].next + i) % ProxyPorts \notin {f.proxy : f \in flows}}

\* the next port in turn that neither this user nor the other one has in use
Free(u, flows) ==
  {i \in 0 .. ProxyPorts - 1 :
     LET p == (pub[u].next + i) % ProxyPorts
     IN  p \notin {f.proxy : f \in flows} /\ \A v \in Users \ {u} : p \notin InUse(v)}

\* The end of a flow as it is seen to pass
Track(f, flag, side) ==
  LET done == IF f.closed = None THEN pubNow ELSE f.closed
  IN  CASE flag = "rst" -> [f EXCEPT !.closed = done]
        [] flag = "fin" -> [f EXCEPT !.fins = @ \cup {side}]
        [] flag = "ack" /\ f.fins = {"client", "target"} -> [f EXCEPT !.closed = done]
        [] OTHER -> f

\* What the two ends know of the connection: over at a reset or once both have finished
Ends(k, flag, side) ==
  IF flag = "rst" THEN {}
  ELSE LET n == [k EXCEPT !.fins = IF flag = "fin" THEN @ \cup {side} ELSE @]
       IN  IF n.fins = {"client", "target"} THEN {} ELSE {n}
AfterSegment(match(_), flag, side) == UNION {IF match(k) THEN Ends(k, flag, side) ELSE {k} : k \in conns}

\* neither end finishes a connection before it is made
Finishes(flows, flag) == flag = "fin" => \E f \in flows : f.established

\* A client's segment to address a, port p of the box.  A flow under way goes on
\* whatever the rules say now; a new one needs a rule, a SYN and a free port
ClientSends(u, c, a, p, flag) ==
  /\ segments < MaxSegments /\ segments' = segments + 1
  /\ Finishes(Going(u, c, a, p), flag)
  /\ LET going  == Going(u, c, a, p)
         goesOn == \E f \in going : ~(f.closed # None /\ flag = "syn")
         kept   == {f \in pub[u].flows \ going : ~Stale(f)}
         free   == Free(u, kept)
     IN  IF goesOn
         THEN /\ pub' = [pub EXCEPT ![u].flows = (@ \ going) \cup {Track(f, flag, "client") : f \in going}]
              /\ conns' = AfterSegment(LAMBDA k : SameFlow(k, c, a, p), flag, "client")
         ELSE IF RuleFor(u, a, p) = {} \/ flag # "syn"
         \* dropped, or refused when another address has the port
         THEN /\ pub' = [pub EXCEPT ![u].flows = IF RuleFor(u, a, p) = {} THEN @ ELSE @ \ going]
              /\ conns' = conns
         ELSE \E r \in RuleFor(u, a, p) :
              IF free = {} THEN pub' = [pub EXCEPT ![u].flows = kept] /\ conns' = conns
              ELSE LET i == Min(free)
                       f == [client |-> c, addr |-> a, port |-> p, to |-> r.to,
                             proxy |-> (pub[u].next + i) % ProxyPorts, since |-> pubNow,
                             established |-> FALSE, fins |-> {}, closed |-> None]
                   IN  /\ pub' = [pub EXCEPT ![u].flows = kept \cup {f},
                                             ![u].next = (@ + i + 1) % ProxyPorts]
                       /\ conns' = {k \in conns : ~SameFlow(k, c, a, p)}
  /\ UNCHANGED pubNow

\* A segment of target t to proxy port x is for the user that has this port
Backs(t, x) == {b \in UNION {{u} \X pub[u].flows : u \in Users} : b[2].proxy = x /\ b[2].to = t}

TargetSends(t, x, flag) ==
  /\ segments < MaxSegments /\ segments' = segments + 1
  /\ \E b \in Backs(t, x) :
       LET u == b[1]
           f == b[2]
           k == [client |-> f.client, addr |-> f.addr, port |-> f.port, to |-> t, proxy |-> x, fins |-> {}]
       IN  /\ Finishes({f}, flag) /\ (flag = "synack" => ~f.established)
           /\ pub' = [pub EXCEPT ![u].flows =
                        (@ \ {f}) \cup {Track([f EXCEPT !.established = @ \/ flag = "synack"], flag, "target")}]
           /\ conns' = IF flag = "synack" /\ f.closed = None THEN conns \cup {k}
                       ELSE AfterSegment(LAMBDA c : c.to = t /\ c.proxy = x, flag, "target")
  /\ UNCHANGED pubNow

SetRules(u, r) ==
  /\ pub[u].rules # r
  /\ pub' = [pub EXCEPT ![u].rules = r]
  /\ segments < MaxSegments /\ segments' = segments + 1
  /\ UNCHANGED <<pubNow, conns>>

Tick == pubNow < MaxNow /\ pubNow' = pubNow + 1 /\ UNCHANGED <<pub, conns, segments>>

Next ==
  \/ \E u \in Users, c \in Clients, a \in Addrs, p \in Ports, flag \in {"syn", "ack", "fin", "rst"} :
       ClientSends(u, c, a, p, flag)
  \/ \E t \in Targets, x \in 0 .. ProxyPorts - 1, flag \in {"synack", "ack", "fin", "rst"} : TargetSends(t, x, flag)
  \/ \E u \in Users, r \in Rules : SetRules(u, r)
  \/ Tick

-------------------------------------------------------------------------------
TypeOK ==
  \A u \in Users : /\ pub[u].next \in 0 .. ProxyPorts - 1
                   /\ InUse(u) \subseteq 0 .. ProxyPorts - 1

\* No proxy port serves two connections, of one user or of the two
OnePortEach == \A x \in 0 .. ProxyPorts - 1 :
  Cardinality({b \in UNION {{u} \X pub[u].flows : u \in Users} : b[2].proxy = x}) <= 1

\* A connection both ends take for open is carried both ways between the same ends,
\* whatever happened to the rules and to the other connections
StillCarried == \A k \in conns : \E u \in Users : \E f \in pub[u].flows :
  SameFlow(f, k.client, k.addr, k.port) /\ f.to = k.to /\ f.proxy = k.proxy
===============================================================================
