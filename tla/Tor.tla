--------------------------------- MODULE Tor ---------------------------------
(***************************************************************************)
(* The Tor client of a router and the relays (nodes/tor.ts): a circuit is  *)
(* built with the guard, packets wait for it, the exit opens a port for    *)
(* every flow and answers go back along the circuit the flow came by.      *)
(* Cells are lost on the way, the guard restarts, the router's address     *)
(* changes, with and without the client being told, and Tor is switched    *)
(* off and on.  The three relays are one node of the program.              *)
(***************************************************************************)
EXTENDS Naturals, Sequences, SequencesExt, FiniteSets

CONSTANTS
  None,
  TorScenes,     \* routers with Tor, whether they have a circuit, and how much goes wrong
  FlowsIn,       \* FlowsIn[c]: the flows of the LAN of c
  AddressesOf,   \* AddressesOf[c]: addresses the first line of c may have
  SecondLine,    \* SecondLine[c]: address of the second line of c, or None
  QueueCap,      \* packets that wait for a circuit (32)
  FlowCap,       \* flows the exit remembers (4096)
  ExitPorts      \* its ports are 1 .. ExitPorts (30000 .. 60000)

VARIABLES
  tor,       \* tor[c]: TorClient
  lineOf,    \* lineOf[c]: addresses of the lines, and the one in use
  natted,    \* natted[c]: flows the translation table knows
  toGuard,   \* toGuard[c]: cells on their way to the guard
  fromGuard, \* fromGuard[c]: cells on their way back
  guard,     \* its circuits, each an address and a number, and whether it ever restarted
  exit,      \* flows (oldest first), byInner and nextPort of the exit
  replies,   \* what servers answer to the ports of the exit
  handed,    \* packets given to Tor
  arrived,   \* those of them that servers got
  excused,   \* those that were dropped where the code says so
  answered,  \* answers that hosts got: for whom they were meant, and who got them
  torLeft    \* how many packets, and losses, restarts, changes of address and switchings, are left (bound)
torVars == <<tor, lineOf, natted, toGuard, fromGuard, guard, exit, replies, handed, arrived, excused, answered, torLeft>>

\* the address the router sends its own packets from
WanIp(l) == IF l.active = "wan2" THEN l.wan2 ELSE l.wan
Holds(l, a) == a # None /\ a \in {l.wan, l.wan2}
Routers == DOMAIN tor
Edit == torLeft.edits > 0 /\ torLeft' = [torLeft EXCEPT !.edits = @ - 1]

-------------------------------------------------------------------------------
(* The client.  What a handler does is a record: the client, the cells it sends *)
(* and the packets it drops; cells without an address to send from are dropped  *)
Cell(op, circ, inner) == [op |-> op, circ |-> circ, inner |-> inner]
Does(t) == [t |-> t, cells |-> <<>>, drops |-> {}]
ToGuard(d, l, cell) ==
  IF WanIp(l) # None THEN [d EXCEPT !.cells = Append(@, [src |-> WanIp(l), cell |-> cell])]
  ELSE IF cell.inner # None THEN [d EXCEPT !.drops = @ \cup {cell.inner}] ELSE d
Create(d, l) == ToGuard(d, l, Cell("create", d.t.wait, None))
Build(d, l) ==
  IF d.t.building \/ WanIp(l) = None THEN d
  ELSE Create([d EXCEPT !.t.building = TRUE, !.t.failed = FALSE, !.t.tries = 1, !.t.wait = d.t.nextCirc, !.t.nextCirc = @ + 1], l)
\* a packet that waits if there is room
Wait(d, p) ==
  IF Len(d.t.queue) < QueueCap THEN [d EXCEPT !.t.queue = Append(@, p)] ELSE [d EXCEPT !.drops = @ \cup {p}]
SendInner(d, l, p) ==
  IF d.t.circ = None THEN Build(Wait(d, p), l) ELSE ToGuard(d, l, Cell("data", d.t.circ, p))
SetEnabled(t, l, on) ==
  LET d == [Does([t EXCEPT !.enabled = on, !.wait = None, !.queue = <<>>]) EXCEPT !.drops = ToSet(t.queue)]
      bye == IF t.circ # None THEN ToGuard(d, l, Cell("destroy", t.circ, None)) ELSE d
  IN IF on THEN Build(d, l) ELSE [bye EXCEPT !.t.circ = None, !.t.building = FALSE]
OnWanAddress(t, l) ==
  IF ~t.enabled \/ WanIp(l) = None THEN Does(t) ELSE Build(Does([t EXCEPT !.circ = None, !.building = FALSE]), l)
\* cells from the guard: any circuit that is made is taken
HandleCreated(t, l, circ) ==
  IF t.circ = circ THEN Does(t)
  ELSE FoldLeft(LAMBDA d, p : SendInner(d, l, p),
                Does([t EXCEPT !.circ = circ, !.building = FALSE, !.wait = None, !.queue = <<>>]), t.queue)
HandleDestroy(t, l, cell) ==
  IF cell.circ # t.circ THEN [Does(t) EXCEPT !.drops = {cell.inner}]
  ELSE Build(Wait(Does([t EXCEPT !.circ = None]), cell.inner), l)
OnTimer(t, l) ==
  IF t.tries > 2 THEN [Does([t EXCEPT !.building = FALSE, !.failed = TRUE, !.wait = None, !.queue = <<>>]) EXCEPT !.drops = ToSet(t.queue)]
  ELSE Create(Does([t EXCEPT !.tries = @ + 1]), l)

\* a handler of c has run, with its lines as they are now
Done(c, d) ==
  /\ tor' = [tor EXCEPT ![c] = d.t]
  /\ toGuard' = [toGuard EXCEPT ![c] = @ \o d.cells]
  /\ excused' = excused \cup d.drops

-------------------------------------------------------------------------------
(* The exit *)
Key(from, circ, flow) == <<from, circ, flow>>
PortOf(x, k) == IF \E i \in DOMAIN x.byInner : x.byInner[i].key = k
                THEN (CHOOSE e \in ToSet(x.byInner) : e.key = k).port ELSE None
FlowAt(x, port) == SelectSeq(x.flows, LAMBDA f : f.port = port)
Forget(x, f) ==
  [x EXCEPT !.flows = SelectSeq(@, LAMBDA g : g.port # f.port), !.byInner = SelectSeq(@, LAMBDA e : e.key # f.key)]
NextOf(port) == IF port = ExitPorts THEN 1 ELSE port + 1
\* the next port that is not in use
FreePort(x) ==
  LET After[n \in 0 .. ExitPorts] == IF n = 0 THEN x.nextPort ELSE NextOf(After[n - 1])
      Free(n) == FlowAt(x, After[n]) = <<>>
  IN After[CHOOSE n \in 0 .. ExitPorts : Free(n) /\ \A m \in 0 .. n - 1 : ~Free(m)]
Opened(x, k, flow) ==
  LET y == IF Len(x.flows) >= FlowCap THEN Forget(x, Head(x.flows)) ELSE x
      port == FreePort(y)
  IN [flows |-> Append(y.flows, [port |-> port, key |-> k, flow |-> flow, client |-> k[1], circ |-> k[2], fins |-> {}]),
      byInner |-> Append(y.byInner, [key |-> k, port |-> port]), nextPort |-> NextOf(port)]
\* an RST, or what follows both FINs, gives the port back
Finish(x, port, kind, dir) ==
  IF FlowAt(x, port) = <<>> THEN x
  ELSE LET f == Head(FlowAt(x, port))
           fins == IF kind = "fin" THEN f.fins \cup {dir} ELSE f.fins
       IN IF kind = "rst" \/ (fins = {"out", "in"} /\ kind # "fin") THEN Forget(x, f)
          ELSE [x EXCEPT !.flows = [i \in DOMAIN @ |-> IF @[i].port = port THEN [@[i] EXCEPT !.fins = fins] ELSE @[i]]]

-------------------------------------------------------------------------------
(* Steps *)
Client(up) ==
  [enabled |-> up, circ |-> IF up THEN 1 ELSE None, building |-> FALSE, tries |-> IF up THEN 1 ELSE 0, wait |-> None, queue |-> <<>>,
   nextCirc |-> IF up THEN 2 ELSE 1, failed |-> FALSE]
FirstOf(c) == CHOOSE a \in AddressesOf[c] : TRUE
Init ==
  \E scene \in TorScenes :
    /\ tor = [c \in scene.clients |-> Client(scene.up)]
    /\ lineOf = [c \in scene.clients |-> [wan |-> IF scene.up THEN FirstOf(c) ELSE None, wan2 |-> SecondLine[c], active |-> "wan"]]
    /\ natted = [c \in scene.clients |-> {}]
    /\ toGuard = [c \in scene.clients |-> <<>>] /\ fromGuard = [c \in scene.clients |-> <<>>]
    /\ guard = [circuits |-> IF scene.up THEN {<<FirstOf(c), 1>> : c \in scene.clients} ELSE {}, restarted |-> FALSE]
    /\ exit = [flows |-> <<>>, byInner |-> <<>>, nextPort |-> 1] /\ replies = {}
    /\ handed = {} /\ arrived = {} /\ excused = {} /\ answered = {} /\ torLeft = scene.left

Outside == <<natted, fromGuard, guard, exit, replies, handed, arrived, answered>>
Toggle(c) ==
  /\ (tor[c].enabled => Edit) /\ (~tor[c].enabled => UNCHANGED torLeft)
  /\ Done(c, SetEnabled(tor[c], lineOf[c], ~tor[c].enabled)) /\ UNCHANGED <<lineOf, Outside>>
\* the first line gets an address, also the same again
GetsAddress(c, a) ==
  /\ (lineOf[c].wan # None => Edit) /\ (lineOf[c].wan = None => UNCHANGED torLeft)
  /\ lineOf' = [lineOf EXCEPT ![c].wan = a, ![c].active = IF lineOf[c].wan = None THEN "wan" ELSE @]
  /\ Done(c, OnWanAddress(tor[c], lineOf'[c])) /\ UNCHANGED Outside
\* it loses it, or the router turns to its other line: the client is not told
LosesAddress(c) ==
  /\ Edit /\ lineOf[c].wan # None
  /\ lineOf' = [lineOf EXCEPT ![c].wan = None, ![c].active = IF lineOf[c].wan2 = None THEN "wan" ELSE "wan2"]
  /\ UNCHANGED <<tor, toGuard, excused, Outside>>
Turns(c) ==
  /\ Edit /\ lineOf[c].wan # None /\ lineOf[c].wan2 # None
  /\ lineOf' = [lineOf EXCEPT ![c].active = IF @ = "wan" THEN "wan2" ELSE "wan"]
  /\ UNCHANGED <<tor, toGuard, excused, Outside>>
\* ForwardToWan: what the translation table does not know goes by Tor
Sends(c, f, kind) ==
  LET p == [client |-> c, flow |-> f, kind |-> kind, n |-> Cardinality({q \in handed : q.client = c})] IN
  /\ IF tor[c].enabled /\ f \notin natted[c]
     THEN /\ torLeft.packets > 0 /\ torLeft' = [torLeft EXCEPT !.packets = @ - 1]
          /\ Done(c, SendInner(Does(tor[c]), lineOf[c], p)) /\ handed' = handed \cup {p} /\ UNCHANGED natted
     ELSE /\ WanIp(lineOf[c]) # None /\ natted' = [natted EXCEPT ![c] = @ \cup {f}] /\ natted' # natted
          /\ UNCHANGED <<tor, toGuard, excused, handed, torLeft>>
  /\ UNCHANGED <<lineOf, fromGuard, guard, exit, replies, arrived, answered>>
\* the answer to CREATE takes less than the timer
Timeout(c) ==
  /\ tor[c].wait # None /\ tor[c].enabled /\ toGuard[c] = <<>> /\ fromGuard[c] = <<>>
  /\ Done(c, OnTimer(tor[c], lineOf[c])) /\ UNCHANGED <<lineOf, Outside, torLeft>>
FromGuard(c) ==
  /\ fromGuard[c] # <<>> /\ fromGuard' = [fromGuard EXCEPT ![c] = Tail(@)]
  /\ LET m == Head(fromGuard[c])
         t == tor[c]
         lost == IF m.cell.op = "destroy" THEN {m.cell.inner} ELSE {}
         d == IF ~Holds(lineOf[c], m.dst) \/ ~t.enabled THEN [Does(t) EXCEPT !.drops = lost]
              ELSE CASE m.cell.op = "created" -> HandleCreated(t, lineOf[c], m.cell.circ)
                     [] m.cell.op = "destroy" -> HandleDestroy(t, lineOf[c], m.cell)
                     [] m.cell.op = "data" -> Does(t)
     IN /\ Done(c, d)
        /\ answered' = IF m.cell.op = "data" /\ Holds(lineOf[c], m.dst) /\ t.enabled /\ m.cell.circ = t.circ
                       THEN answered \cup {<<m.cell.inner.of, <<c, m.cell.inner.flow>>>>} ELSE answered
  /\ UNCHANGED <<lineOf, natted, guard, exit, replies, handed, arrived, torLeft>>
OwnerOf(a) == CHOOSE c \in Routers : a \in AddressesOf[c] \cup {SecondLine[c]}
Back(a, cell) == [fromGuard EXCEPT ![OwnerOf(a)] = Append(@, [dst |-> a, cell |-> cell])]
AtGuard(c) ==
  /\ toGuard[c] # <<>> /\ toGuard' = [toGuard EXCEPT ![c] = Tail(@)]
  /\ LET from == Head(toGuard[c]).src
         m == Head(toGuard[c]).cell
         known == <<from, m.circ>> \in guard.circuits
         k == Key(from, m.circ, m.inner.flow)
         x == IF PortOf(exit, k) = None THEN Opened(exit, k, m.inner.flow) ELSE exit
         port == PortOf(x, k)
     IN \/ /\ m.op = "create" /\ guard' = [guard EXCEPT !.circuits = @ \cup {<<from, m.circ>>}] /\ fromGuard' = Back(from, Cell("created", m.circ, None))
           /\ UNCHANGED <<exit, replies, arrived>>
        \/ /\ m.op = "destroy" /\ guard' = [guard EXCEPT !.circuits = @ \ {<<from, m.circ>>}] /\ UNCHANGED <<fromGuard, exit, replies, arrived>>
        \/ /\ m.op = "data" /\ ~known /\ fromGuard' = Back(from, Cell("destroy", m.circ, m.inner))
           /\ UNCHANGED <<guard, exit, replies, arrived>>
        \/ /\ m.op = "data" /\ known
           \* an answer does not outlive the 30000 flows it takes to come to its port again
           /\ PortOf(exit, k) = None => \A r \in replies : r.port # port
           /\ exit' = Finish(x, port, m.inner.kind, "out") /\ arrived' = arrived \cup {m.inner}
           /\ replies' = IF m.inner.kind = "rst" THEN replies
                         ELSE replies \cup {[port |-> port, kind |-> m.inner.kind, n |-> m.inner.n, of |-> <<m.inner.client, m.inner.flow>>]}
           /\ UNCHANGED <<guard, fromGuard>>
  /\ UNCHANGED <<tor, lineOf, natted, handed, excused, answered, torLeft>>
\* a server answers
Replied(r) ==
  /\ r \in replies /\ replies' = replies \ {r}
  /\ IF FlowAt(exit, r.port) = <<>> THEN UNCHANGED <<exit, fromGuard>>
     ELSE LET f == Head(FlowAt(exit, r.port))
          IN exit' = Finish(exit, r.port, r.kind, "in")
               /\ fromGuard' = Back(f.client, Cell("data", f.circ, [flow |-> f.flow, of |-> r.of]))
  /\ UNCHANGED <<tor, lineOf, natted, toGuard, guard, handed, arrived, excused, answered, torLeft>>
LosesCell(c) ==
  /\ Edit
  /\ \/ /\ toGuard[c] # <<>> /\ toGuard' = [toGuard EXCEPT ![c] = Tail(@)] /\ UNCHANGED fromGuard
        /\ excused' = excused \cup ({Head(toGuard[c]).cell.inner} \ {None})
     \/ /\ fromGuard[c] # <<>> /\ fromGuard' = [fromGuard EXCEPT ![c] = Tail(@)] /\ UNCHANGED toGuard
        /\ excused' = IF Head(fromGuard[c]).cell.op = "destroy" THEN excused \cup {Head(fromGuard[c]).cell.inner} ELSE excused
  /\ UNCHANGED <<tor, lineOf, natted, guard, exit, replies, handed, arrived, answered>>
\* the node is made anew, and the servers with it
GuardRestarts ==
  /\ Edit /\ guard' = [circuits |-> {}, restarted |-> TRUE] /\ exit' = [flows |-> <<>>, byInner |-> <<>>, nextPort |-> 1] /\ replies' = {}
  /\ UNCHANGED <<tor, lineOf, natted, toGuard, fromGuard, handed, arrived, excused, answered>>

Next ==
  \/ \E c \in Routers :
       \/ Toggle(c) \/ LosesAddress(c) \/ Turns(c) \/ Timeout(c) \/ FromGuard(c) \/ AtGuard(c) \/ LosesCell(c)
       \/ \E a \in AddressesOf[c] : GetsAddress(c, a)
       \/ \E f \in FlowsIn[c], kind \in {"data", "fin", "rst"} : Sends(c, f, kind)
  \/ \E r \in replies : Replied(r)
  \/ GuardRestarts

Spec == Init /\ [][Next]_torVars

-------------------------------------------------------------------------------
(* Properties *)
\* A circuit that is being built has its timer, and there is none beside it; what waits, waits for a circuit;
\* the exit's two tables agree and keep to their limit
TypeOK ==
  /\ \A c \in Routers :
       LET t == tor[c]
       IN /\ t.building <=> t.wait # None
          /\ t.building => t.enabled /\ t.circ = None
          /\ t.queue # <<>> => t.enabled /\ t.circ = None
          /\ Len(t.queue) <= QueueCap
  /\ {[key |-> f.key, port |-> f.port] : f \in ToSet(exit.flows)} = ToSet(exit.byInner)
  /\ Len(exit.byInner) = Len(exit.flows) /\ Len(exit.flows) <= FlowCap
  /\ \A i, j \in DOMAIN exit.flows : i # j => exit.flows[i].port # exit.flows[j].port /\ exit.flows[i].key # exit.flows[j].key

\* tor.ts: routers that pick the same circuit number are not mixed up: an answer comes to the flow, of the
\* router, it is the answer to
OwnAnswers == \A a \in answered : a[1] = a[2]

\* tor.ts: a packet that is given to Tor waits, is on its way or arrives, and none is dropped but where
\* it says so; a guard that forgot the circuit hands it back
NothingForgotten ==
  \A p \in handed :
    \/ p \in arrived \cup excused \cup ToSet(tor[p.client].queue)
    \/ \E i \in DOMAIN toGuard[p.client] : toGuard[p.client][i].cell.inner = p
    \/ \E i \in DOMAIN fromGuard[p.client] : fromGuard[p.client][i].cell.op = "destroy" /\ fromGuard[p.client][i].cell.inner = p

\* tor.ts: when nothing is under way, a router that has an address it was told of has a circuit or gave up,
\* and nothing waits; and the circuit is one the guard made for it, unless the guard restarted
Quiet(c) == toGuard[c] = <<>> /\ fromGuard[c] = <<>> /\ tor[c].wait = None
WayUp ==
  \A c \in Routers : Quiet(c) /\ tor[c].enabled /\ SecondLine[c] = None /\ lineOf[c].wan # None =>
    /\ tor[c].circ # None \/ tor[c].failed
    /\ tor[c].queue = <<>>
    /\ tor[c].circ # None => <<lineOf[c].wan, tor[c].circ>> \in guard.circuits \/ guard.restarted
===============================================================================
