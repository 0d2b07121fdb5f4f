--------------------------------- MODULE Rip ----------------------------------
(***************************************************************************)
(* Dynamic routing with triggered updates only (src/src/core/nodes/rip.ts):*)
(* a router tells its neighbours its networks and routes when something    *)
(* changed, poisons what it learnt from them, and asks them all again when *)
(* it lost a route.  There are no periodic updates and no timeouts.        *)
(*                                                                         *)
(* A network is a link with the routers attached to it; messages of one    *)
(* router to another over a link arrive in order, unless the link fails.   *)
(* All updates wait the same delay (250 ms), so they fire in the order     *)
(* they became due; a message takes far less, so it arrives before an      *)
(* update that became due after it was sent.                               *)
(***************************************************************************)
EXTENDS Naturals, Sequences, FiniteSets, FiniteSetsExt, SequencesExt, TLC

CONSTANTS
  Routers,
  Links,        \* the networks between and behind the routers
  Attached,     \* Attached[l]: the routers on link l
  Segments,     \* the links that are a switch: each router has a cable of its own to it
  Uplink,       \* the link whose router announces a default route, or None
  Default,      \* the default route, as a destination
  Infinity,     \* the metric that says unreachable (16 in the code)
  None,
  MaxEdits      \* bound: cables pulled and plugged, RIP switched, addresses changed

VARIABLES
  rip,      \* rip[r]: whether it is on, its routes and what it announced last and where
  due,      \* the routers an update is due for, the oldest first
  up,       \* the ends <<r, l>> that are up, router r's port on link l
  wire,     \* wire[<<l, r, s>>]: messages from r to s over l
  edits
vars == <<rip, due, up, wire, edits>>

Dests == Links \cup {Default}
Hops == {h \in Links \X Routers \X Routers : {h[2], h[3]} \subseteq Attached[h[1]] /\ h[2] # h[3]}

NoRoutes == [n \in {} |-> None]

-------------------------------------------------------------------------------
Ifaces(r) == {l \in Links : r \in Attached[l]}
Participates(r, l) == <<r, l>> \in up

\* kick: an update is due, unless there is nobody to tell
Pending(r) == \E i \in DOMAIN due : due[i] = r
Kick(rs) == due' = due \o SetToSeq({r \in rs : ~Pending(r) /\ (rip'[r].on \/ rip'[r].active # {})})

Usable(r, x, route) == x.on /\ route.metric < Infinity /\ Participates(r, route.out)

\* the networks a router announces as its own, and the interface each is on
Own(r, x) ==
  IF ~x.on THEN NoRoutes
  ELSE [n \in {l \in Links : Participates(r, l)}
              \cup (IF Uplink # None /\ Participates(r, Uplink) THEN {Default} ELSE {})
          |-> IF n = Default THEN Uplink ELSE n]

Joined(r, s, l) == Participates(r, l) /\ Participates(s, l)

\* the routers within k links of network n, of those that are on
Near(n, on) ==
  LET ends == IF n # Default THEN {n} ELSE {Uplink} \ {None}
      f[k \in 0 .. Infinity] ==
        IF k = 0 THEN {r \in on : \E l \in ends : Participates(r, l)}
        ELSE f[k-1] \cup {r \in on : \E l \in Ifaces(r), s \in f[k-1] : Joined(r, s, l)}
  IN  f

Distances(r, n, on) == {k \in 0 .. Infinity - 1 : r \in Near(n, on)[k]}

\* a shortest way of r to n
Shortest(r, n, route, on) ==
  /\ route.metric = Min(Distances(r, n, on))
  /\ Joined(r, route.from, route.out)
  /\ route.from \in Near(n, on)[route.metric - 1] \ {r}

\* the ends of a cable that fail together
Cable(r, l) == IF l \in Segments THEN {<<r, l>>} ELSE {<<s, l>> : s \in Attached[l]}
EndsOf(c) == {e[1] : e \in c}

\* The network at rest, with at most one cable out: everybody knows a shortest way
Init ==
  /\ LET all == {p \in Routers \X Links : p[1] \in Attached[p[2]]}
     IN  up \in {all} \cup {all \ Cable(e[1], e[2]) : e \in all}
  /\ rip = [r \in Routers |->
       [on |-> TRUE, advertised |-> DOMAIN Own(r, [on |-> TRUE]), active |-> {l \in Links : Participates(r, l)}, lost |-> FALSE,
        routes |-> [n \in {d \in Dests : \E k \in Distances(r, d, Routers) : k > 0} \ DOMAIN Own(r, [on |-> TRUE]) |->
                      CHOOSE t \in [out : Links, from : Routers, metric : 1 .. Infinity] :
                        Shortest(r, n, t, Routers)]]]
  /\ due = <<>>
  /\ wire = [h \in Hops |-> <<>>]
  /\ edits = 0

\* (mutant) what is no longer a network of its own is left out, not withdrawn
EntriesForgotten(i, own, gone, routes) ==
  LET mine  == {n \in DOMAIN own : n = Default \/ own[n] # i}
      learn == DOMAIN routes \ DOMAIN own
      metric(n) == IF n \in mine THEN 1
                   ELSE IF routes[n].metric >= Infinity \/ routes[n].out = i THEN Infinity
                   ELSE Min({routes[n].metric + 1, Infinity})
  IN  [n \in mine \cup learn |-> metric(n)]

\* What goes out on link i: own networks, those no longer own, and the routes, those
\* learnt on i poisoned
EntriesFor(i, own, gone, routes) ==
  LET mine  == {n \in DOMAIN own : n = Default \/ own[n] # i}
      learn == DOMAIN routes \ DOMAIN own
      metric(n) == IF n \in mine THEN IF n = Default /\ own[n] = i THEN Infinity ELSE 1
                   ELSE IF n \notin learn \/ routes[n].metric >= Infinity \/ routes[n].out = i THEN Infinity
                   ELSE Min({routes[n].metric + 1, Infinity})
  IN  [n \in mine \cup (gone \ DOMAIN own) \cup learn |-> metric(n)]

WithdrawAll(x) == [n \in x.advertised \cup DOMAIN x.routes |-> Infinity]

Request == [cmd |-> "request"]
Response(entries) == IF DOMAIN entries = {} THEN <<>> ELSE <<[cmd |-> "response", entries |-> entries]>>

\* Append to the queues of everybody else on each link; `ahead` are the updates that
\* may still fire before the messages arrive, those that are due already
Multicast(r, msgs, ahead) ==
  [h \in Hops |->
     [i \in DOMAIN wire[h] |-> [wire[h][i] EXCEPT !.ahead = @ \cap ahead]]
     \o (IF h[2] = r /\ h[1] \in DOMAIN msgs /\ Joined(r, h[3], h[1])
         THEN [i \in DOMAIN msgs[h[1]] |-> [msg |-> msgs[h[1]][i], ahead |-> ahead]]
         ELSE <<>>)]
Waiting == {due[i] : i \in DOMAIN due}

\* The triggered update: routes that can no longer be used are withdrawn, everybody
\* is told, and asked when an interface is new or a route was lost
Update(r) ==
  LET x      == rip[r]
      dead(n) == x.on /\ x.routes[n].metric < Infinity /\ ~Usable(r, x, x.routes[n])
      routes == [n \in DOMAIN x.routes |-> IF dead(n) THEN [x.routes[n] EXCEPT !.metric = Infinity]
                                           ELSE x.routes[n]]
      lost   == x.lost \/ \E n \in DOMAIN x.routes : dead(n)
      own    == Own(r, x)
      gone   == x.advertised \ DOMAIN own
      sendOn == {l \in IF x.on THEN Ifaces(r) ELSE x.active : Participates(r, l)}
      msgs   == [l \in sendOn |->
                   (IF x.on /\ (l \notin x.active \/ lost) THEN <<Request>> ELSE <<>>)
                   \o Response(IF x.on THEN EntriesFor(l, own, gone, routes) ELSE WithdrawAll(x))]
      kept   == {n \in DOMAIN routes : x.on /\ routes[n].metric < Infinity}
  IN  /\ due # <<>> /\ r = Head(due) /\ due' = Tail(due)
      /\ \A h \in Hops : \A i \in DOMAIN wire[h] : r \in wire[h][i].ahead
      /\ wire' = Multicast(r, msgs, Waiting \ {r})
      /\ rip' = [rip EXCEPT ![r] = [@ EXCEPT !.routes = [n \in kept |-> routes[n]],
                                             !.advertised = DOMAIN own, !.lost = FALSE,
                                             !.active = IF x.on THEN sendOn ELSE {}]]
      /\ UNCHANGED <<up, edits>>

\* One entry of a response of s on link l.  The neighbour a route came from is believed;
\* another one only if it is nearer; another one's withdrawal is nobody's business
Learn(r, x, l, s, n, metric) ==
  LET cur   == IF n \in DOMAIN x.routes THEN x.routes[n] ELSE None
      new   == [out |-> l, from |-> s, metric |-> metric]
      write == [x EXCEPT !.routes = (n :> new) @@ @]
  IN  IF n \in DOMAIN Own(r, x) THEN x
      ELSE IF cur # None /\ cur.from = s /\ cur.out = l
      THEN IF metric = cur.metric THEN x ELSE [write EXCEPT !.lost = @ \/ metric >= Infinity]
      ELSE IF metric < Infinity /\ (cur = None \/ ~Usable(r, x, cur) \/ metric < cur.metric) THEN write
      ELSE x

Handle(l, s, r) ==
  LET m == Head(wire[<<l, s, r>>]).msg
      x == rip[r]
  IN  /\ wire[<<l, s, r>>] # <<>>
      /\ wire' = [wire EXCEPT ![<<l, s, r>>] = Tail(@)]
      /\ rip' = [rip EXCEPT ![r] =
           IF x.on /\ Participates(r, l) /\ m.cmd = "response"
           THEN FoldSet(LAMBDA n, y : Learn(r, y, l, s, n, m.entries[n]), x, DOMAIN m.entries) ELSE x]
      \* a request is answered with an update, and a change is passed on with one
      /\ IF x.on /\ Participates(r, l) /\ (m.cmd = "request" \/ rip'[r] # x)
         THEN Kick({r}) ELSE UNCHANGED due
      /\ UNCHANGED <<up, edits>>

-------------------------------------------------------------------------------
Edit == edits < MaxEdits /\ edits' = edits + 1

\* what is on its way over a cable that is pulled is lost
LinkDown(r, l) ==
  /\ <<r, l>> \in up /\ Edit
  /\ up' = up \ Cable(r, l)
  /\ wire' = [h \in Hops |-> IF {<<h[2], h[1]>>, <<h[3], h[1]>>} \cap Cable(r, l) # {} THEN <<>> ELSE wire[h]]
  /\ UNCHANGED rip /\ Kick(EndsOf(Cable(r, l)))

\* It stays out for longer than an update takes: an end that is plugged again before it
\* has noticed keeps what it heard there, and is not told what changed meanwhile
LinkUp(r, l) ==
  /\ r \in Attached[l] /\ <<r, l>> \notin up /\ Edit
  /\ EndsOf(Cable(r, l)) \cap Waiting = {}
  /\ up' = up \cup Cable(r, l)
  /\ UNCHANGED <<rip, wire>> /\ Kick(EndsOf(Cable(r, l)))

\* likewise, RIP is not switched off and on again within an update
SetConfig(r) ==
  /\ Edit /\ ~Pending(r)
  /\ rip' = [rip EXCEPT ![r].on = ~@] /\ Kick({r})
  /\ UNCHANGED <<up, wire>>

\* an interface changes its address: its neighbours are told while it has the old one
Retire(r, l) ==
  LET x == rip[r]
      hit(n) == x.routes[n].out = l /\ x.routes[n].metric < Infinity
  IN  /\ Edit
      /\ x.on /\ l \in x.active /\ Participates(r, l)
      /\ wire' = Multicast(r, l :> Response(WithdrawAll(x)), Waiting)
      /\ rip' = [rip EXCEPT ![r] = [x EXCEPT
           !.active = @ \ {l},
           !.routes = [n \in DOMAIN @ |-> IF hit(n) THEN [@[n] EXCEPT !.metric = Infinity] ELSE @[n]],
           !.lost = @ \/ \E n \in DOMAIN x.routes : hit(n)]]
      /\ Kick({r})
      /\ UNCHANGED up

Work == \E r \in Routers : Update(r) \/ \E h \in Hops : h[3] = r /\ Handle(h[1], h[2], r)

Next ==
  \/ Work
  \/ \E r \in Routers, l \in Links : LinkDown(r, l) \/ LinkUp(r, l) \/ Retire(r, l)
  \/ \E r \in Routers : SetConfig(r)

-------------------------------------------------------------------------------
Quiet == /\ due = <<>>
         /\ \A h \in Hops : wire[h] = <<>>

TypeOK ==
  \A r \in Routers : \A n \in DOMAIN rip[r].routes :
    rip[r].routes[n].out \in Ifaces(r) /\ rip[r].routes[n].metric \in 1 .. Infinity

\* When nothing is due and nothing under way, every router knows every network that
\* can be reached by a shortest way, and none that cannot: no stale route, no loop
Converged == Quiet =>
  LET on == {r \in Routers : rip[r].on}
  IN  \A r \in on, n \in Dests :
        LET x == rip[r]
            dist == Distances(r, n, on)
        IN  IF dist = {} THEN n \notin DOMAIN x.routes
            ELSE Min(dist) > 0 => n \in DOMAIN x.routes /\ Shortest(r, n, x.routes[n], on)
===============================================================================
