--------------------------------- MODULE Dhcp ---------------------------------
(***************************************************************************)
(* DHCP clients and servers (src/src/core/nodes/dhcp.ts) on segments       *)
(* between which a client can be moved.  A client asks for the address it  *)
(* had last (INIT-REBOOT) before it discovers; a server remembers leases   *)
(* and offers; an ISP may take a lease back and tell the client so         *)
(* (FORCERENEW).                                                           *)
(*                                                                         *)
(* Frames between two stations stay in order and arrive long before the    *)
(* timeout of a second: a timer fires only when nothing of its client is   *)
(* under way.  A transaction id is never used twice, so all that matters   *)
(* of it is whether it is the client's current one: "cur".                 *)
(***************************************************************************)
EXTENDS Naturals, Sequences, FiniteSets

CONSTANTS
  Clients, Servers, Segs,   \* the stations and the segments they are plugged into
  Addrs,                    \* addresses, numbers in the order of the pool
  Pool,                     \* Pool[s]: the addresses of the largest range of server s
  Layouts,                  \* the placements of the servers on segments
  Home, Created,            \* the segment of the clients at first, and their order
  None,
  MaxEdits                  \* bound: changes of the user, a frame it has lost among them

ASSUME DhcpAssumption ==
  /\ IsFiniteSet(Clients) /\ IsFiniteSet(Servers) /\ Clients \cap Servers = {}
  /\ Addrs \subseteq Nat /\ IsFiniteSet(Addrs)
  /\ Pool \in [Servers -> SUBSET Addrs]
  /\ \A s, t \in Servers : s # t => Pool[s] \cap Pool[t] = {}
  /\ Layouts \subseteq [Servers -> Segs]
  /\ None \notin Addrs /\ None \notin Segs /\ None \notin Clients \cup Servers
  /\ Home \in Segs /\ Created \in Seq(Clients)
  /\ \A c \in Clients : \E k \in DOMAIN Created : Created[k] = c
  /\ MaxEdits \in Nat

VARIABLES
  client,   \* client[c]: state, held and last address, attempts, chosen server, segment
  server,   \* server[s]: whether it serves, its range, leases, offers and refusals
  place,    \* place[s]: the segment of server s
  inbox,    \* inbox[n]: the frames on their way to station n
  revoked,  \* <<client, address>> of leases dropped because the range changed
  edits, lost

vars == <<client, server, place, inbox, revoked, edits, lost>>

-------------------------------------------------------------------------------
MaxAttempts == 3
Active == {"rebooting", "discovering", "requesting"}

\* an address belongs to the subnet of the server whose pool it is in
NetOf(a) == LET s == CHOOSE s \in Servers : a \in Pool[s] IN place[s]

Message(op, c, a, s, seg) ==
  [op |-> op, mac |-> c, ip |-> a, server |-> s, seg |-> seg, cur |-> TRUE]

(* The client.  Each handler yields the client afterwards and what it broadcasts. *)
Does(x, out) == [client |-> x, out |-> out, fresh |-> FALSE]

Discover(x, c) == Does(x, <<Message("discover", c, None, None, x.seg)>>)

\* a new transaction: "fresh" makes everything still under way stale
Start(x, c) ==
  LET y == [x EXCEPT !.ip = None, !.attempts = 1,
                     !.state = IF x.last = None THEN "discovering" ELSE "rebooting"]
  IN [client |-> y, fresh |-> TRUE,
      out |-> <<Message(IF x.last = None THEN "discover" ELSE "request", c, x.last, None, x.seg)>>]

Restart(x, c) == Start([x EXCEPT !.last = None], c)

Stop(x) == [x EXCEPT !.state = "idle", !.attempts = 0, !.ip = None]

Offered(x, c, m) ==
  IF x.state # "discovering" THEN Does(x, <<>>)
  ELSE Does([x EXCEPT !.state = "requesting"], <<Message("request", c, m.ip, m.server, x.seg)>>)

\* mutant: the address is not remembered for the next start
AckedForgetful(x, m) ==
  IF x.state \notin {"requesting", "rebooting"} THEN Does(x, <<>>)
  ELSE Does([x EXCEPT !.state = "bound", !.ip = m.ip, !.server = m.server], <<>>)

Acked(x, m) ==
  IF x.state \notin {"requesting", "rebooting"} THEN Does(x, <<>>)
  ELSE Does([x EXCEPT !.state = "bound", !.ip = m.ip, !.last = m.ip, !.server = m.server], <<>>)

Naked(x, c) ==
  IF x.state \notin {"requesting", "rebooting"} THEN Does(x, <<>>) ELSE Restart(x, c)

\* the server it has the lease from is asked; the address is kept meanwhile
Forced(x, c) ==
  IF x.state # "bound" THEN Does(x, <<>>)
  ELSE Does([x EXCEPT !.state = "requesting", !.attempts = 1],
            <<Message("request", c, x.ip, x.server, x.seg)>>)

ClientHandle(x, c, m) ==
  CASE m.op = "forcerenew" -> Forced(x, c)
    [] m.op = "offer" /\ m.cur -> Offered(x, c, m)
    [] m.op = "ack" /\ m.cur -> Acked(x, m)
    [] m.op = "nak" /\ m.cur -> Naked(x, c)
    [] OTHER -> Does(x, <<>>)

\* mutant: a client that gives up keeps the address it held
OnTimeoutKeeps(x, c) ==
  CASE x.state = "rebooting" -> Restart(x, c)
    [] x.state # "rebooting" /\ x.attempts < MaxAttempts ->
         Discover([x EXCEPT !.attempts = @ + 1, !.state = "discovering"], c)
    [] OTHER -> Does([x EXCEPT !.state = "failed", !.last = None], <<>>)

OnTimeout(x, c) ==
  CASE x.state = "rebooting" -> Restart(x, c)
    [] x.state # "rebooting" /\ x.attempts < MaxAttempts ->
         Discover([x EXCEPT !.attempts = @ + 1, !.state = "discovering"], c)
    [] OTHER -> Does([x EXCEPT !.state = "failed", !.last = None, !.ip = None], <<>>)

-------------------------------------------------------------------------------
(* The server.  Each handler yields the server afterwards and its answers. *)
Answers(y, out) == [server |-> y, out |-> out]

LeasedTo(y, c) == {a \in Addrs : y.leases[a] = c}
\* mutant: an address that is only offered counts as free
TakenLeases(y) == {a \in Addrs : y.leases[a] # None}

Taken(y) == {a \in Addrs : y.leases[a] # None} \cup {y.offers[c] : c \in Clients}

\* the address it leased or offered before, else the first free one
PickAddress(y, c) ==
  LET free == {a \in y.range : a \notin Taken(y) /\ a # y.avoid[c]}
      first(A) == IF A = {} THEN None ELSE CHOOSE a \in A : \A b \in A : a <= b
  IN CASE LeasedTo(y, c) \cap y.range # {} -> first(LeasedTo(y, c) \cap y.range)
       [] LeasedTo(y, c) \cap y.range = {} /\ y.offers[c] # None -> y.offers[c]
       [] OTHER -> first(free)

\* mutant: the offer is sent and not recorded
HeardDiscoverForgets(y, s, m) ==
  LET a == PickAddress(y, m.mac)
  IN Answers(y, IF a = None THEN <<>> ELSE <<[m EXCEPT !.op = "offer", !.ip = a, !.server = s]>>)

HeardDiscover(y, s, m) ==
  LET a == PickAddress(y, m.mac)
  IN Answers([y EXCEPT !.offers[m.mac] = a],
             IF a = None THEN <<>> ELSE <<[m EXCEPT !.op = "offer", !.ip = a, !.server = s]>>)

Lease(y, s, m) ==
  Answers([y EXCEPT !.offers[m.mac] = None, !.leases[m.ip] = m.mac],
          <<[m EXCEPT !.op = "ack", !.server = s]>>)

Nak(y, s, m) == Answers(y, <<[m EXCEPT !.op = "nak", !.server = s]>>)

\* INIT-REBOOT: refuse only what is surely wrong, keep silent about what is unknown
HeardReboot(y, s, m) ==
  LET lease == IF m.ip \in Pool[s] THEN y.leases[m.ip] ELSE None
  IN CASE NetOf(m.ip) # place[s] \/ lease \notin {None, m.mac} -> Nak(y, s, m)
       [] NetOf(m.ip) = place[s] /\ lease = None -> Answers(y, <<>>)
       [] OTHER -> Lease(y, s, m)

HeardRequest(y, s, m) ==
  CASE m.server = None -> HeardReboot(y, s, m)
    [] m.server \notin {None, s} -> Answers([y EXCEPT !.offers[m.mac] = None], <<>>)
    [] m.server = s /\ (y.offers[m.mac] = m.ip \/ y.leases[m.ip] = m.mac) -> Lease(y, s, m)
    [] OTHER -> Nak(y, s, m)

HeardRelease(y, m) ==
  IF y.leases[m.ip] = m.mac THEN Answers([y EXCEPT !.leases[m.ip] = None], <<>>)
  ELSE Answers(y, <<>>)

ServerHandle(y, s, m) ==
  CASE ~y.enabled -> Answers(y, <<>>)
    [] y.enabled /\ m.op = "discover" -> HeardDiscover(y, s, m)
    [] y.enabled /\ m.op = "request" -> HeardRequest(y, s, m)
    [] OTHER -> HeardRelease(y, m)

\* what is outside the new range is forgotten
DropInvalid(y) ==
  LET in(a) == IF a \in y.range THEN a ELSE None
  IN [y EXCEPT !.leases = [a \in Addrs |-> IF a \in y.range THEN @[a] ELSE None],
               !.offers = [c \in Clients |-> in(@[c])]]

-------------------------------------------------------------------------------
(* Stations and frames *)
Stale(q, c) == [k \in DOMAIN q |-> [q[k] EXCEPT !.cur = @ /\ q[k].mac # c]]

\* a broadcast reaches the servers of the segment
Broadcast(box, seg, out) ==
  [n \in DOMAIN box |-> IF n \in Servers /\ place[n] = seg THEN box[n] \o out ELSE box[n]]

\* client c does r, having found the frames box
ClientActs(c, r, box) ==
  /\ client' = [client EXCEPT ![c] = r.client]
  /\ inbox' = Broadcast(IF r.fresh THEN [n \in DOMAIN box |-> Stale(box[n], c)] ELSE box,
                        r.client.seg, r.out)

\* a frame for a client that has moved on meets nobody
ClientReceives(c) ==
  /\ inbox[c] # <<>>
  /\ LET m == Head(inbox[c])
         r == IF m.seg = client[c].seg THEN ClientHandle(client[c], c, m)
              ELSE Does(client[c], <<>>)
     IN ClientActs(c, r, [inbox EXCEPT ![c] = Tail(@)])
  /\ UNCHANGED <<server, place, revoked, edits, lost>>

ServerReceives(s) ==
  /\ inbox[s] # <<>>
  /\ LET m == Head(inbox[s])
         r == ServerHandle(server[s], s, m)
     IN /\ server' = [server EXCEPT ![s] = r.server]
        /\ inbox' = [inbox EXCEPT ![s] = Tail(@), ![m.mac] = @ \o r.out]
  /\ UNCHANGED <<client, place, revoked, edits, lost>>

UnderWay(c) == \E n \in DOMAIN inbox : \E k \in DOMAIN inbox[n] : inbox[n][k].mac = c

Timeout(c) ==
  /\ client[c].state \in Active /\ ~UnderWay(c)
  /\ ClientActs(c, OnTimeout(client[c], c), inbox)
  /\ UNCHANGED <<server, place, revoked, edits, lost>>

-------------------------------------------------------------------------------
(* What the user changes *)
Edit == edits < MaxEdits /\ edits' = edits + 1

\* the next frame to n is lost on the cable
Lose(n) ==
  /\ Edit /\ inbox[n] # <<>>
  /\ inbox' = [inbox EXCEPT ![n] = Tail(@)]
  /\ lost' = TRUE
  /\ UNCHANGED <<client, server, place, revoked>>

Plug(c, seg) ==
  /\ Edit /\ client[c].seg = None /\ client[c].state # "gone"
  /\ ClientActs(c, Start([client[c] EXCEPT !.seg = seg], c), inbox)
  /\ UNCHANGED <<server, place, revoked, lost>>

Unplug(c) ==
  /\ Edit /\ client[c].seg # None
  /\ client' = [client EXCEPT ![c] = [Stop(@) EXCEPT !.seg = None]]
  /\ UNCHANGED <<server, place, inbox, revoked, lost>>

RenewDhcp(c) ==
  /\ Edit /\ client[c].seg # None
  /\ ClientActs(c, Start(client[c], c), inbox)
  /\ UNCHANGED <<server, place, revoked, lost>>

\* a removed device gives its lease back; it does not return
Remove(c) ==
  LET x == client[c]
      bye == IF x.state = "bound" THEN <<Message("release", c, x.ip, x.server, x.seg)>> ELSE <<>>
  IN /\ Edit /\ x.seg # None
     /\ inbox' = Broadcast(inbox, x.seg, bye)
     /\ client' = [client EXCEPT ![c] = [Stop(x) EXCEPT !.seg = None, !.last = None, !.state = "gone"]]
     /\ UNCHANGED <<server, place, revoked, lost>>

SetDhcpServer(s) ==
  /\ Edit
  /\ \E on \in BOOLEAN, range \in {Pool[s], Pool[s] \ {CHOOSE a \in Pool[s] : \A b \in Pool[s] : a <= b}} :
       LET y == DropInvalid([server[s] EXCEPT !.enabled = on, !.range = range])
       IN /\ y # server[s] /\ range # {}
          /\ server' = [server EXCEPT ![s] = y]
          /\ revoked' = revoked \cup
               {<<server[s].leases[a], a>> : a \in {b \in Addrs : server[s].leases[b] # y.leases[b]}}
  /\ UNCHANGED <<client, place, inbox, lost>>

\* the ISP takes a customer's address back and tells it to ask again
Renumber(s, a) ==
  LET c == server[s].leases[a]
  IN /\ Edit /\ c # None
     /\ server' = [server EXCEPT ![s] = [@ EXCEPT !.leases[a] = None, !.avoid[c] = a]]
     /\ inbox' = [inbox EXCEPT ![c] = Append(@, Message("forcerenew", c, a, s, place[s]))]
     /\ UNCHANGED <<client, place, revoked, lost>>

-------------------------------------------------------------------------------
NewServer(s) ==
  [enabled |-> TRUE, range |-> Pool[s], leases |-> [a \in Addrs |-> None],
   offers |-> [c \in Clients |-> None], avoid |-> [c \in Clients |-> None]]

NewClient(seg) ==
  [state |-> "idle", ip |-> None, last |-> None, attempts |-> 0, server |-> None, seg |-> seg]

\* the network is loaded: the clients are plugged into segment Home and have started,
\* in the order the devices were created
Init ==
  /\ place \in Layouts
  /\ server = [s \in Servers |-> NewServer(s)]
  /\ LET r == [c \in Clients |-> Start(NewClient(Home), c)]
     IN /\ client = [c \in Clients |-> r[c].client]
        /\ inbox = [n \in Clients \cup Servers |->
             IF n \in Servers /\ place[n] = Home
               THEN [k \in DOMAIN Created |-> Head(r[Created[k]].out)] ELSE <<>>]
  /\ revoked = {}
  /\ edits = 0 /\ lost = FALSE

Work == \/ \E c \in Clients : ClientReceives(c) \/ Timeout(c)
        \/ \E s \in Servers : ServerReceives(s)

Change == \/ \E c \in Clients, seg \in Segs : Plug(c, seg)
          \/ \E c \in Clients : Unplug(c) \/ RenewDhcp(c) \/ Remove(c)
          \/ \E s \in Servers : SetDhcpServer(s)
          \/ \E s \in Servers, a \in Addrs : Renumber(s, a)
          \/ \E n \in Clients \cup Servers : Lose(n)

Next == Work \/ Change

Spec == Init /\ [][Next]_vars

Rest == /\ \A n \in DOMAIN inbox : inbox[n] = <<>>
        /\ \A c \in Clients : client[c].state \notin Active

\* frames arrive and timers fire
FairSpec == Spec /\ ([]<>Rest \/ []<><<Work>>_vars)

-------------------------------------------------------------------------------
(* Properties *)

MaybeAddr == Addrs \cup {None}

\* The state has its type; an address is held exactly while bound or while its
\* lease is being confirmed after a FORCERENEW.
TypeOK ==
  /\ client \in [Clients -> [state : {"idle", "bound", "failed", "gone"} \cup Active,
                             ip : MaybeAddr, last : MaybeAddr, attempts : 0 .. MaxAttempts,
                             server : Servers \cup {None}, seg : Segs \cup {None}]]
  /\ server \in [Servers -> [enabled : BOOLEAN, range : SUBSET Addrs,
                             leases : [Addrs -> Clients \cup {None}],
                             offers : [Clients -> MaybeAddr], avoid : [Clients -> MaybeAddr]]]
  /\ place \in [Servers -> Segs]
  /\ \A n \in Clients \cup Servers : \A k \in DOMAIN inbox[n] : inbox[n][k].mac \in Clients
  /\ edits \in 0 .. MaxEdits /\ lost \in BOOLEAN
  /\ \A c \in Clients : /\ client[c].state = "bound" => client[c].ip # None
                        /\ client[c].ip # None => client[c].last = client[c].ip

\* A server promises an address to one client at a time: what it has offered is
\* neither offered nor leased to another, and both lie in its range.
PromisedOnce ==
  \A s \in Servers : LET y == server[s] IN
    /\ \A c \in Clients : y.offers[c] # None =>
         /\ y.offers[c] \in y.range
         /\ y.leases[y.offers[c]] \in {None, c}
         /\ \A d \in Clients \ {c} : y.offers[d] # y.offers[c]
    /\ \A a \in Addrs : y.leases[a] # None => a \in y.range

\* At rest, whoever uses an address has the lease of it from a server of its own
\* segment: renewals, naks, moves, removals and addresses taken back have all been
\* settled.  Not covered are leases dropped with the range, which the client learns
\* of at its next renewal only (dhcp.ts:391), and lost frames.
AddressIsLeased ==
  (Rest /\ ~lost) =>
    \A c \in Clients :
      LET a == client[c].ip IN
        (a # None /\ <<c, a>> \notin revoked) =>
          \E s \in Servers : place[s] = client[c].seg /\ server[s].leases[a] = c

\* Whatever is lost or changed, every client ends up with an address or gives up:
\* refusals and retries do not chase each other for ever.
Settles == <>[]Rest

-------------------------------------------------------------------------------
(* What the run takes: two clients and two servers, on one segment or on one each *)
TwoClients == <<"c1", "c2">>
ThreeAddrs == {1, 2, 3}
TwoPools == [s \in Servers |-> IF s = "s1" THEN {1, 2} ELSE {3}]
OneOrTwoSegments == {p \in [Servers -> Segs] : p["s1"] = Home}
===============================================================================
