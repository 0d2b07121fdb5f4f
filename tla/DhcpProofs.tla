----------------------------- MODULE DhcpProofs ------------------------------
(***************************************************************************)
(* Proofs about DHCP (Dhcp): for any clients, servers, pools and segments, *)
(* and any number of edits and losses, the state keeps its type and a      *)
(* server promises an address to one client at a time.                     *)
(***************************************************************************)
EXTENDS Dhcp, SequenceTheorems, WellFoundedInduction, TLAPS

-------------------------------------------------------------------------------
(* The inductive invariant *)

Stations == Clients \cup Servers

Frame ==
  [op : {"discover", "request", "offer", "ack", "nak", "release", "forcerenew"},
   mac : Clients, ip : MaybeAddr, server : Servers \cup {None},
   seg : Segs \cup {None}, cur : BOOLEAN]

\* What asks for or grants an address names one, and what grants it names the server.
Named(m) ==
  /\ m.op \in {"request", "offer", "ack"} => m.ip \in Addrs
  /\ m.op \in {"offer", "ack"} => m.server \in Servers

Frames == {m \in Frame : Named(m)}

ClientType ==
  [state : {"idle", "bound", "failed", "gone"} \cup Active, ip : MaybeAddr, last : MaybeAddr,
   attempts : 0 .. MaxAttempts, server : Servers \cup {None}, seg : Segs \cup {None}]

GoodClient(x) ==
  /\ x \in ClientType
  /\ x.state = "bound" => x.ip # None
  /\ x.ip # None => x.last = x.ip

\* what a client does leaves it in order and sends frames in order
GoodDeed(r) == GoodClient(r.client) /\ r.out \in Seq(Frames)

ServerType ==
  [enabled : BOOLEAN, range : SUBSET Addrs, leases : [Addrs -> Clients \cup {None}],
   offers : [Clients -> MaybeAddr], avoid : [Clients -> MaybeAddr]]

\* PromisedOnce for the server y, in three parts
OffersFit(y) ==
  \A c \in Clients : y.offers[c] # None =>
    y.offers[c] \in y.range /\ y.leases[y.offers[c]] \in {None, c}

OffersDiffer(y) ==
  \A c, d \in Clients : (c # d /\ y.offers[c] # None) => y.offers[d] # y.offers[c]

LeasesFit(y) == \A a \in Addrs : y.leases[a] # None => a \in y.range

GoodServer(y) == y \in ServerType /\ OffersFit(y) /\ OffersDiffer(y) /\ LeasesFit(y)

GoodAnswer(r) == GoodServer(r.server) /\ r.out \in Seq(Frames)

InboxType == inbox \in [Stations -> Seq(Frames)]

ContextType == place \in [Servers -> Segs] /\ edits \in 0 .. MaxEdits /\ lost \in BOOLEAN

IInv ==
  /\ \A c \in Clients : GoodClient(client[c])
  /\ \A s \in Servers : GoodServer(server[s])
  /\ client \in [Clients -> ClientType] /\ server \in [Servers -> ServerType]
  /\ InboxType
  /\ ContextType

LEMMA IInvImplies == IInv => TypeOK /\ PromisedOnce
<1> SUFFICES ASSUME IInv PROVE TypeOK /\ PromisedOnce
  OBVIOUS
<1>1. \A n \in Stations : \A k \in DOMAIN inbox[n] : inbox[n][k].mac \in Clients
  <2> SUFFICES ASSUME NEW n \in Stations, NEW k \in DOMAIN inbox[n]
               PROVE  inbox[n][k].mac \in Clients
    OBVIOUS
  <2>1. inbox[n] \in Seq(Frames)
    BY DEF IInv, InboxType
  <2>2. k \in 1 .. Len(inbox[n])
    BY <2>1, LenProperties
  <2>3. inbox[n][k] \in Frames
    BY <2>1, <2>2, ElementOfSeq
  <2>4. QED BY <2>3 DEF Frames, Frame
<1>2. TypeOK
  BY <1>1 DEF IInv, TypeOK, ClientType, ServerType, GoodClient, ContextType, Stations
<1>3. PromisedOnce
  <2> SUFFICES ASSUME NEW s \in Servers
               PROVE  /\ \A c \in Clients : server[s].offers[c] # None =>
                            /\ server[s].offers[c] \in server[s].range
                            /\ server[s].leases[server[s].offers[c]] \in {None, c}
                            /\ \A d \in Clients \ {c} : server[s].offers[d] # server[s].offers[c]
                      /\ \A a \in Addrs : server[s].leases[a] # None => a \in server[s].range
    BY DEF PromisedOnce
  <2>1. OffersFit(server[s]) /\ OffersDiffer(server[s]) /\ LeasesFit(server[s])
    BY DEF IInv, GoodServer
  <2>2. QED BY <2>1 DEF OffersFit, OffersDiffer, LeasesFit
<1>4. QED BY <1>2, <1>3

-------------------------------------------------------------------------------
(* Frames *)

LEMMA FrameSeq ==
  ASSUME NEW m \in Frames
  PROVE  <<m>> \in Seq(Frames)
OBVIOUS

LEMMA NoFrame == << >> \in Seq(Frames)
BY EmptySeq

LEMMA MessageFrame ==
  ASSUME NEW op \in {"discover", "request", "release", "forcerenew"}, NEW c \in Clients,
         NEW a \in MaybeAddr, NEW s \in Servers \cup {None}, NEW seg \in Segs \cup {None},
         op = "request" => a \in Addrs
  PROVE  Message(op, c, a, s, seg) \in Frames
BY DEF Message, Frames, Frame, Named

\* Marking frames as stale changes none of what matters here.
LEMMA StaleFrames ==
  ASSUME NEW q \in Seq(Frames), NEW c
  PROVE  Stale(q, c) \in Seq(Frames)
<1>1. Len(q) \in Nat /\ DOMAIN q = 1 .. Len(q)
  BY LenProperties
<1>2. \A k \in 1 .. Len(q) : [q[k] EXCEPT !.cur = @ /\ q[k].mac # c] \in Frames
  <2> SUFFICES ASSUME NEW k \in 1 .. Len(q)
               PROVE  [q[k] EXCEPT !.cur = @ /\ q[k].mac # c] \in Frames
    OBVIOUS
  <2>1. q[k] \in Frame /\ Named(q[k])
    BY ElementOfSeq DEF Frames
  <2>2. PICK b \in BOOLEAN : b = (q[k].cur /\ q[k].mac # c)
    OBVIOUS
  <2>3. [q[k] EXCEPT !.cur = b] \in Frame /\ Named([q[k] EXCEPT !.cur = b])
    BY <2>1 DEF Frame, Named
  <2>4. QED BY <2>2, <2>3 DEF Frames
<1>3. Stale(q, c) \in [1 .. Len(q) -> Frames]
  BY <1>1, <1>2 DEF Stale
<1>4. QED BY <1>1, <1>3, SeqDef

LEMMA BroadcastType ==
  ASSUME NEW box \in [Stations -> Seq(Frames)], NEW seg, NEW frames \in Seq(Frames)
  PROVE  Broadcast(box, seg, frames) \in [Stations -> Seq(Frames)]
<1>1. DOMAIN box = Stations
  OBVIOUS
<1>2. \A n \in Stations : box[n] \o frames \in Seq(Frames)
  BY ConcatProperties
<1>3. QED BY <1>1, <1>2 DEF Broadcast

-------------------------------------------------------------------------------
(* The client's handlers *)

LEMMA DiscoverGood ==
  ASSUME NEW x, GoodClient(x), NEW c \in Clients
  PROVE  GoodDeed(Discover(x, c))
<1>1. Message("discover", c, None, None, x.seg) \in Frames
  BY MessageFrame DEF GoodClient, ClientType, MaybeAddr
<1>2. QED BY <1>1, FrameSeq DEF GoodDeed, Discover, Does

\* A client that tries again, for the n-th time.
LEMMA AttemptType ==
  ASSUME NEW x \in ClientType, NEW st \in Active \cup {"idle"}, NEW n \in 0 .. MaxAttempts
  PROVE  /\ [x EXCEPT !.state = st, !.attempts = n] \in ClientType
         /\ [x EXCEPT !.attempts = n, !.state = st] = [x EXCEPT !.state = st, !.attempts = n]
BY DEF ClientType

LEMMA Attempts ==
  /\ 0 \in 0 .. MaxAttempts /\ 1 \in 0 .. MaxAttempts
  /\ \A n \in 0 .. MaxAttempts : n < MaxAttempts => n + 1 \in 0 .. MaxAttempts
  /\ {"rebooting", "discovering", "requesting"} \subseteq Active
BY DEF MaxAttempts, Active

LEMMA StopType ==
  ASSUME NEW x \in ClientType
  PROVE  Stop(x) \in ClientType /\ Stop(x).state = "idle" /\ Stop(x).ip = None
<1> DEFINE y == [x EXCEPT !.state = "idle", !.attempts = 0]
<1>1. y \in ClientType /\ y.state = "idle"
  BY Attempts, AttemptType DEF ClientType
<1>2. Stop(x) = [y EXCEPT !.ip = None]
  BY DEF Stop, ClientType
<1> HIDE DEF y
<1>3. QED BY <1>1, <1>2 DEF ClientType, MaybeAddr

\* start does not look at the state or the address held
LEMMA StartGood ==
  ASSUME NEW x \in ClientType, NEW c \in Clients
  PROVE  GoodDeed(Start(x, c))
<1> DEFINE y == [x EXCEPT !.ip = None, !.attempts = 1,
                          !.state = IF x.last = None THEN "discovering" ELSE "rebooting"]
           m == Message(IF x.last = None THEN "discover" ELSE "request", c, x.last, None, x.seg)
<1>1. y \in ClientType /\ y.ip = None /\ y.state # "bound"
  <2> DEFINE st == IF x.last = None THEN "discovering" ELSE "rebooting"
             z == [x EXCEPT !.state = st, !.attempts = 1]
  <2>1. st \in Active /\ st # "bound"
    BY DEF Active
  <2>2. z \in ClientType /\ z.state = st
    BY <2>1, Attempts, AttemptType DEF ClientType
  <2>3. y = [z EXCEPT !.ip = None]
    BY DEF ClientType
  <2>4. y \in ClientType /\ y.ip = None /\ y.state = st
    BY <2>2, <2>3 DEF ClientType, MaybeAddr
  <2>5. QED BY <2>1, <2>4
<1>2. m \in Frames
  <2>1. x.last \in MaybeAddr /\ x.seg \in Segs \cup {None}
    BY DEF ClientType
  <2>2. CASE x.last = None
    BY <2>1, <2>2, MessageFrame
  <2>3. CASE x.last # None
    BY <2>1, <2>3, MessageFrame DEF MaybeAddr
  <2>4. QED BY <2>2, <2>3
<1>3. <<m>> \in Seq(Frames)
  BY <1>2, FrameSeq
<1>4. GoodClient(y)
  BY <1>1 DEF GoodClient
<1>5. Start(x, c).client = y /\ Start(x, c).out = <<m>>
  BY DEF Start
<1>6. QED BY <1>3, <1>4, <1>5 DEF GoodDeed

LEMMA RestartGood ==
  ASSUME NEW x \in ClientType, NEW c \in Clients
  PROVE  GoodDeed(Restart(x, c))
<1>1. [x EXCEPT !.last = None] \in ClientType
  BY DEF ClientType, MaybeAddr
<1>2. QED BY <1>1, StartGood DEF Restart

LEMMA DoesNothing ==
  ASSUME NEW x, GoodClient(x)
  PROVE  GoodDeed(Does(x, <<>>))
BY NoFrame DEF GoodDeed, Does

LEMMA ClientHandleGood ==
  ASSUME NEW x, GoodClient(x), NEW c \in Clients, NEW m \in Frames
  PROVE  GoodDeed(ClientHandle(x, c, m))
<1>0. x \in ClientType /\ m \in Frame /\ Named(m)
  BY DEF GoodClient, Frames
<1>1. CASE m.op = "forcerenew"
  <2>1. GoodDeed(Forced(x, c))
    <3>1. CASE x.state # "bound"
      BY <3>1, DoesNothing DEF Forced
    <3>2. CASE x.state = "bound"
      <4> DEFINE y == [x EXCEPT !.state = "requesting", !.attempts = 1]
                 a == Message("request", c, x.ip, x.server, x.seg)
      <4>1. x.ip \in Addrs
        BY <1>0, <3>2 DEF GoodClient, ClientType, MaybeAddr
      <4>2. a \in Frames
        BY <1>0, <4>1, MessageFrame DEF ClientType, MaybeAddr
      <4>3. GoodClient(y)
        <5>1. y \in ClientType
          BY <1>0, Attempts, AttemptType
        <5>2. y.state = "requesting" /\ y.ip = x.ip /\ y.last = x.last
          BY <1>0 DEF ClientType
        <5>3. QED BY <5>1, <5>2 DEF GoodClient
      <4>4. <<a>> \in Seq(Frames)
        BY <4>2, FrameSeq
      <4>5. Forced(x, c).client = y /\ Forced(x, c).out = <<a>>
        BY <3>2 DEF Forced, Does
      <4>6. QED BY <4>3, <4>4, <4>5 DEF GoodDeed
    <3>3. QED BY <3>1, <3>2
  <2>2. QED BY <1>1, <2>1 DEF ClientHandle
<1>2. CASE m.op = "offer" /\ m.cur
  <2>1. GoodDeed(Offered(x, c, m))
    <3>1. CASE x.state # "discovering"
      BY <3>1, DoesNothing DEF Offered
    <3>2. CASE x.state = "discovering"
      <4> DEFINE y == [x EXCEPT !.state = "requesting"]
                 a == Message("request", c, m.ip, m.server, x.seg)
      <4>1. m.ip \in Addrs /\ m.server \in Servers
        BY <1>0, <1>2 DEF Named
      <4>2. a \in Frames
        BY <1>0, <4>1, MessageFrame DEF ClientType, MaybeAddr
      <4>3. GoodClient(y)
        BY <1>0 DEF GoodClient, ClientType, Active
      <4>4. <<a>> \in Seq(Frames)
        BY <4>2, FrameSeq
      <4>5. Offered(x, c, m).client = y /\ Offered(x, c, m).out = <<a>>
        BY <3>2 DEF Offered, Does
      <4>6. QED BY <4>3, <4>4, <4>5 DEF GoodDeed
    <3>3. QED BY <3>1, <3>2
  <2>2. QED BY <1>2, <2>1 DEF ClientHandle
<1>3. CASE m.op = "ack" /\ m.cur
  <2>1. GoodDeed(Acked(x, m))
    <3>1. CASE x.state \notin {"requesting", "rebooting"}
      BY <3>1, DoesNothing DEF Acked
    <3>2. CASE x.state \in {"requesting", "rebooting"}
      <4> DEFINE y == [x EXCEPT !.state = "bound", !.ip = m.ip, !.last = m.ip, !.server = m.server]
      <4>1. m.ip \in Addrs /\ m.server \in Servers /\ m.ip # None
        BY <1>0, <1>3, DhcpAssumption DEF Named
      <4>2. y \in ClientType /\ y.ip = y.last /\ y.ip # None
        BY <1>0, <4>1 DEF ClientType, Active, MaybeAddr
      <4>3. GoodClient(y)
        BY <4>2 DEF GoodClient
      <4>4. Acked(x, m).client = y /\ Acked(x, m).out = <<>>
        BY <3>2 DEF Acked, Does
      <4>5. QED BY <4>3, <4>4, NoFrame DEF GoodDeed
    <3>3. QED BY <3>1, <3>2
  <2>2. QED BY <1>3, <2>1 DEF ClientHandle
<1>4. CASE m.op = "nak" /\ m.cur
  <2>1. GoodDeed(Naked(x, c))
    BY <1>0, DoesNothing, RestartGood DEF Naked
  <2>2. QED BY <1>4, <2>1 DEF ClientHandle
<1>5. CASE m.op # "forcerenew" /\ ~ (m.op \in {"offer", "ack", "nak"} /\ m.cur)
  BY <1>5, DoesNothing DEF ClientHandle
<1>6. QED BY <1>1, <1>2, <1>3, <1>4, <1>5

LEMMA OnTimeoutGood ==
  ASSUME NEW x, GoodClient(x), NEW c \in Clients
  PROVE  GoodDeed(OnTimeout(x, c))
<1>0. x \in ClientType
  BY DEF GoodClient
<1>1. CASE x.state = "rebooting"
  BY <1>0, <1>1, RestartGood DEF OnTimeout
<1>2. CASE x.state # "rebooting" /\ x.attempts < MaxAttempts
  <2> DEFINE y == [x EXCEPT !.attempts = @ + 1, !.state = "discovering"]
  <2>1. GoodClient(y)
    <3>1. x.attempts \in 0 .. MaxAttempts
      BY <1>0 DEF ClientType
    <3>2. y \in ClientType
      <4>1. x.attempts + 1 \in 0 .. MaxAttempts /\ "discovering" \in Active
        BY <1>2, <3>1, Attempts
      <4>2. [x EXCEPT !.state = "discovering", !.attempts = x.attempts + 1] \in ClientType
        BY <1>0, <4>1, AttemptType
      <4>3. y = [x EXCEPT !.state = "discovering", !.attempts = x.attempts + 1]
        BY <1>0 DEF ClientType
      <4>4. QED BY <4>2, <4>3
    <3>3. y.state = "discovering" /\ y.ip = x.ip /\ y.last = x.last
      BY <1>0 DEF ClientType
    <3>4. QED BY <3>2, <3>3 DEF GoodClient
  <2>2. OnTimeout(x, c) = Discover(y, c)
    BY <1>2 DEF OnTimeout
  <2>3. QED BY <2>1, <2>2, DiscoverGood
<1>3. CASE x.state # "rebooting" /\ ~ (x.attempts < MaxAttempts)
  <2> DEFINE y == [x EXCEPT !.state = "failed", !.last = None, !.ip = None]
  <2>1. GoodClient(y)
    BY <1>0 DEF GoodClient, ClientType, Active, MaybeAddr
  <2>2. OnTimeout(x, c) = Does(y, <<>>)
    BY <1>3 DEF OnTimeout
  <2>3. QED BY <2>1, <2>2, DoesNothing
<1>4. QED BY <1>1, <1>2, <1>3

-------------------------------------------------------------------------------
(* The server's handlers *)

NatOrder == {ss \in Nat \X Nat : ss[1] < ss[2]}

\* A non-empty set of addresses has a first one.
LEMMA FirstAddress ==
  ASSUME NEW A \in SUBSET Addrs, A # {}
  PROVE  /\ (CHOOSE a \in A : \A b \in A : a <= b) \in A
<1>1. A \subseteq Nat
  BY DhcpAssumption
<1>2. IsWellFoundedOn(NatOrder, Nat)
  BY NatLessThanWellFounded DEF NatOrder, OpToRel
<1>3. PICK m \in A : \A y \in A : ~ (<<y, m>> \in NatOrder)
  BY <1>1, <1>2, WFMin
<1>4. \A k \in A : ~ (k < m)
  BY <1>1, <1>3 DEF NatOrder
<1>5. \A k \in A : m <= k
  BY <1>1, <1>4
<1>6. QED BY <1>5

\* What a client may be offered: an address in the range, leased to nobody else
\* and offered to nobody else.
LEMMA PickAddressFits ==
  ASSUME NEW y, GoodServer(y), NEW c \in Clients, PickAddress(y, c) # None
  PROVE  LET a == PickAddress(y, c) IN
           /\ a \in Addrs /\ a \in y.range
           /\ y.leases[a] \in {None, c}
           /\ \A d \in Clients \ {c} : y.offers[d] # a
<1> DEFINE a == PickAddress(y, c)
           mine == LeasedTo(y, c) \cap y.range
           free == {b \in y.range : b \notin Taken(y) /\ b # y.avoid[c]}
<1>0. y \in ServerType /\ OffersFit(y) /\ OffersDiffer(y) /\ LeasesFit(y)
  BY DEF GoodServer
<1>1. y.range \subseteq Addrs /\ y.offers \in [Clients -> MaybeAddr]
  BY <1>0 DEF ServerType
<1>2. CASE mine # {}
  <2>1. a = CHOOSE b \in mine : \A k \in mine : b <= k
    BY <1>2 DEF PickAddress
  <2>2. a \in mine
    <3>1. mine \in SUBSET Addrs
      BY <1>1
    <3>2. QED BY <1>2, <2>1, <3>1, FirstAddress
  <2>3. a \in Addrs /\ a \in y.range /\ y.leases[a] = c
    BY <2>2 DEF LeasedTo
  <2>4. \A d \in Clients \ {c} : y.offers[d] # a
    BY <1>0, <2>3, DhcpAssumption DEF OffersFit
  <2>5. QED BY <2>3, <2>4
<1>3. CASE mine = {} /\ y.offers[c] # None
  <2>1. a = y.offers[c]
    BY <1>3 DEF PickAddress
  <2>2. a \in y.range /\ y.leases[a] \in {None, c}
    BY <1>0, <1>3, <2>1 DEF OffersFit
  <2>3. \A d \in Clients \ {c} : y.offers[d] # a
    BY <1>0, <1>3, <2>1 DEF OffersDiffer
  <2>4. QED BY <1>1, <2>2, <2>3
<1>4. CASE mine = {} /\ y.offers[c] = None
  <2>1. a = IF free = {} THEN None ELSE CHOOSE b \in free : \A k \in free : b <= k
    BY <1>4 DEF PickAddress
  <2>2. a \in free
    <3>1. free \in SUBSET Addrs /\ free # {}
      BY <1>1, <2>1
    <3>2. QED BY <2>1, <3>1, FirstAddress
  <2>3. a \in y.range /\ a \in Addrs /\ a \notin Taken(y)
    BY <1>1, <2>2
  <2>4. y.leases[a] = None /\ \A d \in Clients : y.offers[d] # a
    BY <2>3 DEF Taken
  <2>5. QED BY <2>3, <2>4
<1>5. QED BY <1>2, <1>3, <1>4

LEMMA PickAddressType ==
  ASSUME NEW y, GoodServer(y), NEW c \in Clients
  PROVE  PickAddress(y, c) \in MaybeAddr
BY PickAddressFits DEF MaybeAddr

LEMMA AnswersNothing ==
  ASSUME NEW y, GoodServer(y)
  PROVE  GoodAnswer(Answers(y, <<>>))
BY NoFrame DEF GoodAnswer, Answers

\* A frame turned into an answer of server s.
LEMMA AnswerFrame ==
  ASSUME NEW m \in Frames, NEW s \in Servers
  PROVE  /\ [m EXCEPT !.op = "nak", !.server = s] \in Frames
         /\ m.ip \in Addrs => [m EXCEPT !.op = "ack", !.server = s] \in Frames
         /\ \A a \in Addrs : [m EXCEPT !.op = "offer", !.ip = a, !.server = s] \in Frames
BY DEF Frames, Frame, Named, MaybeAddr

LEMMA HeardDiscoverGood ==
  ASSUME NEW y, GoodServer(y), NEW s \in Servers, NEW m \in Frames
  PROVE  GoodAnswer(HeardDiscover(y, s, m))
<1> DEFINE c == m.mac
           a == PickAddress(y, c)
           z == [y EXCEPT !.offers[m.mac] = a]
           f == [m EXCEPT !.op = "offer", !.ip = a, !.server = s]
<1>0. y \in ServerType /\ OffersFit(y) /\ OffersDiffer(y) /\ LeasesFit(y) /\ c \in Clients
  BY DEF GoodServer, Frames, Frame
<1>1. a \in MaybeAddr
  BY <1>0, PickAddressType
<1>2. /\ z \in ServerType /\ z.range = y.range /\ z.leases = y.leases
      /\ z.offers = [y.offers EXCEPT ![c] = a]
  BY <1>0, <1>1 DEF ServerType
<1>3. a # None => /\ a \in Addrs /\ a \in y.range /\ y.leases[a] \in {None, c}
                  /\ \A d \in Clients \ {c} : y.offers[d] # a
  BY <1>0, PickAddressFits
<1>4. y.offers \in [Clients -> MaybeAddr]
  BY <1>0 DEF ServerType
<1> HIDE DEF a, z, c
<1>5. \A d \in Clients : z.offers[d] = IF d = c THEN a ELSE y.offers[d]
  BY <1>2, <1>4
<1>6. OffersFit(z)
  BY <1>0, <1>2, <1>3, <1>5 DEF OffersFit
<1>7. OffersDiffer(z)
  BY <1>0, <1>3, <1>5 DEF OffersDiffer
<1>8. LeasesFit(z)
  BY <1>0, <1>2 DEF LeasesFit
<1>9. GoodServer(z)
  BY <1>2, <1>6, <1>7, <1>8 DEF GoodServer
<1>10. a # None => <<f>> \in Seq(Frames)
  BY <1>3, AnswerFrame, FrameSeq
<1>11. /\ HeardDiscover(y, s, m).server = z
       /\ HeardDiscover(y, s, m).out = IF a = None THEN <<>> ELSE <<f>>
  BY DEF HeardDiscover, Answers, a, z, c
<1>12. QED BY <1>9, <1>10, <1>11, NoFrame DEF GoodAnswer

\* A lease is granted for what was offered to the client or is leased to it.
LEMMA LeaseGood ==
  ASSUME NEW y, GoodServer(y), NEW s \in Servers, NEW m \in Frames, m.ip \in Addrs,
         y.offers[m.mac] = m.ip \/ y.leases[m.ip] = m.mac
  PROVE  GoodAnswer(Lease(y, s, m))
<1> DEFINE c == m.mac
           a == m.ip
           z == [y EXCEPT !.offers[m.mac] = None, !.leases[m.ip] = m.mac]
           f == [m EXCEPT !.op = "ack", !.server = s]
<1>0. y \in ServerType /\ OffersFit(y) /\ OffersDiffer(y) /\ LeasesFit(y) /\ c \in Clients /\ a \in Addrs
  BY DEF GoodServer, Frames, Frame
<1>1. /\ z \in ServerType /\ z.range = y.range
      /\ z.leases = [y.leases EXCEPT ![a] = c]
      /\ z.offers = [y.offers EXCEPT ![c] = None]
  BY <1>0 DEF ServerType, MaybeAddr
<1>2. y.offers \in [Clients -> MaybeAddr] /\ y.leases \in [Addrs -> Clients \cup {None}]
  BY <1>0 DEF ServerType
<1>3. c # None /\ a # None
  BY <1>0, DhcpAssumption
<1>4. y.offers[c] = a \/ y.leases[a] = c
  OBVIOUS
<1>5. <<f>> \in Seq(Frames)
  BY AnswerFrame, FrameSeq
<1>6. Lease(y, s, m).server = z /\ Lease(y, s, m).out = <<f>>
  BY DEF Lease, Answers
<1> HIDE DEF z, c, a, f
<1>7. /\ \A d \in Clients : z.offers[d] = IF d = c THEN None ELSE y.offers[d]
      /\ \A b \in Addrs : z.leases[b] = IF b = a THEN c ELSE y.leases[b]
  BY <1>1, <1>2
<1>8. a \in y.range /\ \A d \in Clients \ {c} : y.offers[d] # a
  <2>1. CASE y.offers[c] = a
    BY <1>0, <1>3, <2>1 DEF OffersFit, OffersDiffer
  <2>2. CASE y.leases[a] = c
    BY <1>0, <1>3, <2>2 DEF OffersFit, LeasesFit
  <2>3. QED BY <1>4, <2>1, <2>2
<1>9. OffersFit(z)
  <2> SUFFICES ASSUME NEW d \in Clients, z.offers[d] # None
               PROVE  z.offers[d] \in z.range /\ z.leases[z.offers[d]] \in {None, d}
    BY DEF OffersFit
  <2>1. d # c /\ z.offers[d] = y.offers[d] /\ y.offers[d] # a /\ y.offers[d] # None
    BY <1>7, <1>8
  <2>2. y.offers[d] \in Addrs
    BY <1>2, <2>1 DEF MaybeAddr
  <2>3. y.offers[d] \in y.range /\ y.leases[y.offers[d]] \in {None, d}
    BY <1>0, <2>1 DEF OffersFit
  <2>4. QED BY <1>1, <1>7, <2>1, <2>2, <2>3
<1>10. OffersDiffer(z)
  BY <1>0, <1>7 DEF OffersDiffer
<1>11. LeasesFit(z)
  BY <1>0, <1>1, <1>7, <1>8 DEF LeasesFit
<1>12. GoodServer(z)
  BY <1>1, <1>9, <1>10, <1>11 DEF GoodServer
<1>13. QED BY <1>5, <1>6, <1>12 DEF GoodAnswer

LEMMA NakGood ==
  ASSUME NEW y, GoodServer(y), NEW s \in Servers, NEW m \in Frames
  PROVE  GoodAnswer(Nak(y, s, m))
BY AnswerFrame, FrameSeq DEF GoodAnswer, Nak, Answers

\* An offer or a lease is given up.
LEMMA WithdrawnGood ==
  ASSUME NEW y, GoodServer(y)
  PROVE  /\ \A c \in Clients : GoodServer([y EXCEPT !.offers[c] = None])
         /\ \A a \in Addrs : GoodServer([y EXCEPT !.leases[a] = None])
         /\ \A c \in Clients, a \in MaybeAddr : GoodServer([y EXCEPT !.avoid[c] = a])
<1>0. y \in ServerType /\ OffersFit(y) /\ OffersDiffer(y) /\ LeasesFit(y)
  BY DEF GoodServer
<1>1. y.offers \in [Clients -> MaybeAddr] /\ y.leases \in [Addrs -> Clients \cup {None}]
  BY <1>0 DEF ServerType
<1>2. ASSUME NEW c \in Clients
      PROVE  GoodServer([y EXCEPT !.offers[c] = None])
  <2> DEFINE z == [y EXCEPT !.offers[c] = None]
  <2>1. z \in ServerType /\ z.range = y.range /\ z.leases = y.leases
        /\ z.offers = [y.offers EXCEPT ![c] = None]
    BY <1>0 DEF ServerType, MaybeAddr
  <2> HIDE DEF z
  <2>2. \A d \in Clients : z.offers[d] = IF d = c THEN None ELSE y.offers[d]
    BY <1>1, <2>1
  <2>3. OffersFit(z) /\ OffersDiffer(z) /\ LeasesFit(z)
    BY <1>0, <2>1, <2>2 DEF OffersFit, OffersDiffer, LeasesFit
  <2>4. GoodServer(z)
    BY <2>1, <2>3 DEF GoodServer
  <2>5. QED BY <2>4 DEF z
<1>3. ASSUME NEW a \in Addrs
      PROVE  GoodServer([y EXCEPT !.leases[a] = None])
  <2> DEFINE z == [y EXCEPT !.leases[a] = None]
  <2>1. z \in ServerType /\ z.range = y.range /\ z.offers = y.offers
        /\ z.leases = [y.leases EXCEPT ![a] = None]
    BY <1>0 DEF ServerType
  <2> HIDE DEF z
  <2>2. \A b \in Addrs : z.leases[b] = IF b = a THEN None ELSE y.leases[b]
    BY <1>1, <2>1
  <2>3. OffersFit(z)
    <3> SUFFICES ASSUME NEW d \in Clients, z.offers[d] # None
                 PROVE  z.offers[d] \in z.range /\ z.leases[z.offers[d]] \in {None, d}
      BY DEF OffersFit
    <3>1. y.offers[d] \in Addrs
      BY <1>1, <2>1 DEF MaybeAddr
    <3>2. QED BY <1>0, <2>1, <2>2, <3>1 DEF OffersFit
  <2>4. OffersDiffer(z) /\ LeasesFit(z)
    BY <1>0, <2>1, <2>2 DEF OffersDiffer, LeasesFit
  <2>5. GoodServer(z)
    BY <2>1, <2>3, <2>4 DEF GoodServer
  <2>6. QED BY <2>5 DEF z
<1>4. ASSUME NEW c \in Clients, NEW a \in MaybeAddr
      PROVE  GoodServer([y EXCEPT !.avoid[c] = a])
  <2> DEFINE z == [y EXCEPT !.avoid[c] = a]
  <2>1. z \in ServerType /\ z.range = y.range /\ z.offers = y.offers /\ z.leases = y.leases
    BY <1>0 DEF ServerType
  <2> HIDE DEF z
  <2>2. OffersFit(z) /\ OffersDiffer(z) /\ LeasesFit(z)
    BY <1>0, <2>1 DEF OffersFit, OffersDiffer, LeasesFit
  <2>3. GoodServer(z)
    BY <2>1, <2>2 DEF GoodServer
  <2>4. QED BY <2>3 DEF z
<1>5. QED BY <1>2, <1>3, <1>4

LEMMA HeardRequestGood ==
  ASSUME NEW y, GoodServer(y), NEW s \in Servers, NEW m \in Frames, m.op = "request"
  PROVE  GoodAnswer(HeardRequest(y, s, m))
<1>0. m.ip \in Addrs /\ m.mac \in Clients /\ m.server \in Servers \cup {None} /\ m.mac # None
  BY DhcpAssumption DEF Frames, Frame, Named
<1>1. CASE m.server = None
  <2> DEFINE lease == IF m.ip \in Pool[s] THEN y.leases[m.ip] ELSE None
  <2>0. HeardRequest(y, s, m) = HeardReboot(y, s, m)
    BY <1>1, DhcpAssumption DEF HeardRequest
  <2>1. CASE NetOf(m.ip) # place[s] \/ lease \notin {None, m.mac}
    <3>1. HeardReboot(y, s, m) = Nak(y, s, m)
      BY <2>1 DEF HeardReboot
    <3>2. QED BY <2>0, <3>1, NakGood
  <2>2. CASE NetOf(m.ip) = place[s] /\ lease = None
    <3>1. HeardReboot(y, s, m) = Answers(y, <<>>)
      BY <2>2 DEF HeardReboot
    <3>2. QED BY <2>0, <3>1, AnswersNothing
  <2>3. CASE NetOf(m.ip) = place[s] /\ lease \in {None, m.mac} /\ lease # None
    <3>1. HeardReboot(y, s, m) = Lease(y, s, m)
      BY <2>3 DEF HeardReboot
    <3>2. y.leases[m.ip] = m.mac
      BY <2>3
    <3>3. QED BY <1>0, <2>0, <3>1, <3>2, LeaseGood
  <2>4. QED BY <2>1, <2>2, <2>3
<1>2. CASE m.server \notin {None, s}
  <2>1. HeardRequest(y, s, m) = Answers([y EXCEPT !.offers[m.mac] = None], <<>>)
    BY <1>2 DEF HeardRequest
  <2>2. QED BY <1>0, <2>1, WithdrawnGood, AnswersNothing
<1>3. CASE m.server = s /\ (y.offers[m.mac] = m.ip \/ y.leases[m.ip] = m.mac)
  <2>1. HeardRequest(y, s, m) = Lease(y, s, m)
    BY <1>3, DhcpAssumption DEF HeardRequest
  <2>2. QED BY <1>0, <1>3, <2>1, LeaseGood
<1>4. CASE m.server = s /\ ~ (y.offers[m.mac] = m.ip \/ y.leases[m.ip] = m.mac)
  <2>1. HeardRequest(y, s, m) = Nak(y, s, m)
    BY <1>4, DhcpAssumption DEF HeardRequest
  <2>2. QED BY <2>1, NakGood
<1>5. QED BY <1>1, <1>2, <1>3, <1>4

LEMMA HeardReleaseGood ==
  ASSUME NEW y, GoodServer(y), NEW m \in Frames
  PROVE  GoodAnswer(HeardRelease(y, m))
<1>1. CASE y.leases[m.ip] = m.mac /\ m.ip \in Addrs
  BY <1>1, WithdrawnGood, AnswersNothing DEF HeardRelease
<1>2. CASE y.leases[m.ip] = m.mac /\ m.ip \notin Addrs
  <2>1. y.leases \in [Addrs -> Clients \cup {None}] /\ y \in ServerType
    BY DEF GoodServer, ServerType
  <2>2. [y.leases EXCEPT ![m.ip] = None] = y.leases
    BY <1>2, <2>1
  <2>3. [y EXCEPT !.leases[m.ip] = None] = y
    BY <2>1, <2>2 DEF ServerType
  <2>4. QED BY <1>2, <2>3, AnswersNothing DEF HeardRelease
<1>3. CASE y.leases[m.ip] # m.mac
  BY <1>3, AnswersNothing DEF HeardRelease
<1>4. QED BY <1>1, <1>2, <1>3

LEMMA ServerHandleGood ==
  ASSUME NEW y, GoodServer(y), NEW s \in Servers, NEW m \in Frames
  PROVE  GoodAnswer(ServerHandle(y, s, m))
<1>1. CASE ~ y.enabled
  BY <1>1, AnswersNothing DEF ServerHandle
<1>2. CASE y.enabled /\ m.op = "discover"
  BY <1>2, HeardDiscoverGood DEF ServerHandle
<1>3. CASE y.enabled /\ m.op = "request"
  BY <1>3, HeardRequestGood DEF ServerHandle
<1>4. CASE y.enabled /\ m.op \notin {"discover", "request"}
  BY <1>4, HeardReleaseGood DEF ServerHandle
<1>5. QED BY <1>1, <1>2, <1>3, <1>4

\* A change of the range leaves nothing outside it.
LEMMA DropInvalidGood ==
  ASSUME NEW x, GoodServer(x), NEW on \in BOOLEAN, NEW range \in SUBSET Addrs
  PROVE  GoodServer(DropInvalid([x EXCEPT !.enabled = on, !.range = range]))
<1> DEFINE y == [x EXCEPT !.enabled = on, !.range = range]
           z == DropInvalid(y)
<1>0. x \in ServerType /\ OffersFit(x) /\ OffersDiffer(x) /\ LeasesFit(x)
  BY DEF GoodServer
<1>1. y \in ServerType /\ y.range = range /\ y.offers = x.offers /\ y.leases = x.leases
  BY <1>0 DEF ServerType
<1>2. /\ z.range = range
      /\ z.leases = [a \in Addrs |-> IF a \in range THEN x.leases[a] ELSE None]
      /\ z.offers = [c \in Clients |-> IF x.offers[c] \in range THEN x.offers[c] ELSE None]
  BY <1>1 DEF DropInvalid, ServerType
<1>3. z \in ServerType
  BY <1>1 DEF DropInvalid, ServerType, MaybeAddr
<1> HIDE DEF z
<1>4. \A c \in Clients : z.offers[c] # None => z.offers[c] = x.offers[c] /\ x.offers[c] \in range
  BY <1>2
<1>5. \A a \in range : z.leases[a] = x.leases[a]
  BY <1>2
<1>6. \A a \in Addrs : z.leases[a] # None => a \in range
  BY <1>2
<1>7. OffersFit(z)
  BY <1>0, <1>2, <1>4, <1>5 DEF OffersFit
<1>8. OffersDiffer(z)
  <2> SUFFICES ASSUME NEW c \in Clients, NEW d \in Clients, c # d, z.offers[c] # None,
                      z.offers[d] = z.offers[c]
               PROVE  FALSE
    BY DEF OffersDiffer
  <2>1. x.offers[c] = z.offers[c] /\ x.offers[d] = z.offers[d]
    BY <1>4
  <2>2. QED BY <1>0, <2>1 DEF OffersDiffer
<1>9. LeasesFit(z)
  BY <1>2, <1>6 DEF LeasesFit
<1>10. GoodServer(z)
  BY <1>3, <1>7, <1>8, <1>9 DEF GoodServer
<1>11. QED BY <1>10 DEF z

-------------------------------------------------------------------------------
(* The actions *)

\* One client is changed and left in order.
LEMMA ClientsIInv ==
  ASSUME IInv, NEW c \in Clients, NEW x, GoodClient(x), client' = [client EXCEPT ![c] = x],
         inbox' \in [Stations -> Seq(Frames)], server' = server, ContextType'
  PROVE  IInv'
<1>1. x \in ClientType /\ client \in [Clients -> ClientType]
  BY DEF IInv, GoodClient
<1>2. client' \in [Clients -> ClientType] /\ \A d \in Clients : GoodClient(client'[d])
  BY <1>1 DEF IInv
<1>3. \A s \in Servers : GoodServer(server'[s])
  BY DEF IInv
<1>4. QED BY <1>2, <1>3
      DEF IInv, InboxType, Stations, Frames, Frame, Named, GoodServer, ServerType, OffersFit,
          OffersDiffer, LeasesFit, GoodClient, ClientType, MaybeAddr, Active, MaxAttempts

LEMMA ClientActsIInv ==
  ASSUME IInv, NEW c \in Clients, NEW r, GoodDeed(r), NEW box \in [Stations -> Seq(Frames)],
         ClientActs(c, r, box), server' = server, ContextType'
  PROVE  IInv'
<1>1. client' = [client EXCEPT ![c] = r.client] /\ GoodClient(r.client)
  BY DEF ClientActs, GoodDeed
<1>2. inbox' \in [Stations -> Seq(Frames)]
  <2> DEFINE b == IF r.fresh THEN [n \in DOMAIN box |-> Stale(box[n], c)] ELSE box
  <2>1. b \in [Stations -> Seq(Frames)]
    BY StaleFrames
  <2>2. inbox' = Broadcast(b, r.client.seg, r.out) /\ r.out \in Seq(Frames)
    BY DEF ClientActs, GoodDeed
  <2> HIDE DEF b
  <2>3. QED BY <2>1, <2>2, BroadcastType
<1>3. QED BY <1>1, <1>2, ClientsIInv

\* The clients are left alone and the servers in order.
LEMMA ServersIInv ==
  ASSUME IInv, client' = client, \A s \in Servers : GoodServer(server'[s]),
         server' \in [Servers -> ServerType], inbox' \in [Stations -> Seq(Frames)], ContextType'
  PROVE  IInv'
BY DEF IInv, InboxType, Stations, Frames, Frame, Named, GoodServer, ServerType, OffersFit,
       OffersDiffer, LeasesFit, GoodClient, ClientType, MaybeAddr, Active, MaxAttempts

LEMMA HeadFrame ==
  ASSUME IInv, NEW n \in Stations, inbox[n] # <<>>
  PROVE  /\ Head(inbox[n]) \in Frames
         /\ [inbox EXCEPT ![n] = Tail(@)] \in [Stations -> Seq(Frames)]
<1>1. inbox \in [Stations -> Seq(Frames)]
  BY DEF IInv, InboxType
<1>2. Head(inbox[n]) \in Frames /\ Tail(inbox[n]) \in Seq(Frames)
  BY <1>1, HeadTailProperties
<1>3. QED BY <1>1, <1>2

LEMMA EditKeepsContext ==
  ASSUME IInv, Edit, place' = place, lost' \in BOOLEAN
  PROVE  ContextType'
<1>1. edits \in Nat /\ MaxEdits \in Nat /\ edits + 1 <= MaxEdits /\ edits' = edits + 1
  BY DhcpAssumption DEF IInv, ContextType, Edit
<1>2. QED BY <1>1 DEF IInv, ContextType

LEMMA WorkIInv ==
  ASSUME IInv, Work
  PROVE  IInv'
<1>0. inbox \in [Stations -> Seq(Frames)] /\ \A c \in Clients : c \in Stations
  BY DEF IInv, InboxType, Stations
<1>1. ASSUME NEW c \in Clients, ClientReceives(c)
      PROVE  IInv'
  <2> DEFINE m == Head(inbox[c])
             r == IF m.seg = client[c].seg THEN ClientHandle(client[c], c, m) ELSE Does(client[c], <<>>)
             box == [inbox EXCEPT ![c] = Tail(@)]
  <2>1. m \in Frames /\ box \in [Stations -> Seq(Frames)]
    BY <1>0, <1>1, HeadFrame DEF ClientReceives
  <2>2. GoodClient(client[c])
    BY DEF IInv
  <2>3. GoodDeed(r)
    BY <2>1, <2>2, ClientHandleGood, DoesNothing
  <2>4. ClientActs(c, r, box) /\ server' = server /\ ContextType'
    BY <1>1 DEF ClientReceives, IInv, ContextType
  <2> HIDE DEF r, box
  <2>5. QED BY <2>1, <2>3, <2>4, ClientActsIInv
<1>2. ASSUME NEW c \in Clients, Timeout(c)
      PROVE  IInv'
  <2>1. GoodDeed(OnTimeout(client[c], c))
    BY OnTimeoutGood DEF IInv
  <2>2. ClientActs(c, OnTimeout(client[c], c), inbox) /\ server' = server /\ ContextType'
    BY <1>2 DEF Timeout, IInv, ContextType
  <2>3. QED BY <1>0, <2>1, <2>2, ClientActsIInv
<1>3. ASSUME NEW s \in Servers, ServerReceives(s)
      PROVE  IInv'
  <2> DEFINE m == Head(inbox[s])
             r == ServerHandle(server[s], s, m)
             box == [inbox EXCEPT ![s] = Tail(@)]
  <2>1. m \in Frames /\ box \in [Stations -> Seq(Frames)]
    BY <1>3, HeadFrame DEF ServerReceives, Stations
  <2>2. m.mac \in Stations
    BY <2>1 DEF Frames, Frame, Stations
  <2>3. GoodAnswer(r)
    BY <2>1, ServerHandleGood DEF IInv
  <2>4. /\ server' = [server EXCEPT ![s] = r.server]
        /\ inbox' = [inbox EXCEPT ![s] = Tail(@), ![m.mac] = @ \o r.out]
        /\ client' = client /\ ContextType'
    BY <1>3 DEF ServerReceives, IInv, ContextType
  <2>5. GoodServer(r.server) /\ r.server \in ServerType /\ r.out \in Seq(Frames)
    BY <2>3 DEF GoodAnswer, GoodServer
  <2> HIDE DEF m, r, box
  <2>6. m.mac # s /\ s \in Stations
    BY <2>1, DhcpAssumption DEF Frames, Frame, Stations
  <2>7. Tail(inbox[s]) \in Seq(Frames) /\ inbox[m.mac] \o r.out \in Seq(Frames)
    <3>1. Tail(inbox[s]) = box[s] /\ box[s] \in Seq(Frames)
      BY <1>0, <2>1, <2>6 DEF box
    <3>2. inbox[m.mac] \in Seq(Frames)
      BY <1>0, <2>2
    <3>3. QED BY <2>5, <3>1, <3>2, ConcatProperties
  <2>8. inbox' \in [Stations -> Seq(Frames)]
    BY <1>0, <2>2, <2>4, <2>6, <2>7
  <2>9. server' \in [Servers -> ServerType] /\ \A t \in Servers : GoodServer(server'[t])
    BY <2>4, <2>5 DEF IInv
  <2>10. QED BY <2>4, <2>8, <2>9, ServersIInv
<1>4. QED BY <1>1, <1>2, <1>3 DEF Work

LEMMA ChangeIInv ==
  ASSUME IInv, Change
  PROVE  IInv'
<1>0. /\ inbox \in [Stations -> Seq(Frames)] /\ place \in [Servers -> Segs] /\ lost \in BOOLEAN
      /\ \A c \in Clients : c \in Stations /\ GoodClient(client[c]) /\ client[c] \in ClientType
      /\ \A s \in Servers : GoodServer(server[s]) /\ server[s] \in ServerType
      /\ server \in [Servers -> ServerType]
  BY DEF IInv, InboxType, Stations, ContextType
<1>1. ASSUME NEW c \in Clients, NEW seg \in Segs, Plug(c, seg)
      PROVE  IInv'
  <2> DEFINE x == [client[c] EXCEPT !.seg = seg]
  <2>1. x \in ClientType
    BY <1>0 DEF ClientType
  <2>2. GoodDeed(Start(x, c))
    BY <2>1, StartGood
  <2>3. ClientActs(c, Start(x, c), inbox) /\ server' = server /\ ContextType'
    BY <1>0, <1>1, EditKeepsContext DEF Plug
  <2>4. QED BY <1>0, <2>2, <2>3, ClientActsIInv
<1>2. ASSUME NEW c \in Clients, Unplug(c)
      PROVE  IInv'
  <2> DEFINE x == [Stop(client[c]) EXCEPT !.seg = None]
  <2>1. GoodClient(x)
    <3>1. Stop(client[c]) \in ClientType /\ Stop(client[c]).state = "idle" /\ Stop(client[c]).ip = None
      BY <1>0, StopType
    <3>2. x \in ClientType /\ x.state \in {"idle", "gone"} /\ x.ip = None
      BY <3>1 DEF ClientType, MaybeAddr
    <3>3. QED BY <3>2 DEF GoodClient
  <2>2. client' = [client EXCEPT ![c] = x] /\ server' = server /\ inbox' = inbox /\ ContextType'
    BY <1>0, <1>2, EditKeepsContext DEF Unplug
  <2>3. QED BY <1>0, <2>1, <2>2, ClientsIInv
<1>3. ASSUME NEW c \in Clients, RenewDhcp(c)
      PROVE  IInv'
  <2>1. GoodDeed(Start(client[c], c))
    BY <1>0, StartGood
  <2>2. ClientActs(c, Start(client[c], c), inbox) /\ server' = server /\ ContextType'
    BY <1>0, <1>3, EditKeepsContext DEF RenewDhcp
  <2>3. QED BY <1>0, <2>1, <2>2, ClientActsIInv
<1>4. ASSUME NEW c \in Clients, Remove(c)
      PROVE  IInv'
  <2> DEFINE y == client[c]
             m == Message("release", c, y.ip, y.server, y.seg)
             bye == IF y.state = "bound" THEN <<m>> ELSE <<>>
             x == [Stop(y) EXCEPT !.seg = None, !.last = None, !.state = "gone"]
  <2>1. GoodClient(x)
    <3>1. Stop(client[c]) \in ClientType /\ Stop(client[c]).state = "idle" /\ Stop(client[c]).ip = None
      BY <1>0, StopType
    <3>2. x \in ClientType /\ x.state \in {"idle", "gone"} /\ x.ip = None
      BY <3>1 DEF ClientType, MaybeAddr
    <3>3. QED BY <3>2 DEF GoodClient
  <2>2. m \in Frames
    BY <1>0, MessageFrame DEF ClientType
  <2>3. bye \in Seq(Frames)
    BY <2>2, FrameSeq, NoFrame
  <2>4. /\ client' = [client EXCEPT ![c] = x] /\ inbox' = Broadcast(inbox, y.seg, bye)
        /\ server' = server /\ ContextType'
    BY <1>0, <1>4, EditKeepsContext DEF Remove
  <2> HIDE DEF x, bye, y
  <2>5. inbox' \in [Stations -> Seq(Frames)]
    BY <1>0, <2>3, <2>4, BroadcastType
  <2>6. QED BY <2>1, <2>4, <2>5, ClientsIInv
<1>5. ASSUME NEW s \in Servers, SetDhcpServer(s)
      PROVE  IInv'
  <2>1. PICK on \in BOOLEAN, range \in {Pool[s], Pool[s] \ {CHOOSE a \in Pool[s] : \A b \in Pool[s] : a <= b}} :
          server' = [server EXCEPT ![s] = DropInvalid([server[s] EXCEPT !.enabled = on, !.range = range])]
    BY <1>5 DEF SetDhcpServer
  <2>2. range \in SUBSET Addrs
    BY DhcpAssumption
  <2>3. GoodServer(DropInvalid([server[s] EXCEPT !.enabled = on, !.range = range]))
    BY <1>0, <2>2, DropInvalidGood
  <2>4. client' = client /\ inbox' = inbox /\ ContextType'
    BY <1>0, <1>5, EditKeepsContext DEF SetDhcpServer
  <2>5. server' \in [Servers -> ServerType] /\ \A t \in Servers : GoodServer(server'[t])
    BY <1>0, <2>1, <2>3 DEF GoodServer
  <2>6. QED BY <1>0, <2>4, <2>5, ServersIInv
<1>6. ASSUME NEW s \in Servers, NEW a \in Addrs, Renumber(s, a)
      PROVE  IInv'
  <2> DEFINE c == server[s].leases[a]
             y == [server[s] EXCEPT !.leases[a] = None]
             z == [y EXCEPT !.avoid[c] = a]
             m == Message("forcerenew", c, a, s, place[s])
  <2>1. c \in Clients
    BY <1>0, <1>6 DEF Renumber, ServerType
  <2>2. GoodServer(z) /\ z \in ServerType
    <3>1. GoodServer(y)
      BY <1>0, WithdrawnGood
    <3>2. GoodServer(z)
      BY <2>1, <3>1, WithdrawnGood DEF MaybeAddr
    <3>3. QED BY <3>2 DEF GoodServer
  <2>3. z = [server[s] EXCEPT !.leases[a] = None, !.avoid[c] = a]
    BY <1>0 DEF ServerType
  <2>4. m \in Frames
    BY <1>0, <2>1, MessageFrame DEF MaybeAddr
  <2>5. /\ server' = [server EXCEPT ![s] = z]
        /\ inbox' = [inbox EXCEPT ![c] = Append(@, m)]
        /\ client' = client /\ ContextType'
    BY <1>0, <1>6, <2>3, EditKeepsContext DEF Renumber
  <2> HIDE DEF m, z, c
  <2>6. Append(inbox[c], m) \in Seq(Frames)
    BY <1>0, <2>1, <2>4, AppendProperties
  <2>7. inbox' \in [Stations -> Seq(Frames)]
    BY <1>0, <2>5, <2>6
  <2>8. server' \in [Servers -> ServerType] /\ \A t \in Servers : GoodServer(server'[t])
    BY <1>0, <2>2, <2>5
  <2>9. QED BY <2>5, <2>7, <2>8, ServersIInv
<1>7. ASSUME NEW n \in Clients \cup Servers, Lose(n)
      PROVE  IInv'
  <2>1. inbox' \in [Stations -> Seq(Frames)]
    BY <1>7, HeadFrame DEF Lose, Stations
  <2>2. client' = client /\ server' = server /\ ContextType'
    BY <1>7, EditKeepsContext DEF Lose
  <2>3. QED BY <1>0, <2>1, <2>2, ServersIInv
<1>8. QED BY <1>1, <1>2, <1>3, <1>4, <1>5, <1>6, <1>7 DEF Change

LEMMA InitIInv == Init => IInv
<1> SUFFICES ASSUME Init PROVE IInv
  OBVIOUS
<1> DEFINE x == NewClient(Home)
           r == [c \in Clients |-> Start(x, c)]
           first == [k \in DOMAIN Created |-> Head(r[Created[k]].out)]
<1>1. x \in ClientType
  BY DhcpAssumption DEF NewClient, ClientType, MaybeAddr, Active, MaxAttempts
<1>2. \A c \in Clients : GoodDeed(r[c]) /\ Head(r[c].out) \in Frames
  <2> SUFFICES ASSUME NEW c \in Clients
               PROVE  GoodDeed(Start(x, c)) /\ Head(Start(x, c).out) \in Frames
    OBVIOUS
  <2>1. GoodDeed(Start(x, c)) /\ Start(x, c).out \in Seq(Frames)
    BY <1>1, StartGood DEF GoodDeed
  <2>2. Start(x, c).out # <<>>
    BY DEF Start
  <2>3. QED BY <2>1, <2>2, HeadTailProperties
<1>3. /\ place \in [Servers -> Segs] /\ edits = 0 /\ lost = FALSE
      /\ server = [s \in Servers |-> NewServer(s)]
      /\ client = [c \in Clients |-> r[c].client]
      /\ inbox = [n \in Stations |-> IF n \in Servers /\ place[n] = Home THEN first ELSE <<>>]
  BY DhcpAssumption DEF Init, Stations
<1>4. first \in Seq(Frames)
  <2>1. Len(Created) \in Nat /\ DOMAIN Created = 1 .. Len(Created)
        /\ \A k \in 1 .. Len(Created) : Created[k] \in Clients
    BY DhcpAssumption, LenProperties, ElementOfSeq
  <2>2. first \in [1 .. Len(Created) -> Frames]
    BY <1>2, <2>1
  <2> HIDE DEF first
  <2>3. QED BY <2>1, <2>2, SeqDef
<1> HIDE DEF first, r
<1>5. InboxType
  BY <1>3, <1>4, NoFrame DEF InboxType
<1>6. client \in [Clients -> ClientType] /\ \A c \in Clients : GoodClient(client[c])
  BY <1>2, <1>3 DEF GoodDeed, GoodClient
<1>7. \A s \in Servers : NewServer(s) \in ServerType /\ GoodServer(NewServer(s))
  BY DhcpAssumption DEF NewServer, ServerType, MaybeAddr, GoodServer, OffersFit, OffersDiffer, LeasesFit
<1>8. server \in [Servers -> ServerType] /\ \A s \in Servers : GoodServer(server[s])
  BY <1>3, <1>7
<1>9. ContextType
  <2>1. 0 \in 0 .. MaxEdits
    BY DhcpAssumption
  <2>2. QED BY <1>3, <2>1 DEF ContextType
<1>10. QED BY <1>5, <1>6, <1>8, <1>9 DEF IInv

LEMMA NextIInv == IInv /\ [Next]_vars => IInv'
<1> SUFFICES ASSUME IInv, [Next]_vars PROVE IInv'
  OBVIOUS
<1>1. CASE Work
  BY <1>1, WorkIInv
<1>2. CASE Change
  BY <1>2, ChangeIInv
<1>3. CASE UNCHANGED vars
  <2>1. /\ client' = client /\ server' = server /\ inbox' = inbox /\ ContextType'
    BY <1>3 DEF vars, IInv, ContextType
  <2>2. QED BY <2>1, ServersIInv DEF IInv, InboxType
<1>4. QED BY <1>1, <1>2, <1>3 DEF Next

LEMMA Inductive == Spec => []IInv
BY InitIInv, NextIInv, PTL DEF Spec

-------------------------------------------------------------------------------
(* What the addresses held rest on.  A lease can vanish under a client that    *)
(* holds it in three ways, and each leaves a trace: the range has changed and  *)
(* the loss is noted in revoked, the server takes the lease back and a         *)
(* FORCERENEW follows, on the same path and therefore after the ACK, or the    *)
(* client itself has given it back and is gone.                                *)

\* <<c, a, seg>>: client c may hold address a on segment seg.
Backing ==
  {t \in Clients \X Addrs \X (Segs \cup {None}) :
     \/ <<t[1], t[2]>> \in revoked
     \/ \E s \in Servers : place[s] = t[3] /\ server[s].leases[t[2]] = t[1]}

Gone == {c \in Clients : client[c].state = "gone"}

\* After the first k frames of q the client at seg is told to ask again.
Recall(q, k, seg) ==
  \E j \in DOMAIN q : j > k /\ q[j].op = "forcerenew" /\ q[j].seg = seg

AcksTrue(B, c, q) ==
  \A k \in DOMAIN q : q[k].op = "ack" => <<c, q[k].ip, q[k].seg>> \in B \/ Recall(q, k, q[k].seg)

HeldTrue(B, c, x, q) ==
  x.state = "bound" => <<c, x.ip, x.seg>> \in B \/ Recall(q, 0, x.seg)

\* What reaches a server was sent on its segment, and only who is gone gives back.
Asked(seg, G, q) ==
  \A k \in DOMAIN q : q[k].seg = seg /\ (q[k].op \in {"discover", "request"} \/ q[k].mac \in G)

\* Who is gone is plugged in nowhere, who does not take part holds nothing.
Parted(x) ==
  /\ x.state = "gone" => x.seg = None
  /\ x.state \in {"idle", "failed", "gone"} => x.ip = None

LInv ==
  /\ \A s \in Servers : Asked(place[s], Gone, inbox[s])
  /\ \A c \in Clients : Parted(client[c])
  /\ ~ lost => \A c \in Clients : client[c].state # "gone" =>
       HeldTrue(Backing, c, client[c], inbox[c]) /\ AcksTrue(Backing, c, inbox[c])

LEMMA LInvImplies == IInv /\ LInv => AddressIsLeased
<1> SUFFICES ASSUME IInv, LInv, Rest, ~ lost, NEW c \in Clients, client[c].ip # None,
                    <<c, client[c].ip>> \notin revoked
             PROVE  \E s \in Servers : place[s] = client[c].seg /\ server[s].leases[client[c].ip] = c
  BY DEF AddressIsLeased
<1>1. client[c].state = "bound"
  BY DEF IInv, ClientType, LInv, Parted, Rest
<1>2. inbox[c] = <<>> /\ c \in Stations
  BY DEF Rest, IInv, InboxType, Stations
<1>3. ~ Recall(inbox[c], 0, client[c].seg)
  BY <1>2 DEF Recall
<1>4. QED BY <1>1, <1>3 DEF LInv, HeldTrue, Backing

\* q and p carry the same frames, stale or not.
Alike(q, p) ==
  /\ p \in Seq(Frames) /\ DOMAIN p = DOMAIN q
  /\ \A k \in DOMAIN q : p[k].op = q[k].op /\ p[k].mac = q[k].mac /\ p[k].ip = q[k].ip /\ p[k].seg = q[k].seg

LEMMA StaleAlike ==
  ASSUME NEW q \in Seq(Frames), NEW c
  PROVE  Alike(q, Stale(q, c))
<1>1. Stale(q, c) \in Seq(Frames) /\ DOMAIN Stale(q, c) = DOMAIN q
  BY StaleFrames DEF Stale
<1>2. ASSUME NEW k \in DOMAIN q
      PROVE  /\ Stale(q, c)[k].op = q[k].op /\ Stale(q, c)[k].mac = q[k].mac
             /\ Stale(q, c)[k].ip = q[k].ip /\ Stale(q, c)[k].seg = q[k].seg
  <2>1. k \in 1 .. Len(q)
    BY LenProperties
  <2>2. q[k] \in Frame
    BY <2>1, ElementOfSeq DEF Frames
  <2>3. Stale(q, c)[k] = [q[k] EXCEPT !.cur = q[k].cur /\ q[k].mac # c]
    BY DEF Stale
  <2>4. QED BY <2>2, <2>3 DEF Frame
<1>3. QED BY <1>1, <1>2 DEF Alike

LEMMA AlikeTrue ==
  ASSUME NEW q, NEW p, Alike(q, p), NEW B, NEW c, NEW g, NEW G
  PROVE  /\ \A k, seg : Recall(q, k, seg) => Recall(p, k, seg)
         /\ AcksTrue(B, c, q) => AcksTrue(B, c, p)
         /\ Asked(g, G, q) => Asked(g, G, p)
<1>1. \A k, seg : Recall(q, k, seg) => Recall(p, k, seg)
  BY DEF Alike, Recall
<1>2. AcksTrue(B, c, q) => AcksTrue(B, c, p)
  BY <1>1 DEF Alike, AcksTrue
<1>3. QED BY <1>1, <1>2 DEF Alike, Asked

LEMMA TailTrue ==
  ASSUME NEW q \in Seq(Frames), q # <<>>, NEW B, NEW c, NEW g, NEW G
  PROVE  /\ \A seg : Recall(q, 1, seg) => Recall(Tail(q), 0, seg)
         /\ \A seg : (Recall(q, 0, seg) /\ ~ (Head(q).op = "forcerenew" /\ Head(q).seg = seg)) => Recall(Tail(q), 0, seg)
         /\ AcksTrue(B, c, q) => AcksTrue(B, c, Tail(q))
         /\ Asked(g, G, q) => Asked(g, G, Tail(q))
<1> DEFINE p == Tail(q)
<1>1. /\ Len(q) \in Nat /\ Len(q) > 0 /\ Head(q) = q[1] /\ DOMAIN q = 1 .. Len(q)
      /\ DOMAIN p = 1 .. Len(q) - 1 /\ \A k \in DOMAIN p : k + 1 \in DOMAIN q /\ p[k] = q[k + 1]
  BY LenProperties, HeadTailProperties, EmptySeq
<1> HIDE DEF p
<1>2. \A k \in DOMAIN q : k = 1 \/ (k - 1 \in DOMAIN p /\ p[k - 1] = q[k])
  BY <1>1
<1>3. ASSUME NEW n \in Nat, NEW seg, Recall(q, n + 1, seg) PROVE Recall(p, n, seg)
  <2>1. PICK j \in DOMAIN q : j > n + 1 /\ q[j].op = "forcerenew" /\ q[j].seg = seg
    BY <1>3 DEF Recall
  <2>2. j - 1 \in DOMAIN p /\ p[j - 1] = q[j] /\ j - 1 > n
    BY <1>1, <1>2, <2>1
  <2>3. QED BY <2>1, <2>2 DEF Recall
<1>4. \A seg : Recall(q, 1, seg) => Recall(p, 0, seg)
  BY <1>3
<1>5. \A seg : (Recall(q, 0, seg) /\ ~ (Head(q).op = "forcerenew" /\ Head(q).seg = seg)) => Recall(p, 0, seg)
  <2> SUFFICES ASSUME NEW seg, Recall(q, 0, seg), ~ (Head(q).op = "forcerenew" /\ Head(q).seg = seg)
               PROVE  Recall(p, 0, seg)
    OBVIOUS
  <2>1. PICK j \in DOMAIN q : q[j].op = "forcerenew" /\ q[j].seg = seg
    BY DEF Recall
  <2>2. j # 1 /\ j \in 1 .. Len(q)
    BY <1>1, <2>1
  <2>3. j - 1 \in DOMAIN p /\ p[j - 1] = q[j] /\ j - 1 > 0
    BY <1>1, <1>2, <2>1, <2>2
  <2>4. QED BY <2>1, <2>3 DEF Recall
<1>6. ASSUME AcksTrue(B, c, q) PROVE AcksTrue(B, c, p)
  <2> SUFFICES ASSUME NEW k \in DOMAIN p, p[k].op = "ack"
               PROVE  <<c, p[k].ip, p[k].seg>> \in B \/ Recall(p, k, p[k].seg)
    BY DEF AcksTrue
  <2>1. k \in Nat /\ k + 1 \in DOMAIN q /\ p[k] = q[k + 1]
    BY <1>1
  <2>2. <<c, p[k].ip, p[k].seg>> \in B \/ Recall(q, k + 1, p[k].seg)
    BY <1>6, <2>1 DEF AcksTrue
  <2>3. QED BY <1>3, <2>1, <2>2
<1>7. Asked(g, G, q) => Asked(g, G, p)
  BY <1>1 DEF Asked
<1>8. QED BY <1>4, <1>5, <1>6, <1>7 DEF p

LEMMA ConcatTrue ==
  ASSUME NEW q \in Seq(Frames), NEW p \in Seq(Frames), NEW B, NEW c, NEW g, NEW G
  PROVE  /\ \A k, seg : Recall(q, k, seg) => Recall(q \o p, k, seg)
         /\ (AcksTrue(B, c, q) /\ \A k \in DOMAIN p : p[k].op = "ack" => <<c, p[k].ip, p[k].seg>> \in B) => AcksTrue(B, c, q \o p)
         /\ (Asked(g, G, q) /\ Asked(g, G, p)) => Asked(g, G, q \o p)
<1> DEFINE r == q \o p
<1>1. /\ Len(q) \in Nat /\ Len(p) \in Nat /\ DOMAIN q = 1 .. Len(q) /\ DOMAIN p = 1 .. Len(p)
      /\ DOMAIN r = 1 .. Len(q) + Len(p)
      /\ \A k \in 1 .. Len(q) + Len(p) : r[k] = IF k <= Len(q) THEN q[k] ELSE p[k - Len(q)]
  BY LenProperties, ConcatProperties
<1> HIDE DEF r
<1>2. \A k \in DOMAIN q : k \in DOMAIN r /\ r[k] = q[k]
  BY <1>1
<1>3. \A k \in DOMAIN r : (k \in DOMAIN q /\ r[k] = q[k]) \/ \E j \in DOMAIN p : r[k] = p[j]
  <2> SUFFICES ASSUME NEW k \in DOMAIN r, k \notin DOMAIN q PROVE \E j \in DOMAIN p : r[k] = p[j]
    BY <1>2
  <2>1. k - Len(q) \in DOMAIN p /\ r[k] = p[k - Len(q)]
    BY <1>1
  <2>2. QED BY <2>1
<1>4. \A k, seg : Recall(q, k, seg) => Recall(r, k, seg)
  BY <1>2 DEF Recall
<1>5. (AcksTrue(B, c, q) /\ \A k \in DOMAIN p : p[k].op = "ack" => <<c, p[k].ip, p[k].seg>> \in B) => AcksTrue(B, c, r)
  BY <1>3, <1>4 DEF AcksTrue
<1>6. (Asked(g, G, q) /\ Asked(g, G, p)) => Asked(g, G, r)
  BY <1>3 DEF Asked
<1>7. QED BY <1>4, <1>5, <1>6 DEF r

-------------------------------------------------------------------------------
(* What the handlers say and do to leases *)

\* The frames of out ask the servers of segment seg for an address.
Asks(out, seg) == \A k \in DOMAIN out : out[k].op \in {"discover", "request"} /\ out[k].seg = seg

\* A client that takes part stays where it is, holds nothing it should not and asks.
Deed(x, r) ==
  /\ r.client.seg = x.seg /\ r.client.state # "gone" /\ Parted(r.client)
  /\ Asks(r.out, x.seg)

LEMMA OneAsked ==
  ASSUME NEW op \in {"discover", "request"}, NEW c, NEW a, NEW s, NEW seg
  PROVE  Asks(<<Message(op, c, a, s, seg)>>, seg)
BY DEF Asks, Message

LEMMA NothingAsked == \A seg : Asks(<<>>, seg)
BY DEF Asks

LEMMA StartSays ==
  ASSUME NEW x \in ClientType, NEW c
  PROVE  Deed(x, Start(x, c)) /\ Start(x, c).client.state # "bound"
<1> DEFINE st == IF x.last = None THEN "discovering" ELSE "rebooting"
           y == [x EXCEPT !.ip = None, !.attempts = 1, !.state = st]
           op == IF x.last = None THEN "discover" ELSE "request"
<1>1. y.seg = x.seg /\ y.state = st /\ st \in {"discovering", "rebooting"}
  BY DEF ClientType
<1>2. op \in {"discover", "request"}
  OBVIOUS
<1>3. Start(x, c).client = y /\ Start(x, c).out = <<Message(op, c, x.last, None, x.seg)>>
  BY DEF Start
<1> HIDE DEF y, op, st
<1>4. QED BY <1>1, <1>2, <1>3, OneAsked DEF Deed, Parted

LEMMA RestartSays ==
  ASSUME NEW x \in ClientType, NEW c
  PROVE  Deed(x, Restart(x, c)) /\ Restart(x, c).client.state # "bound"
<1> DEFINE y == [x EXCEPT !.last = None]
<1>1. y \in ClientType /\ y.seg = x.seg
  BY DEF ClientType, MaybeAddr
<1>2. Restart(x, c) = Start(y, c)
  BY DEF Restart
<1> HIDE DEF y
<1>3. QED BY <1>1, <1>2, StartSays DEF Deed

LEMMA OnTimeoutSays ==
  ASSUME NEW x \in ClientType, NEW c, x.state \in Active
  PROVE  Deed(x, OnTimeout(x, c)) /\ OnTimeout(x, c).client.state # "bound"
<1>1. CASE x.state = "rebooting"
  BY <1>1, RestartSays DEF OnTimeout
<1>2. CASE x.state # "rebooting" /\ x.attempts < MaxAttempts
  <2> DEFINE y == [x EXCEPT !.attempts = @ + 1, !.state = "discovering"]
  <2>1. y.seg = x.seg /\ y.state = "discovering"
    BY DEF ClientType
  <2>2. OnTimeout(x, c).client = y /\ OnTimeout(x, c).out = <<Message("discover", c, None, None, x.seg)>>
    BY <1>2, <2>1 DEF OnTimeout, Discover, Does
  <2> HIDE DEF y
  <2>3. QED BY <2>1, <2>2, OneAsked DEF Deed, Parted
<1>3. CASE x.state # "rebooting" /\ ~ (x.attempts < MaxAttempts)
  <2> DEFINE y == [x EXCEPT !.state = "failed", !.last = None, !.ip = None]
  <2>1. y.seg = x.seg /\ y.state = "failed" /\ y.ip = None
    BY DEF ClientType
  <2>2. OnTimeout(x, c).client = y /\ OnTimeout(x, c).out = <<>>
    BY <1>3 DEF OnTimeout, Does
  <2> HIDE DEF y
  <2>3. QED BY <2>1, <2>2, NothingAsked DEF Deed, Parted
<1>4. QED BY <1>1, <1>2, <1>3

\* Whoever is bound after a frame has been so before it, and not been told to ask
\* again, or has it from this ACK.
LEMMA ClientHandleSays ==
  ASSUME NEW x \in ClientType, NEW c, NEW m \in Frames, Parted(x), x.state # "gone"
  PROVE  LET r == ClientHandle(x, c, m)
         IN  /\ Deed(x, r)
             /\ r.client.state = "bound" =>
                  (r.client = x /\ m.op # "forcerenew") \/ (m.op = "ack" /\ r.client.ip = m.ip)
<1> DEFINE r == ClientHandle(x, c, m)
<1>0. Deed(x, Does(x, <<>>)) /\ Does(x, <<>>).client = x
  BY NothingAsked DEF Deed, Does
<1>1. CASE m.op = "forcerenew"
  <2>1. r = Forced(x, c)
    BY <1>1 DEF ClientHandle
  <2>2. CASE x.state # "bound"
    BY <1>0, <2>1, <2>2 DEF Forced
  <2>3. CASE x.state = "bound"
    <3> DEFINE y == [x EXCEPT !.state = "requesting", !.attempts = 1]
    <3>1. y.seg = x.seg /\ y.state = "requesting"
      BY DEF ClientType
    <3>2. r.client = y /\ r.out = <<Message("request", c, x.ip, x.server, x.seg)>>
      BY <2>1, <2>3 DEF Forced, Does
    <3> HIDE DEF y, r
    <3>3. QED BY <3>1, <3>2, OneAsked DEF Deed, Parted, r
  <2>4. QED BY <2>2, <2>3
<1>2. CASE m.op = "offer" /\ m.cur
  <2>1. r = Offered(x, c, m)
    BY <1>2 DEF ClientHandle
  <2>2. CASE x.state # "discovering"
    BY <1>0, <1>2, <2>1, <2>2 DEF Offered
  <2>3. CASE x.state = "discovering"
    <3> DEFINE y == [x EXCEPT !.state = "requesting"]
    <3>1. y.seg = x.seg /\ y.state = "requesting"
      BY DEF ClientType
    <3>2. r.client = y /\ r.out = <<Message("request", c, m.ip, m.server, x.seg)>>
      BY <2>1, <2>3 DEF Offered, Does
    <3> HIDE DEF y, r
    <3>3. QED BY <3>1, <3>2, OneAsked DEF Deed, Parted, r
  <2>4. QED BY <2>2, <2>3
<1>3. CASE m.op = "ack" /\ m.cur
  <2>1. r = Acked(x, m)
    BY <1>3 DEF ClientHandle
  <2>2. CASE x.state \notin {"requesting", "rebooting"}
    BY <1>0, <1>3, <2>1, <2>2 DEF Acked
  <2>3. CASE x.state \in {"requesting", "rebooting"}
    <3> DEFINE y == [x EXCEPT !.state = "bound", !.ip = m.ip, !.last = m.ip, !.server = m.server]
    <3>1. y.seg = x.seg /\ y.state = "bound" /\ y.ip = m.ip
      BY DEF ClientType
    <3>2. r.client = y /\ r.out = <<>>
      BY <2>1, <2>3 DEF Acked, Does
    <3> HIDE DEF y, r
    <3>3. QED BY <1>3, <3>1, <3>2, NothingAsked DEF Deed, Parted, r
  <2>4. QED BY <2>2, <2>3
<1>4. CASE m.op = "nak" /\ m.cur
  <2>1. r = Naked(x, c)
    BY <1>4 DEF ClientHandle
  <2>2. QED BY <1>0, <1>4, <2>1, RestartSays DEF Naked
<1>5. CASE m.op # "forcerenew" /\ ~ (m.op \in {"offer", "ack", "nak"} /\ m.cur)
  <2>1. r = Does(x, <<>>)
    BY <1>5 DEF ClientHandle
  <2>2. QED BY <1>0, <1>5, <2>1
<1>6. QED BY <1>1, <1>2, <1>3, <1>4, <1>5

LEMMA GoneHears ==
  ASSUME NEW x, x.state = "gone", NEW c, NEW m
  PROVE  ClientHandle(x, c, m) = Does(x, <<>>)
<1>1. CASE m.op = "forcerenew"
  BY <1>1 DEF ClientHandle, Forced
<1>2. CASE m.op = "offer" /\ m.cur
  BY <1>2 DEF ClientHandle, Offered
<1>3. CASE m.op = "ack" /\ m.cur
  BY <1>3 DEF ClientHandle, Acked
<1>4. CASE m.op = "nak" /\ m.cur
  BY <1>4 DEF ClientHandle, Naked
<1>5. CASE m.op # "forcerenew" /\ ~ (m.op \in {"offer", "ack", "nak"} /\ m.cur)
  BY <1>5 DEF ClientHandle
<1>6. QED BY <1>1, <1>2, <1>3, <1>4, <1>5

\* A server grants what it then has leased, and takes a lease only back from who
\* gives it back.
Grants(y, m, r) ==
  /\ \A c \in Clients, a \in Addrs : y.leases[a] = c =>
       r.server.leases[a] = c \/ (m.op \notin {"discover", "request"} /\ m.mac = c)
  /\ \A k \in DOMAIN r.out : r.out[k].op = "ack" =>
       r.out[k].seg = m.seg /\ r.out[k].ip \in Addrs /\ r.server.leases[r.out[k].ip] = m.mac

LEMMA LeaseGrants ==
  ASSUME NEW y, GoodServer(y), NEW s, NEW m \in Frames, m.ip \in Addrs,
         y.offers[m.mac] = m.ip \/ y.leases[m.ip] = m.mac
  PROVE  Grants(y, m, Lease(y, s, m))
<1> DEFINE z == [y EXCEPT !.offers[m.mac] = None, !.leases[m.ip] = m.mac]
           f == [m EXCEPT !.op = "ack", !.server = s]
<1>1. y \in ServerType /\ OffersFit(y) /\ m.mac \in Clients /\ m \in Frame /\ None \notin Clients \cup Addrs
  BY DhcpAssumption DEF GoodServer, Frames, Frame
<1>2. y.leases[m.ip] \in {None, m.mac}
  BY <1>1 DEF OffersFit
<1>3. z.leases = [y.leases EXCEPT ![m.ip] = m.mac] /\ y.leases \in [Addrs -> Clients \cup {None}]
  BY <1>1 DEF ServerType
<1>4. f.seg = m.seg /\ f.ip = m.ip
  BY <1>1 DEF Frame
<1>5. Lease(y, s, m).server = z /\ Lease(y, s, m).out = <<f>>
  BY DEF Lease, Answers
<1> HIDE DEF z, f
<1>6. \A c \in Clients, a \in Addrs : y.leases[a] = c => z.leases[a] = c
  BY <1>1, <1>2, <1>3
<1>7. z.leases[m.ip] = m.mac
  BY <1>3
<1>8. QED BY <1>4, <1>5, <1>6, <1>7 DEF Grants

LEMMA NothingGranted ==
  ASSUME NEW y, NEW m, NEW z, z.leases = y.leases, NEW out, \A k \in DOMAIN out : out[k].op # "ack"
  PROVE  Grants(y, m, Answers(z, out))
BY DEF Grants, Answers

LEMMA NakGrants ==
  ASSUME NEW y, NEW s, NEW m \in Frames
  PROVE  Grants(y, m, Nak(y, s, m))
<1> DEFINE f == [m EXCEPT !.op = "nak", !.server = s]
<1>1. f.op = "nak"
  BY DEF Frames, Frame
<1> HIDE DEF f
<1>2. \A k \in DOMAIN <<f>> : <<f>>[k].op # "ack"
  BY <1>1
<1>3. QED BY <1>2, NothingGranted DEF Nak, f

LEMMA ServerHandleGrants ==
  ASSUME NEW y, GoodServer(y), NEW s \in Servers, NEW m \in Frames
  PROVE  Grants(y, m, ServerHandle(y, s, m))
<1>0. y \in ServerType /\ m \in Frame /\ m.mac \in Clients /\ None \notin Clients
  BY DhcpAssumption DEF GoodServer, Frames, Frame
<1>1. Grants(y, m, Answers(y, <<>>))
  BY NothingGranted
<1>2. CASE ~ y.enabled
  BY <1>1, <1>2 DEF ServerHandle
<1>3. CASE y.enabled /\ m.op = "discover"
  <2> DEFINE a == PickAddress(y, m.mac)
             z == [y EXCEPT !.offers[m.mac] = a]
             f == [m EXCEPT !.op = "offer", !.ip = a, !.server = s]
             out == IF a = None THEN <<>> ELSE <<f>>
  <2>1. z.leases = y.leases /\ f.op = "offer"
    BY <1>0 DEF ServerType, Frame
  <2>2. ServerHandle(y, s, m) = Answers(z, out)
    BY <1>3 DEF ServerHandle, HeardDiscover
  <2> HIDE DEF a, z, f
  <2>3. \A k \in DOMAIN out : out[k].op # "ack"
    BY <2>1
  <2> HIDE DEF out
  <2>4. QED BY <2>1, <2>2, <2>3, NothingGranted
<1>4. CASE y.enabled /\ m.op = "request"
  <2>0. ServerHandle(y, s, m) = HeardRequest(y, s, m) /\ m.ip \in Addrs
    BY <1>4 DEF ServerHandle, Frames, Named
  <2>1. CASE m.server = None
    <3> DEFINE lease == IF m.ip \in Pool[s] THEN y.leases[m.ip] ELSE None
    <3>0. HeardRequest(y, s, m) = HeardReboot(y, s, m)
      BY <2>1, DhcpAssumption DEF HeardRequest
    <3>1. CASE NetOf(m.ip) # place[s] \/ lease \notin {None, m.mac}
      <4>1. HeardReboot(y, s, m) = Nak(y, s, m)
        BY <3>1 DEF HeardReboot
      <4>2. QED BY <2>0, <3>0, <4>1, NakGrants
    <3>2. CASE NetOf(m.ip) = place[s] /\ lease = None
      <4>1. HeardReboot(y, s, m) = Answers(y, <<>>)
        BY <3>2 DEF HeardReboot
      <4>2. QED BY <1>1, <2>0, <3>0, <4>1
    <3>3. CASE NetOf(m.ip) = place[s] /\ lease \in {None, m.mac} /\ lease # None
      <4>1. HeardReboot(y, s, m) = Lease(y, s, m)
        BY <3>3 DEF HeardReboot
      <4>2. y.leases[m.ip] = m.mac
        BY <3>3
      <4>3. QED BY <2>0, <3>0, <4>1, <4>2, LeaseGrants
    <3>4. QED BY <3>1, <3>2, <3>3
  <2>2. CASE m.server \notin {None, s}
    <3> DEFINE z == [y EXCEPT !.offers[m.mac] = None]
    <3>1. HeardRequest(y, s, m) = Answers(z, <<>>)
      BY <2>2 DEF HeardRequest
    <3>2. z.leases = y.leases
      BY <1>0 DEF ServerType
    <3> HIDE DEF z
    <3>3. QED BY <2>0, <3>1, <3>2, NothingGranted
  <2>3. CASE m.server = s /\ (y.offers[m.mac] = m.ip \/ y.leases[m.ip] = m.mac)
    <3>1. HeardRequest(y, s, m) = Lease(y, s, m)
      BY <2>3, DhcpAssumption DEF HeardRequest
    <3>2. QED BY <2>0, <2>3, <3>1, LeaseGrants
  <2>4. CASE m.server = s /\ ~ (y.offers[m.mac] = m.ip \/ y.leases[m.ip] = m.mac)
    <3>1. HeardRequest(y, s, m) = Nak(y, s, m)
      BY <2>4, DhcpAssumption DEF HeardRequest
    <3>2. QED BY <2>0, <3>1, NakGrants
  <2>5. QED BY <2>1, <2>2, <2>3, <2>4
<1>5. CASE y.enabled /\ m.op \notin {"discover", "request"}
  <2>0. ServerHandle(y, s, m) = HeardRelease(y, m)
    BY <1>5 DEF ServerHandle
  <2>1. CASE y.leases[m.ip] = m.mac
    <3> DEFINE z == [y EXCEPT !.leases[m.ip] = None]
    <3>1. HeardRelease(y, m) = Answers(z, <<>>)
      BY <2>1 DEF HeardRelease
    <3>2. z.leases = [y.leases EXCEPT ![m.ip] = None] /\ y.leases \in [Addrs -> Clients \cup {None}]
      BY <1>0 DEF ServerType
    <3> HIDE DEF z
    <3>3. \A c \in Clients, a \in Addrs : y.leases[a] = c => z.leases[a] = c \/ m.mac = c
      BY <2>1, <3>2
    <3>4. QED BY <1>5, <2>0, <3>1, <3>3 DEF Grants, Answers
  <2>2. CASE y.leases[m.ip] # m.mac
    BY <1>1, <2>0, <2>2 DEF HeardRelease
  <2>3. QED BY <2>1, <2>2
<1>6. QED BY <1>2, <1>3, <1>4, <1>5

-------------------------------------------------------------------------------
(* The actions keep what the addresses held rest on *)

LEMMA Weaker ==
  ASSUME NEW B, NEW C, NEW c, \A a, seg : <<c, a, seg>> \in B => <<c, a, seg>> \in C, NEW x, NEW q
  PROVE  /\ HeldTrue(B, c, x, q) => HeldTrue(C, c, x, q)
         /\ AcksTrue(B, c, q) => AcksTrue(C, c, q)
BY DEF HeldTrue, AcksTrue

LEMMA ActedInbox ==
  ASSUME NEW c \in Clients, NEW r, NEW box \in [Stations -> Seq(Frames)], ClientActs(c, r, box)
  PROVE  /\ \A d \in Clients : Alike(box[d], inbox'[d])
         /\ \A s \in Servers : \E q : /\ Alike(box[s], q)
                                      /\ inbox'[s] = IF place[s] = r.client.seg THEN q \o r.out ELSE q
<1> DEFINE b == IF r.fresh THEN [n \in DOMAIN box |-> Stale(box[n], c)] ELSE box
<1>1. inbox' = Broadcast(b, r.client.seg, r.out)
  BY DEF ClientActs
<1>2. DOMAIN b = Stations /\ \A n \in Stations : Alike(box[n], b[n])
  <2>1. \A n \in Stations : Alike(box[n], box[n])
    BY DEF Alike
  <2>2. \A n \in Stations : Alike(box[n], Stale(box[n], c))
    BY StaleAlike
  <2>3. QED BY <2>1, <2>2
<1> HIDE DEF b
<1>3. \A n \in Stations : inbox'[n] = IF n \in Servers /\ place[n] = r.client.seg THEN b[n] \o r.out ELSE b[n]
  BY <1>1, <1>2 DEF Broadcast
<1>4. \A d \in Clients : d \in Stations /\ d \notin Servers
  BY DhcpAssumption DEF Stations
<1>5. \A s \in Servers : s \in Stations
  BY DEF Stations
<1>6. QED BY <1>2, <1>3, <1>4, <1>5

\* A client that takes part does something.
LEMMA ClientActsLInv ==
  ASSUME IInv, LInv, NEW c \in Clients, client[c].state # "gone", NEW r, GoodDeed(r),
         r.client.state # "gone", Parted(r.client), Asks(r.out, r.client.seg),
         NEW box \in [Stations -> Seq(Frames)], \A n \in Stations \ {c} : box[n] = inbox[n],
         ~ lost => HeldTrue(Backing, c, r.client, box[c]) /\ AcksTrue(Backing, c, box[c]),
         ClientActs(c, r, box), server' = server, place' = place, revoked' = revoked, lost' = lost
  PROVE  LInv'
<1>1. /\ \A d \in Clients : Alike(box[d], inbox'[d])
      /\ \A s \in Servers : \E q : /\ Alike(box[s], q)
                                   /\ inbox'[s] = IF place[s] = r.client.seg THEN q \o r.out ELSE q
  BY ActedInbox
<1>2. client' = [client EXCEPT ![c] = r.client] /\ client \in [Clients -> ClientType]
  BY DEF ClientActs, IInv
<1>3. client'[c] = r.client /\ \A d \in Clients : d # c => client'[d] = client[d]
  BY <1>2
<1>4. Gone' = Gone
  BY <1>3 DEF Gone
<1>5. Backing' = Backing
  BY DEF Backing
<1>6. r.out \in Seq(Frames) /\ \A G : Asked(r.client.seg, G, r.out)
  BY DEF GoodDeed, Asked, Asks
<1>7. ASSUME NEW s \in Servers PROVE Asked(place'[s], Gone', inbox'[s])
  <2>1. s \in Stations /\ s # c
    BY DhcpAssumption DEF Stations
  <2>2. Asked(place[s], Gone, box[s])
    BY <2>1 DEF LInv
  <2>3. PICK q : Alike(box[s], q) /\ inbox'[s] = IF place[s] = r.client.seg THEN q \o r.out ELSE q
    BY <1>1
  <2>4. Asked(place[s], Gone, q) /\ q \in Seq(Frames)
    BY <2>2, <2>3, AlikeTrue DEF Alike
  <2>5. place[s] = r.client.seg => Asked(place[s], Gone, q \o r.out)
    BY <1>6, <2>4, ConcatTrue
  <2>6. QED BY <1>4, <2>3, <2>4, <2>5
<1>8. \A d \in Clients : Parted(client'[d])
  BY <1>3 DEF LInv
<1>9. ASSUME ~ lost, NEW d \in Clients, client'[d].state # "gone"
      PROVE  HeldTrue(Backing, d, client'[d], inbox'[d]) /\ AcksTrue(Backing, d, inbox'[d])
  <2>1. HeldTrue(Backing, d, client'[d], box[d]) /\ AcksTrue(Backing, d, box[d])
    <3>1. CASE d = c
      BY <1>3, <1>9, <3>1
    <3>2. CASE d # c
      <4>1. d \in Stations
        BY DEF Stations
      <4>2. QED BY <1>3, <1>9, <3>2, <4>1 DEF LInv
    <3>3. QED BY <3>1, <3>2
  <2>2. Alike(box[d], inbox'[d])
    BY <1>1
  <2>3. QED BY <2>1, <2>2, AlikeTrue DEF HeldTrue
<1>10. (\A s \in Servers : Asked(place[s], Gone, inbox[s]))'
  BY <1>7
<1>11. (\A d \in Clients : Parted(client[d]))'
  BY <1>8
<1>12. (~ lost => \A d \in Clients : client[d].state # "gone" =>
          HeldTrue(Backing, d, client[d], inbox[d]) /\ AcksTrue(Backing, d, inbox[d]))'
  BY <1>5, <1>9
<1>13. QED BY <1>10, <1>11, <1>12 DEF LInv

\* Nothing is done but that frames are taken from or lost on the way to n.
LEMMA TakenLInv ==
  ASSUME IInv, LInv, NEW n \in Stations, inbox[n] # <<>>, inbox' = [inbox EXCEPT ![n] = Tail(@)],
         client' = client, server' = server, place' = place, revoked' = revoked,
         lost' \/ (lost' = lost /\ client[n].state = "gone")
  PROVE  LInv'
<1>1. inbox[n] \in Seq(Frames) /\ inbox'[n] = Tail(inbox[n]) /\ \A i \in Stations \ {n} : inbox'[i] = inbox[i]
  BY DEF IInv, InboxType
<1>2. Gone' = Gone /\ Backing' = Backing
  BY DEF Gone, Backing
<1>3. ASSUME NEW s \in Servers PROVE Asked(place'[s], Gone', inbox'[s])
  <2>1. Asked(place[s], Gone, inbox[s]) /\ s \in Stations
    BY DEF LInv, Stations
  <2>2. QED BY <1>1, <1>2, <2>1, TailTrue
<1>4. (\A s \in Servers : Asked(place[s], Gone, inbox[s]))'
  BY <1>3
<1>5. (\A d \in Clients : Parted(client[d]))'
  BY DEF LInv
<1>6. ASSUME ~ lost', NEW d \in Clients, client[d].state # "gone"
      PROVE  HeldTrue(Backing, d, client[d], inbox'[d]) /\ AcksTrue(Backing, d, inbox'[d])
  BY <1>1, <1>6 DEF LInv, Stations
<1>7. (~ lost => \A d \in Clients : client[d].state # "gone" =>
          HeldTrue(Backing, d, client[d], inbox[d]) /\ AcksTrue(Backing, d, inbox[d]))'
  BY <1>2, <1>6
<1>8. QED BY <1>4, <1>5, <1>7 DEF LInv

LEMMA ClientReceivesLInv ==
  ASSUME IInv, LInv, NEW c \in Clients, ClientReceives(c)
  PROVE  LInv'
<1> DEFINE x == client[c]
           m == Head(inbox[c])
           r == IF m.seg = x.seg THEN ClientHandle(x, c, m) ELSE Does(x, <<>>)
           box == [inbox EXCEPT ![c] = Tail(@)]
<1>0. c \in Stations /\ inbox \in [Stations -> Seq(Frames)] /\ inbox[c] # <<>> /\ inbox[c] \in Seq(Frames)
  BY DEF Stations, IInv, InboxType, ClientReceives
<1>1. m \in Frames /\ box \in [Stations -> Seq(Frames)]
  BY <1>0, HeadFrame
<1>2. x \in ClientType /\ GoodClient(x) /\ Parted(x)
  BY DEF IInv, LInv
<1>3. /\ ClientActs(c, r, box) /\ server' = server /\ place' = place /\ revoked' = revoked /\ lost' = lost
  BY DEF ClientReceives
<1>4. CASE x.state = "gone"
  <2>1. r = Does(x, <<>>)
    BY <1>4, GoneHears
  <2>2. client' = [client EXCEPT ![c] = x] /\ inbox' = Broadcast(box, x.seg, <<>>)
    <3>1. r.client = x /\ r.out = <<>> /\ ~ r.fresh
      BY <2>1 DEF Does
    <3> HIDE DEF r, box, x
    <3>2. QED BY <1>3, <3>1 DEF ClientActs
  <2>3. client' = client
    BY <2>2 DEF IInv
  <2>4. inbox' = box
    <3>1. \A n \in Stations : box[n] \o <<>> = box[n]
      BY <1>1, ConcatEmptySeq
    <3> HIDE DEF box
    <3>2. QED BY <1>1, <2>2, <3>1 DEF Broadcast
  <2>5. QED BY <1>0, <1>3, <1>4, <2>3, <2>4, TakenLInv
<1>5. CASE x.state # "gone"
  <2>1. GoodDeed(r)
    BY <1>1, <1>2, ClientHandleGood, DoesNothing
  <2>2. /\ Deed(x, r)
        /\ r.client.state = "bound" => \/ r.client = x /\ ~ (m.op = "forcerenew" /\ m.seg = x.seg)
                                       \/ m.op = "ack" /\ r.client.ip = m.ip /\ m.seg = x.seg
    <3>1. CASE m.seg = x.seg
      BY <1>1, <1>2, <1>5, <3>1, ClientHandleSays
    <3>2. CASE m.seg # x.seg
      BY <1>2, <1>5, <3>2, NothingAsked DEF Deed, Does
    <3>3. QED BY <3>1, <3>2
  <2>3. box[c] = Tail(inbox[c]) /\ \A n \in Stations \ {c} : box[n] = inbox[n]
    BY <1>0
  <2> HIDE DEF box, r
  <2>4. ASSUME ~ lost PROVE HeldTrue(Backing, c, r.client, box[c]) /\ AcksTrue(Backing, c, box[c])
    <3>1. HeldTrue(Backing, c, x, inbox[c]) /\ AcksTrue(Backing, c, inbox[c])
      BY <1>5, <2>4 DEF LInv
    <3>2. AcksTrue(Backing, c, box[c])
      BY <1>0, <2>3, <3>1, TailTrue
    <3>3. ASSUME r.client.state = "bound"
          PROVE  <<c, r.client.ip, r.client.seg>> \in Backing \/ Recall(box[c], 0, r.client.seg)
      <4>1. CASE r.client = x /\ ~ (m.op = "forcerenew" /\ m.seg = x.seg)
        <5>1. <<c, x.ip, x.seg>> \in Backing \/ Recall(inbox[c], 0, x.seg)
          BY <3>1, <3>3, <4>1 DEF HeldTrue
        <5>2. Recall(inbox[c], 0, x.seg) => Recall(box[c], 0, x.seg)
          BY <1>0, <2>3, <4>1, TailTrue
        <5>3. QED BY <4>1, <5>1, <5>2
      <4>2. CASE m.op = "ack" /\ r.client.ip = m.ip /\ m.seg = x.seg
        <5>1. 1 \in DOMAIN inbox[c] /\ inbox[c][1] = m
          BY <1>0, EmptySeq, LenProperties, HeadTailProperties
        <5>2. <<c, m.ip, m.seg>> \in Backing \/ Recall(inbox[c], 1, m.seg)
          BY <3>1, <4>2, <5>1 DEF AcksTrue
        <5>3. Recall(inbox[c], 1, m.seg) => Recall(box[c], 0, m.seg)
          BY <1>0, <2>3, TailTrue
        <5>4. r.client.seg = x.seg
          BY <2>2 DEF Deed
        <5>5. QED BY <4>2, <5>2, <5>3, <5>4
      <4>3. QED BY <2>2, <3>3, <4>1, <4>2
    <3>4. QED BY <3>2, <3>3 DEF HeldTrue
  <2>5. r.client.state # "gone" /\ Parted(r.client) /\ Asks(r.out, r.client.seg)
    BY <2>2 DEF Deed
  <2>6. QED BY <1>1, <1>3, <1>5, <2>1, <2>3, <2>4, <2>5, ClientActsLInv DEF box, r
<1>6. QED BY <1>4, <1>5

\* A client that begins anew holds nothing.
LEMMA AnewLInv ==
  ASSUME IInv, LInv, NEW c \in Clients, client[c].state # "gone", NEW x, NEW r, GoodDeed(r), Deed(x, r),
         r.client.state # "bound", ClientActs(c, r, inbox),
         server' = server, place' = place, revoked' = revoked, lost' = lost
  PROVE  LInv'
<1>1. inbox \in [Stations -> Seq(Frames)] /\ \A n \in Stations \ {c} : inbox[n] = inbox[n]
  BY DEF IInv, InboxType
<1>2. r.client.state # "gone" /\ Parted(r.client) /\ Asks(r.out, r.client.seg)
  BY DEF Deed
<1>3. ~ lost => HeldTrue(Backing, c, r.client, inbox[c]) /\ AcksTrue(Backing, c, inbox[c])
  BY DEF LInv, HeldTrue
<1>4. QED BY <1>1, <1>2, <1>3, ClientActsLInv

LEMMA ServerReceivesLInv ==
  ASSUME IInv, LInv, NEW s \in Servers, ServerReceives(s)
  PROVE  LInv'
<1> DEFINE y == server[s]
           m == Head(inbox[s])
           c == m.mac
           r == ServerHandle(y, s, m)
<1>0. s \in Stations /\ inbox \in [Stations -> Seq(Frames)] /\ inbox[s] # <<>> /\ inbox[s] \in Seq(Frames)
      /\ server \in [Servers -> ServerType]
  BY DEF Stations, IInv, InboxType, ServerReceives
<1>1. m \in Frames /\ GoodServer(y)
  BY <1>0, HeadFrame DEF IInv
<1>2. c \in Clients /\ c \in Stations /\ c # s /\ m.seg \in Segs \cup {None}
  BY <1>1, DhcpAssumption DEF Frames, Frame, Stations
<1>3. Grants(y, m, r) /\ r.out \in Seq(Frames)
  BY <1>1, ServerHandleGrants, ServerHandleGood DEF GoodAnswer
<1>4. /\ server' = [server EXCEPT ![s] = r.server]
      /\ inbox' = [inbox EXCEPT ![s] = Tail(@), ![c] = @ \o r.out]
      /\ client' = client /\ place' = place /\ revoked' = revoked /\ lost' = lost
  BY DEF ServerReceives
<1>5. m.seg = place[s] /\ (m.op \in {"discover", "request"} \/ client[c].state = "gone")
  <2>1. 1 \in DOMAIN inbox[s] /\ inbox[s][1] = m
    BY <1>0, EmptySeq, LenProperties, HeadTailProperties
  <2>2. QED BY <2>1 DEF LInv, Asked, Gone
<1> HIDE DEF m, c, r
<1>6. /\ inbox'[s] = Tail(inbox[s]) /\ inbox'[c] = inbox[c] \o r.out
      /\ \A i \in Stations \ {s, c} : inbox'[i] = inbox[i]
  BY <1>0, <1>2, <1>4
<1>7. server'[s] = r.server /\ \A i \in Servers \ {s} : server'[i] = server[i]
  BY <1>0, <1>4
<1>8. Gone' = Gone
  BY <1>4 DEF Gone
<1>9. ASSUME NEW d \in Clients, client[d].state # "gone", NEW a, NEW g, <<d, a, g>> \in Backing
      PROVE  <<d, a, g>> \in Backing'
  <2>1. a \in Addrs /\ g \in Segs \cup {None}
    BY <1>9 DEF Backing
  <2>2. CASE <<d, a>> \in revoked
    BY <1>4, <1>9, <2>1, <2>2 DEF Backing
  <2>3. CASE \E i \in Servers : place[i] = g /\ server[i].leases[a] = d
    <3>1. PICK i \in Servers : place[i] = g /\ server[i].leases[a] = d
      BY <2>3
    <3>2. server'[i].leases[a] = d
      <4>1. CASE i = s
        BY <1>3, <1>5, <1>7, <1>9, <2>1, <3>1, <4>1 DEF Grants, c
      <4>2. CASE i # s
        BY <1>7, <3>1, <4>2
      <4>3. QED BY <4>1, <4>2
    <3>3. QED BY <1>4, <1>9, <2>1, <3>1, <3>2 DEF Backing
  <2>4. QED BY <1>9, <2>2, <2>3 DEF Backing
<1>10. ASSUME NEW k \in DOMAIN r.out, r.out[k].op = "ack"
       PROVE  <<c, r.out[k].ip, r.out[k].seg>> \in Backing'
  <2>1. r.out[k].seg = place'[s] /\ r.out[k].seg \in Segs \cup {None} /\ r.out[k].ip \in Addrs
        /\ server'[s].leases[r.out[k].ip] = c
    BY <1>2, <1>3, <1>4, <1>5, <1>7, <1>10 DEF Grants, c
  <2>2. QED BY <1>2, <2>1 DEF Backing
<1>11. ASSUME NEW i \in Servers PROVE Asked(place'[i], Gone', inbox'[i])
  <2>1. Asked(place[i], Gone, inbox[i]) /\ i \in Stations /\ i # c
    BY <1>2, DhcpAssumption DEF LInv, Stations
  <2>2. QED BY <1>0, <1>4, <1>6, <1>8, <2>1, TailTrue
<1>12. ASSUME ~ lost, NEW d \in Clients, client[d].state # "gone"
       PROVE  HeldTrue(Backing', d, client[d], inbox'[d]) /\ AcksTrue(Backing', d, inbox'[d])
  <2>1. HeldTrue(Backing, d, client[d], inbox[d]) /\ AcksTrue(Backing, d, inbox[d])
    BY <1>12 DEF LInv
  <2>2. HeldTrue(Backing', d, client[d], inbox[d]) /\ AcksTrue(Backing', d, inbox[d])
    BY <1>9, <1>12, <2>1, Weaker
  <2>3. d \in Stations /\ d # s /\ inbox[d] \in Seq(Frames)
    BY <1>0, DhcpAssumption DEF Stations
  <2>4. CASE d = c
    <3>1. AcksTrue(Backing', d, inbox'[d])
      BY <1>3, <1>6, <1>10, <2>2, <2>3, <2>4, ConcatTrue
    <3>2. \A g : Recall(inbox[d], 0, g) => Recall(inbox'[d], 0, g)
      BY <1>3, <1>6, <2>3, <2>4, ConcatTrue
    <3>3. QED BY <2>2, <3>1, <3>2 DEF HeldTrue
  <2>5. CASE d # c
    BY <1>6, <2>2, <2>3, <2>5
  <2>6. QED BY <2>4, <2>5
<1>13. (\A i \in Servers : Asked(place[i], Gone, inbox[i]))'
  BY <1>11
<1>14. (\A d \in Clients : Parted(client[d]))'
  BY <1>4 DEF LInv
<1>15. (~ lost => \A d \in Clients : client[d].state # "gone" =>
          HeldTrue(Backing, d, client[d], inbox[d]) /\ AcksTrue(Backing, d, inbox[d]))'
  BY <1>4, <1>12
<1>16. QED BY <1>13, <1>14, <1>15 DEF LInv

\* Nothing is under way but that frames no client is bound by go to the servers.
LEMMA LeavesLInv ==
  ASSUME IInv, LInv, NEW c \in Clients, NEW x \in ClientType, x.state \in {"idle", "gone"}, x.ip = None,
         x.state = "gone" => x.seg = None, client[c].state = "gone" => x.state = "gone",
         client' = [client EXCEPT ![c] = x], NEW seg, NEW out \in Seq(Frames),
         \A k \in DOMAIN out : out[k].seg = seg /\ out[k].mac = c, out = <<>> \/ x.state = "gone",
         inbox' = Broadcast(inbox, seg, out),
         server' = server, place' = place, revoked' = revoked, lost' = lost
  PROVE  LInv'
<1>1. inbox \in [Stations -> Seq(Frames)] /\ client \in [Clients -> ClientType]
  BY DEF IInv, InboxType
<1>2. client'[c] = x /\ \A d \in Clients \ {c} : client'[d] = client[d]
  BY <1>1
<1>3. Gone \subseteq Gone' /\ (x.state = "gone" => c \in Gone')
  BY <1>2 DEF Gone
<1>4. Backing' = Backing
  BY DEF Backing
<1>5. \A n \in Stations : inbox'[n] = IF n \in Servers /\ place[n] = seg THEN inbox[n] \o out ELSE inbox[n]
  BY <1>1 DEF Broadcast
<1>6. ASSUME NEW s \in Servers PROVE Asked(place'[s], Gone', inbox'[s])
  <2>1. Asked(place[s], Gone', inbox[s]) /\ s \in Stations
    BY <1>3 DEF LInv, Asked, Stations
  <2>2. place[s] = seg => Asked(place[s], Gone', out)
    BY <1>3 DEF Asked
  <2>3. place[s] = seg => Asked(place[s], Gone', inbox[s] \o out)
    BY <1>1, <2>1, <2>2, ConcatTrue
  <2>4. QED BY <1>5, <2>1, <2>3
<1>7. \A d \in Clients : Parted(client'[d])
  BY <1>2 DEF LInv, Parted
<1>8. ASSUME ~ lost, NEW d \in Clients, client'[d].state # "gone"
      PROVE  HeldTrue(Backing, d, client'[d], inbox'[d]) /\ AcksTrue(Backing, d, inbox'[d])
  <2>1. inbox'[d] = inbox[d]
    BY <1>5, DhcpAssumption DEF Stations
  <2>2. CASE d = c
    BY <1>2, <1>8, <2>1, <2>2 DEF LInv, HeldTrue
  <2>3. CASE d # c
    BY <1>2, <1>8, <2>1, <2>3 DEF LInv
  <2>4. QED BY <2>2, <2>3
<1>9. (\A s \in Servers : Asked(place[s], Gone, inbox[s]))'
  BY <1>6
<1>10. (\A d \in Clients : Parted(client[d]))'
  BY <1>7
<1>11. (~ lost => \A d \in Clients : client[d].state # "gone" =>
          HeldTrue(Backing, d, client[d], inbox[d]) /\ AcksTrue(Backing, d, inbox[d]))'
  BY <1>4, <1>8
<1>12. QED BY <1>9, <1>10, <1>11 DEF LInv

LEMMA UnplugLInv ==
  ASSUME IInv, LInv, NEW c \in Clients, Unplug(c)
  PROVE  LInv'
<1> DEFINE x == [Stop(client[c]) EXCEPT !.seg = None]
<1>1. client[c] \in ClientType /\ client[c].state # "gone"
  BY DEF IInv, LInv, Parted, Unplug
<1>2. x \in ClientType /\ x.state = "idle" /\ x.ip = None
  <2>1. Stop(client[c]) \in ClientType /\ Stop(client[c]).state = "idle" /\ Stop(client[c]).ip = None
    BY <1>1, StopType
  <2>2. QED BY <2>1 DEF ClientType
<1>3. /\ client' = [client EXCEPT ![c] = x] /\ inbox' = inbox
      /\ server' = server /\ place' = place /\ revoked' = revoked /\ lost' = lost
  BY DEF Unplug
<1> HIDE DEF x
<1> DEFINE out == <<>>
<1>4. inbox' = Broadcast(inbox, None, out)
  <2>1. inbox \in [Stations -> Seq(Frames)]
    BY DEF IInv, InboxType
  <2>2. \A n \in Stations : inbox[n] \o <<>> = inbox[n]
    BY <2>1, ConcatEmptySeq
  <2>3. QED BY <1>3, <2>1, <2>2 DEF Broadcast
<1>5. out \in Seq(Frames) /\ \A k \in DOMAIN out : out[k].seg = None /\ out[k].mac = c
  BY NoFrame
<1>6. out = <<>> \/ x.state = "gone"
  OBVIOUS
<1>7. (x.state = "gone" => x.seg = None) /\ (client[c].state = "gone" => x.state = "gone")
      /\ x.state \in {"idle", "gone"}
  BY <1>1, <1>2
<1> HIDE DEF out
<1>8. QED BY ZenonT(60), <1>2, <1>3, <1>4, <1>5, <1>6, <1>7, LeavesLInv

LEMMA RemoveLInv ==
  ASSUME IInv, LInv, NEW c \in Clients, Remove(c)
  PROVE  LInv'
<1> DEFINE y == client[c]
           m == Message("release", c, y.ip, y.server, y.seg)
           bye == IF y.state = "bound" THEN <<m>> ELSE <<>>
           x == [Stop(y) EXCEPT !.seg = None, !.last = None, !.state = "gone"]
<1>1. y \in ClientType /\ y.state # "gone"
  BY DEF IInv, LInv, Parted, Remove
<1>2. x \in ClientType /\ x.state = "gone" /\ x.ip = None /\ x.seg = None
  <2>1. Stop(y) \in ClientType /\ Stop(y).state = "idle" /\ Stop(y).ip = None
    BY <1>1, StopType
  <2>2. QED BY <2>1 DEF ClientType, MaybeAddr
<1>3. bye \in Seq(Frames) /\ \A k \in DOMAIN bye : bye[k].seg = y.seg /\ bye[k].mac = c
  <2>1. m \in Frames
    BY <1>1, MessageFrame DEF ClientType, IInv, GoodClient
  <2>2. m.seg = y.seg /\ m.mac = c
    BY DEF Message
  <2> HIDE DEF m
  <2>3. QED BY <2>1, <2>2, FrameSeq, NoFrame
<1>4. /\ client' = [client EXCEPT ![c] = x] /\ inbox' = Broadcast(inbox, y.seg, bye)
      /\ server' = server /\ place' = place /\ revoked' = revoked /\ lost' = lost
  BY DEF Remove
<1> HIDE DEF x, bye, y
<1>5. QED BY ZenonT(60), <1>2, <1>3, <1>4, LeavesLInv

LEMMA SetDhcpServerLInv ==
  ASSUME IInv, LInv, NEW s \in Servers, SetDhcpServer(s)
  PROVE  LInv'
<1> DEFINE old == server[s].leases
           gone == {<<old[a], a>> : a \in {b \in Addrs : old[b] # server'[s].leases[b]}}
<1>1. PICK y : /\ server' = [server EXCEPT ![s] = y]
               /\ revoked' = revoked \cup {<<old[a], a>> : a \in {b \in Addrs : old[b] # y.leases[b]}}
  BY DEF SetDhcpServer
<1>2. server'[s] = y /\ \A t \in Servers \ {s} : server'[t] = server[t]
  BY <1>1 DEF IInv
<1>3. revoked' = revoked \cup gone
  BY <1>1, <1>2
<1>4. client' = client /\ place' = place /\ inbox' = inbox /\ lost' = lost
  BY DEF SetDhcpServer
<1>5. Gone' = Gone
  BY <1>4 DEF Gone
<1>6. ASSUME NEW c, NEW a, NEW g, <<c, a, g>> \in Backing
      PROVE  <<c, a, g>> \in Backing'
  <2>1. c \in Clients /\ a \in Addrs /\ g \in Segs \cup {None}
    BY <1>6 DEF Backing
  <2>2. CASE <<c, a>> \in revoked
    BY <1>3, <2>1, <2>2 DEF Backing
  <2>3. CASE \E t \in Servers : place[t] = g /\ server[t].leases[a] = c
    <3>1. PICK t \in Servers : place[t] = g /\ server[t].leases[a] = c
      BY <2>3
    <3>2. CASE server'[t].leases[a] = c
      BY <1>4, <2>1, <3>1, <3>2 DEF Backing
    <3>3. CASE server'[t].leases[a] # c
      <4>1. t = s
        BY <1>2, <3>1, <3>3
      <4>2. <<c, a>> \in gone
        BY <2>1, <3>1, <3>3, <4>1
      <4>3. QED BY <1>3, <2>1, <4>2 DEF Backing
    <3>4. QED BY <3>2, <3>3
  <2>4. QED BY <1>6, <2>2, <2>3 DEF Backing
<1>7. (\A t \in Servers : Asked(place[t], Gone, inbox[t]))'
  BY <1>4, <1>5 DEF LInv
<1>8. (\A d \in Clients : Parted(client[d]))'
  BY <1>4 DEF LInv
<1>9. ASSUME ~ lost, NEW d \in Clients, client[d].state # "gone"
      PROVE  HeldTrue(Backing', d, client[d], inbox[d]) /\ AcksTrue(Backing', d, inbox[d])
  <2>1. HeldTrue(Backing, d, client[d], inbox[d]) /\ AcksTrue(Backing, d, inbox[d])
    BY <1>9 DEF LInv
  <2>2. QED BY <1>6, <2>1, Weaker
<1>10. (~ lost => \A d \in Clients : client[d].state # "gone" =>
          HeldTrue(Backing, d, client[d], inbox[d]) /\ AcksTrue(Backing, d, inbox[d]))'
  BY <1>4, <1>9
<1>11. QED BY <1>7, <1>8, <1>10 DEF LInv

\* What is appended to the frames of a client comes after all of them.
LEMMA AppendedRecall ==
  ASSUME NEW q \in Seq(Frames), NEW m \in Frames, m.op = "forcerenew"
  PROVE  /\ \A k, g : Recall(q, k, g) => Recall(q \o <<m>>, k, g)
         /\ \A k \in 0 .. Len(q) : Recall(q \o <<m>>, k, m.seg)
         /\ DOMAIN q = 1 .. Len(q)
         /\ \A k \in DOMAIN (q \o <<m>>) : (k \in DOMAIN q /\ (q \o <<m>>)[k] = q[k]) \/ (q \o <<m>>)[k] = m
<1> DEFINE p == q \o <<m>>
<1>1. p = Append(q, m)
  BY AppendIsConcat
<1>2. /\ Len(q) \in Nat /\ DOMAIN q = 1 .. Len(q) /\ DOMAIN p = 1 .. Len(q) + 1
      /\ p[Len(q) + 1] = m /\ \A k \in 1 .. Len(q) : p[k] = q[k]
  BY <1>1, LenProperties, AppendProperties
<1> HIDE DEF p
<1>3. \A k, g : Recall(q, k, g) => Recall(p, k, g)
  BY <1>2 DEF Recall
<1>4. \A k \in 0 .. Len(q) : Recall(p, k, m.seg)
  <2> SUFFICES ASSUME NEW k \in 0 .. Len(q) PROVE Recall(p, k, m.seg)
    OBVIOUS
  <2>1. Len(q) + 1 \in DOMAIN p /\ Len(q) + 1 > k
    BY <1>2
  <2>2. QED BY <1>2, <2>1 DEF Recall
<1>5. \A k \in DOMAIN p : (k \in DOMAIN q /\ p[k] = q[k]) \/ p[k] = m
  BY <1>2
<1>6. QED BY <1>2, <1>3, <1>4, <1>5 DEF p

\* The address taken back loses its backing, and the word of it follows whatever
\* has been acknowledged before.
LEMMA RenumberLInv ==
  ASSUME IInv, LInv, NEW s \in Servers, NEW a \in Addrs, Renumber(s, a)
  PROVE  LInv'
<1> DEFINE c == server[s].leases[a]
           m == Message("forcerenew", c, a, s, place[s])
           z == [server[s] EXCEPT !.leases[a] = None, !.avoid[c] = a]
<1>1. /\ server \in [Servers -> ServerType] /\ server[s] \in ServerType /\ place \in [Servers -> Segs]
      /\ inbox \in [Stations -> Seq(Frames)]
  BY DEF IInv, InboxType, ContextType
<1>2. c \in Clients /\ c \in Stations
  BY <1>1 DEF Renumber, ServerType, Stations
<1>3. \A b \in Addrs : z.leases[b] = IF b = a THEN None ELSE server[s].leases[b]
  <2>1. z.leases = [server[s].leases EXCEPT ![a] = None]
    BY <1>1 DEF ServerType
  <2>2. server[s].leases \in [Addrs -> Clients \cup {None}]
    BY <1>1 DEF ServerType
  <2> HIDE DEF z
  <2>3. QED BY <2>1, <2>2
<1>4. m \in Frames /\ m.op = "forcerenew" /\ m.seg = place[s]
  BY <1>1, <1>2, MessageFrame DEF MaybeAddr, Message
<1>5. /\ server' = [server EXCEPT ![s] = z]
      /\ inbox' = [inbox EXCEPT ![c] = Append(@, m)]
      /\ client' = client /\ place' = place /\ revoked' = revoked /\ lost' = lost
  BY DEF Renumber
<1> HIDE DEF m, z, c
<1>6. server'[s] = z /\ \A t \in Servers \ {s} : server'[t] = server[t]
  BY <1>1, <1>5
<1>7. inbox'[c] = inbox[c] \o <<m>> /\ \A n \in Stations \ {c} : inbox'[n] = inbox[n]
  <2>1. inbox'[c] = Append(inbox[c], m) /\ inbox[c] \in Seq(Frames)
    BY <1>1, <1>2, <1>5
  <2>2. Append(inbox[c], m) = inbox[c] \o <<m>>
    BY <1>4, <2>1, AppendIsConcat
  <2>3. QED BY <1>1, <1>2, <1>5, <2>1, <2>2
<1>8. Gone' = Gone
  BY <1>5 DEF Gone
<1>9. ASSUME NEW d, NEW b, NEW g, <<d, b, g>> \in Backing
      PROVE  <<d, b, g>> \in Backing' \/ (d = c /\ b = a /\ g = place[s])
  <2>1. d \in Clients /\ b \in Addrs /\ g \in Segs \cup {None}
    BY <1>9 DEF Backing
  <2>2. CASE <<d, b>> \in revoked
    BY <1>5, <2>1, <2>2 DEF Backing
  <2>3. CASE \E t \in Servers : place[t] = g /\ server[t].leases[b] = d
    <3>1. PICK t \in Servers : place[t] = g /\ server[t].leases[b] = d
      BY <2>3
    <3>2. CASE server'[t].leases[b] = d
      BY <1>5, <2>1, <3>1, <3>2 DEF Backing
    <3>3. CASE server'[t].leases[b] # d
      BY <1>3, <1>6, <2>1, <3>1, <3>3 DEF c
    <3>4. QED BY <3>2, <3>3
  <2>4. QED BY <1>9, <2>2, <2>3 DEF Backing
<1>10. ASSUME NEW t \in Servers PROVE Asked(place'[t], Gone', inbox'[t])
  <2>1. t \in Stations /\ t # c
    BY <1>2, DhcpAssumption DEF Stations
  <2>2. QED BY <1>5, <1>7, <1>8, <2>1 DEF LInv
<1>11. ASSUME ~ lost, NEW d \in Clients, client[d].state # "gone"
       PROVE  HeldTrue(Backing', d, client[d], inbox'[d]) /\ AcksTrue(Backing', d, inbox'[d])
  <2>1. HeldTrue(Backing, d, client[d], inbox[d]) /\ AcksTrue(Backing, d, inbox[d])
    BY <1>11 DEF LInv
  <2>2. CASE d # c
    <3>1. inbox'[d] = inbox[d]
      BY <1>7, <2>2 DEF Stations
    <3>2. \A b, g : <<d, b, g>> \in Backing => <<d, b, g>> \in Backing'
      BY <1>9, <2>2
    <3>3. QED BY <2>1, <3>1, <3>2, Weaker
  <2>3. CASE d = c
    <3>1. /\ \A k, g : Recall(inbox[c], k, g) => Recall(inbox'[c], k, g)
          /\ \A k \in 0 .. Len(inbox[c]) : Recall(inbox'[c], k, place[s])
          /\ DOMAIN inbox[c] = 1 .. Len(inbox[c])
           /\ \A k \in DOMAIN inbox'[c] : (k \in DOMAIN inbox[c] /\ inbox'[c][k] = inbox[c][k]) \/ inbox'[c][k] = m
      BY <1>1, <1>2, <1>4, <1>7, AppendedRecall
    <3>2. HeldTrue(Backing', c, client[c], inbox'[c])
      <4>1. 0 \in 0 .. Len(inbox[c])
        BY <1>1, <1>2, LenProperties
      <4>2. QED BY <1>9, <2>1, <2>3, <3>1, <4>1 DEF HeldTrue
    <3>3. AcksTrue(Backing', c, inbox'[c])
      <4> SUFFICES ASSUME NEW k \in DOMAIN inbox'[c], inbox'[c][k].op = "ack"
                   PROVE  \/ <<c, inbox'[c][k].ip, inbox'[c][k].seg>> \in Backing'
                          \/ Recall(inbox'[c], k, inbox'[c][k].seg)
        BY DEF AcksTrue
      <4>1. k \in DOMAIN inbox[c] /\ inbox'[c][k] = inbox[c][k]
        BY <1>4, <3>1
      <4>2. \/ <<c, inbox[c][k].ip, inbox[c][k].seg>> \in Backing
            \/ Recall(inbox[c], k, inbox[c][k].seg)
        BY <2>1, <2>3, <4>1 DEF AcksTrue
      <4>3. k \in 0 .. Len(inbox[c])
        BY <1>1, <1>2, <3>1, <4>1, LenProperties
      <4>4. QED BY <1>9, <3>1, <4>1, <4>2, <4>3
    <3>4. QED BY <2>3, <3>2, <3>3
  <2>4. QED BY <2>2, <2>3
<1>12. (\A t \in Servers : Asked(place[t], Gone, inbox[t]))'
  BY <1>10
<1>13. (\A d \in Clients : Parted(client[d]))'
  BY <1>5 DEF LInv
<1>14. (~ lost => \A d \in Clients : client[d].state # "gone" =>
          HeldTrue(Backing, d, client[d], inbox[d]) /\ AcksTrue(Backing, d, inbox[d]))'
  BY <1>5, <1>11
<1>15. QED BY <1>12, <1>13, <1>14 DEF LInv

LEMMA WorkLInv ==
  ASSUME IInv, LInv, Work
  PROVE  LInv'
<1>1. ASSUME NEW c \in Clients, ClientReceives(c) PROVE LInv'
  BY <1>1, ClientReceivesLInv
<1>2. ASSUME NEW c \in Clients, Timeout(c) PROVE LInv'
  <2> DEFINE x == client[c]
             r == OnTimeout(x, c)
  <2>1. x \in ClientType /\ GoodClient(x) /\ x.state \in Active /\ x.state # "gone"
    BY <1>2 DEF IInv, Timeout, Active
  <2>2. GoodDeed(r) /\ Deed(x, r) /\ r.client.state # "bound"
    BY <2>1, OnTimeoutGood, OnTimeoutSays
  <2>3. ClientActs(c, r, inbox) /\ server' = server /\ place' = place /\ revoked' = revoked /\ lost' = lost
    BY <1>2 DEF Timeout
  <2> HIDE DEF r
  <2>4. QED BY <2>1, <2>2, <2>3, AnewLInv
<1>3. ASSUME NEW s \in Servers, ServerReceives(s) PROVE LInv'
  BY <1>3, ServerReceivesLInv
<1>4. QED BY <1>1, <1>2, <1>3 DEF Work

LEMMA ChangeLInv ==
  ASSUME IInv, LInv, Change
  PROVE  LInv'
<1>0. \A c \in Clients : client[c] \in ClientType /\ (client[c].seg # None => client[c].state # "gone")
  BY DhcpAssumption DEF IInv, LInv, Parted
<1>1. ASSUME NEW c \in Clients, NEW seg \in Segs, Plug(c, seg) PROVE LInv'
  <2> DEFINE x == [client[c] EXCEPT !.seg = seg]
             r == Start(x, c)
  <2>1. x \in ClientType
    BY <1>0 DEF ClientType
  <2>2. GoodDeed(r) /\ Deed(x, r) /\ r.client.state # "bound"
    BY <2>1, StartGood, StartSays
  <2>3. /\ ClientActs(c, r, inbox) /\ server' = server /\ place' = place /\ revoked' = revoked /\ lost' = lost
        /\ client[c].state # "gone"
    BY <1>1 DEF Plug
  <2> HIDE DEF r, x
  <2>4. QED BY <2>2, <2>3, AnewLInv
<1>2. ASSUME NEW c \in Clients, Unplug(c) PROVE LInv'
  BY <1>2, UnplugLInv
<1>3. ASSUME NEW c \in Clients, RenewDhcp(c) PROVE LInv'
  <2> DEFINE x == client[c]
             r == Start(x, c)
  <2>1. GoodDeed(r) /\ Deed(x, r) /\ r.client.state # "bound"
    BY <1>0, StartGood, StartSays
  <2>2. /\ ClientActs(c, r, inbox) /\ server' = server /\ place' = place /\ revoked' = revoked /\ lost' = lost
        /\ client[c].state # "gone"
    BY <1>0, <1>3 DEF RenewDhcp
  <2> HIDE DEF r, x
  <2>3. QED BY <2>1, <2>2, AnewLInv
<1>4. ASSUME NEW c \in Clients, Remove(c) PROVE LInv'
  BY <1>4, RemoveLInv
<1>5. ASSUME NEW s \in Servers, SetDhcpServer(s) PROVE LInv'
  BY <1>5, SetDhcpServerLInv
<1>6. ASSUME NEW s \in Servers, NEW a \in Addrs, Renumber(s, a) PROVE LInv'
  BY <1>6, RenumberLInv
<1>7. ASSUME NEW n \in Clients \cup Servers, Lose(n) PROVE LInv'
  BY <1>7, TakenLInv DEF Lose, Stations
<1>8. QED BY <1>1, <1>2, <1>3, <1>4, <1>5, <1>6, <1>7 DEF Change

LEMMA InitLInv == Init => LInv
<1> SUFFICES ASSUME Init PROVE LInv
  OBVIOUS
<1> DEFINE x == NewClient(Home)
           r == [c \in Clients |-> Start(x, c)]
           first == [k \in DOMAIN Created |-> Head(r[Created[k]].out)]
<1>1. x \in ClientType /\ x.seg = Home /\ x.last = None
  BY DhcpAssumption DEF NewClient, ClientType, MaybeAddr, Active, MaxAttempts
<1>2. \A c \in Clients : /\ r[c].client.state \in {"discovering", "rebooting"}
                         /\ Head(r[c].out).op = "discover" /\ Head(r[c].out).seg = Home
  <2> SUFFICES ASSUME NEW c \in Clients
               PROVE  /\ Start(x, c).client.state \in {"discovering", "rebooting"}
                      /\ Head(Start(x, c).out).op = "discover" /\ Head(Start(x, c).out).seg = Home
    OBVIOUS
  <2> HIDE DEF x
  <2>1. Start(x, c).client.state \in {"discovering", "rebooting"}
    BY <1>1 DEF Start, ClientType
  <2>2. Start(x, c).out = <<Message("discover", c, None, None, Home)>>
    BY <1>1 DEF Start
  <2>3. QED BY <2>1, <2>2 DEF Message
<1>3. /\ client = [c \in Clients |-> r[c].client]
      /\ inbox = [n \in Stations |-> IF n \in Servers /\ place[n] = Home THEN first ELSE <<>>]
  BY DEF Init, Stations
<1>4. \A G : Asked(Home, G, first)
  <2>1. \A k \in DOMAIN Created : Created[k] \in Clients
    BY DhcpAssumption
  <2>2. QED BY <1>2, <2>1 DEF Asked
<1> HIDE DEF first, r
<1>5. \A s \in Servers : Asked(place[s], Gone, inbox[s])
  BY <1>3, <1>4 DEF Stations, Asked
<1>6. \A c \in Clients : Parted(client[c]) /\ client[c].state # "bound" /\ inbox[c] = <<>>
  BY <1>2, <1>3, DhcpAssumption DEF Stations, Parted
<1>7. QED BY <1>5, <1>6 DEF LInv, HeldTrue, AcksTrue

LEMMA NextLInv == IInv /\ LInv /\ [Next]_vars => LInv'
<1> SUFFICES ASSUME IInv, LInv, [Next]_vars PROVE LInv'
  OBVIOUS
<1>1. CASE Work
  BY <1>1, WorkLInv
<1>2. CASE Change
  BY <1>2, ChangeLInv
<1>3. CASE UNCHANGED vars
  <2>1. Gone' = Gone /\ Backing' = Backing
    BY <1>3 DEF vars, Gone, Backing
  <2>2. QED BY <1>3, <2>1 DEF vars, LInv
<1>4. QED BY <1>1, <1>2, <1>3 DEF Next

LEMMA HoldingIsBacked == Spec => [](IInv /\ LInv)
<1>1. Init => IInv /\ LInv
  BY InitIInv, InitLInv
<1>2. IInv /\ LInv /\ [Next]_vars => (IInv /\ LInv)'
  BY NextIInv, NextLInv
<1>3. QED BY <1>1, <1>2, PTL DEF Spec

-------------------------------------------------------------------------------
(* The theorems *)

\* The state keeps its type, and a client holds an address only while it is bound
\* or confirming a lease: whoever gives up an exchange gives up the address.
THEOREM TypeCorrect == Spec => []TypeOK
BY Inductive, IInvImplies, PTL

\* However many clients ask, move, leave and come back, whatever is lost and
\* whatever the user changes: a server promises no address to two clients, and
\* none outside its range.
THEOREM AddressesPromisedOnce == Spec => []PromisedOnce
BY Inductive, IInvImplies, PTL

\* At rest whoever uses an address has the lease of it from a server of its own
\* segment, unless the lease went with the range or a frame was lost: whatever
\* order renewals, refusals, moves, removals and addresses taken back come in, and
\* however many clients and servers there are.
THEOREM AddressesAreLeased == Spec => []AddressIsLeased
BY HoldingIsBacked, LInvImplies, PTL
=============================================================================
