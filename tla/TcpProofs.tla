------------------------------ MODULE TcpProofs ------------------------------
(***************************************************************************)
(* Proofs about a TCP connection (Tcp): for any number of segments,        *)
(* retransmissions, SSH messages and segments in flight, whatever is lost, *)
(* repeated, reordered, reset or forgotten.                                *)
(*                                                                         *)
(* TInv is inductive.  Local says what a stack may believe by itself (the  *)
(* numbers it has not had acknowledged are kept, what it says next fits    *)
(* its place in the protocol of the application), OnTheWay what a segment  *)
(* on its way proves of the stack that sent it, and the rest of TInv what  *)
(* two stacks may believe of each other.                                   *)
(***************************************************************************)
EXTENDS Tcp, TLAPS

-------------------------------------------------------------------------------
(* The inductive invariant *)

Web(a) == a \in {"http", "https"}

\* data segments of a whole answer
Whole(a) == Segments + Num(a = "https")

Datas == {"none", "request", "response", "client-hello", "server-hello", "finished", "ssh"}

Kept == [seg : SegmentType, retries : 0 .. MaxRetries]

RecordType ==
  [st : States, nxt : Nat, una : Nat, rcv : Nat, unacked : SUBSET Kept, fin : BOOLEAN,
   read : Int, ssh : Int, open : BOOLEAN, tls : {"no", "wait", "done"}, tlsSent : Nat,
   got : Nat, sent : Nat, deferred : BOOLEAN]

\* What the record c of a stack says of the segments the stack has sent: a client
\* that closes has seen the end of the answer, and says hello first; a server
\* closes after the whole answer, or after the client.
ByClient(a, c, s) ==
  Web(a) => /\ s.fin => c.fin
            /\ (a = "https" /\ s.data # "none") => (s.data = "client-hello" <=> s.seq = 1)

ByServer(a, c, s) ==
  /\ Web(a) => /\ s.data # "none" => s.seq <= Whole(a)
               /\ s.fin => s.seq = Whole(a) + 1 \/ c.fin
  /\ (a = "ssh" /\ s.data # "none" /\ 2 * s.seq >= Steps) => c.open

Said(e, a, c, s) ==
  /\ s \in SegmentType /\ s.to = Peer(e) /\ Consumes(s) <= 1 /\ s.ack <= c.rcv
  /\ s.syn => s.seq = 0 /\ (e = "server" => s.isack)
  /\ IF e = "client" THEN ByClient(a, c, s) ELSE ByServer(a, c, s)

IsLive(c) == c.st \notin Done \cup {"NONE"}

NoHole(c) == IsLive(c) => \A n \in c.una .. c.nxt - 1 : \E u \in c.unacked : u.seg.seq = n

Core(e, a, c) ==
  /\ c \in RecordType
  /\ \A u \in c.unacked : Said(e, a, c, u.seg) /\ Consumes(u.seg) = 1
  /\ NoHole(c)
  /\ a # "ssh" => c.ssh = -1 /\ ~ c.open

Client(a, c) ==
  /\ c.st # "SYN_RCVD"
  /\ c.st \in {"NONE", "SYN_SENT"} =>
       c.rcv = 0 /\ c.got = 0 /\ ~ c.fin /\ ~ c.open /\ c.ssh = -1 /\ c.tls = "no"
  /\ c.st = "SYN_SENT" => c.nxt = 1
  /\ c.tls = "wait" => c.nxt >= 2
  /\ c.st = "ESTABLISHED" => ~ c.fin /\ c.rcv = 1 + c.got
  /\ Web(a) => /\ c.st \notin {"FIN_WAIT_1", "FIN_WAIT_2", "CLOSE_WAIT"}
               /\ c.st \in {"CLOSED", "LAST_ACK"} => c.fin
               /\ c.fin => c.rcv >= Whole(a) + 2 /\ c.got = Whole(a)
  /\ (a = "ssh" /\ c.st = "ESTABLISHED") => c.ssh = 2 * c.got + 1 \/ c.open

Server(a, c) ==
  /\ c.st # "SYN_SENT"
  /\ a = "ssh" => ~ c.deferred
  /\ c.st \in {"SYN_RCVD", "ESTABLISHED"} =>
       /\ ~ c.fin /\ c.rcv >= 1 /\ c.nxt = 1 + c.sent
       /\ a # "ssh" => c.sent = c.tlsSent /\ (c.deferred => c.tls # "wait")
       /\ a = "https" => /\ c.tls # "no"
                         /\ (c.tls = "done" \/ c.rcv # 1) => c.tlsSent = 1
                         /\ (c.tls = "wait" /\ c.rcv = 1) => c.tlsSent = 0
       /\ a # "https" => c.tls = "no" /\ c.tlsSent = 0
       /\ a = "ssh" => (c.ssh = -1 /\ c.sent = 0) \/ c.ssh = 2 * c.sent \/ c.ssh >= Steps

Local(e, a, c) == Core(e, a, c) /\ IF e = "client" THEN Client(a, c) ELSE Server(a, c)

\* the client has seen the end of the answer, or is gone
Over == conn["client"].fin \/ conn["client"].st = "NONE"

OnTheWay(s) ==
  /\ s \in SegmentType /\ Consumes(s) <= 1
  /\ s.syn => s.seq = 0 /\ (s.to = "client" => s.isack)
  /\ (Web(app) /\ s.to = "server") =>
       /\ s.fin => Over
       /\ (app = "https" /\ s.data # "none") => (s.data = "client-hello" <=> s.seq = 1)
  /\ (Web(app) /\ s.to = "client") =>
       /\ s.data # "none" => s.seq <= Whole(app)
       /\ s.fin => s.seq = Whole(app) + 1 \/ Over
  /\ LET p == conn[Peer(s.to)]
     IN (accepts <= 1 /\ p.st # "NONE") =>
          /\ s.ack <= p.rcv
          /\ (app = "ssh" /\ s.to = "client" /\ s.data # "none" /\ 2 * s.seq >= Steps) => p.open

Untouched == conn = [e \in Ends |-> NoConn] /\ net = {} /\ accepts = 0

\* the server has not been reached yet
Unheard ==
  /\ conn["server"].st = "NONE" /\ conn["client"].st \in {"NONE", "SYN_SENT"} \cup Done
  /\ conn["client"].una = 0 /\ ~ conn["client"].open
  /\ \A s \in net : s.to = "client" => s.ack = 0 /\ s.data = "none"

TInv ==
  /\ app \in Apps \cup {"none"} /\ accepts \in Nat
  /\ conn \in [Ends -> RecordType] /\ \A e \in Ends : Local(e, app, conn[e])
  /\ \A e \in Ends : conn[e].st = "NONE" => conn[e] = NoConn
  /\ \A s \in net : OnTheWay(s)
  /\ app = "none" => Untouched
  /\ accepts = 0 => Unheard
  /\ Web(app) /\ conn["server"].fin => Over
  /\ accepts <= 1 => \A e \in Ends :
       conn[e].st # "NONE" /\ conn[Peer(e)].st # "NONE" => conn[e].una <= conn[Peer(e)].rcv
  /\ accepts = 1 /\ conn["client"].open => conn["server"].open \/ conn["server"].st = "NONE"

-------------------------------------------------------------------------------
(* It implies the properties *)

LEMMA TInvType == TInv => TypeOK
<1> SUFFICES ASSUME TInv PROVE TypeOK
  OBVIOUS
<1>1. net \subseteq SegmentType
  BY DEF TInv, OnTheWay
<1>2. \A e \in Ends : conn[e] \in RecordType
  BY DEF TInv
<1>3. ASSUME NEW e \in Ends
      PROVE  /\ conn[e].st \in States
             /\ \A k \in {"nxt", "una", "rcv", "got", "sent"} : conn[e][k] \in Nat
             /\ \A u \in conn[e].unacked : u.seg \in SegmentType /\ u.retries \in 0 .. MaxRetries
  BY <1>2, <1>3 DEF RecordType, Kept
<1>4. QED BY <1>1, <1>3 DEF TInv, TypeOK

LEMMA TInvNumbers == TInv => NothingUnaccounted
<1> SUFFICES ASSUME TInv PROVE NothingUnaccounted
  OBVIOUS
<1>1. NoHoleInFlight
  BY DEF TInv, Local, Core, NoHole, IsLive, NoHoleInFlight, Alive
<1>2. AckedWasReceived
  BY DEF TInv, AckedWasReceived
<1>3. QED BY <1>1, <1>2 DEF NothingUnaccounted

LEMMA TInvComplete == TInv => ClosedMeansComplete
<1> SUFFICES ASSUME TInv, conn["client"].st = "CLOSED", app \in {"http", "https"}
             PROVE  conn["client"].fin /\ conn["client"].got = Segments + Num(app = "https")
  BY DEF ClosedMeansComplete
<1>1. Client(app, conn["client"])
  BY DEF TInv, Local, Ends
<1>2. QED BY <1>1 DEF Client, Web, Whole

LEMMA TInvAgreed == TInv => SessionAgreed
BY DEF TInv, SessionAgreed

-------------------------------------------------------------------------------
(* A stack at work: what its record says holds of all it has sent              *)

CoreWork(e, a, w) ==
  /\ w = Work(w.c, w.out)
  /\ Core(e, a, w.c) /\ \A o \in w.out : Said(e, a, w.c, o)

\* d is a later record of the connection of c: what c said is said of d
Later(c, d) == c.rcv <= d.rcv /\ (c.fin => d.fin) /\ (c.open => d.open)

LEMMA ConstTypes ==
  /\ Segments \in Nat /\ Segments >= 1 /\ MaxRetries \in Nat /\ Steps \in Nat /\ Steps >= 1
  /\ 0 \in 0 .. MaxRetries
BY TcpAssumption

LEMMA WholeType == ASSUME NEW a PROVE Whole(a) \in Nat /\ Whole(a) >= 1
BY ConstTypes DEF Whole, Num

LEMMA Peers ==
  ASSUME NEW e \in Ends
  PROVE  Peer(e) \in Ends /\ Peer(Peer(e)) = e /\ Peer(e) # e
         /\ Peer("client") = "server" /\ Peer("server") = "client"
BY DEF Peer, Ends

LEMMA SegTypes ==
  ASSUME NEW s \in SegmentType
  PROVE  /\ s.seq \in Nat /\ s.ack \in Nat /\ s.data \in Datas
         /\ DataLen(s) = (IF s.data = "none" THEN 0 ELSE 1)
         /\ Consumes(s) \in Nat
         /\ Consumes(s) = 0 <=> (s.data = "none" /\ ~ s.syn /\ ~ s.fin)
<1>1. /\ s.seq \in Nat /\ s.ack \in Nat /\ s.data \in Datas
      /\ s.syn \in BOOLEAN /\ s.fin \in BOOLEAN
  BY DEF SegmentType, Datas
<1>2. DataLen(s) = (IF s.data = "none" THEN 0 ELSE 1)
  BY DEF DataLen, Num
<1>3. Consumes(s) = DataLen(s) + (IF s.syn THEN 1 ELSE 0) + (IF s.fin THEN 1 ELSE 0)
  BY DEF Consumes, Num
<1>4. QED BY <1>1, <1>2, <1>3

LEMMA SaidLater ==
  ASSUME NEW e, NEW a, NEW c \in RecordType, NEW d \in RecordType, NEW s, Said(e, a, c, s), Later(c, d)
  PROVE  Said(e, a, d, s)
<1>1. s.ack \in Nat /\ c.rcv \in Nat /\ d.rcv \in Nat
  BY DEF Said, SegmentType, RecordType
<1>2. s.ack <= d.rcv
  BY <1>1 DEF Said, Later
<1>3. QED BY <1>2 DEF Said, Later, ByClient, ByServer

\* The segments a stack makes.
LEMMA Segmented ==
  ASSUME NEW e \in Ends, NEW c \in RecordType, NEW d \in Datas
  PROVE  LET s == Segment(e, c, d)
         IN /\ s \in SegmentType /\ s.to = Peer(e) /\ s.seq = c.nxt /\ s.ack = c.rcv /\ s.isack
            /\ ~ s.syn /\ ~ s.fin /\ ~ s.rst /\ s.data = d
            /\ Consumes(s) = (IF d = "none" THEN 0 ELSE 1) /\ DataLen(s) = (IF d = "none" THEN 0 ELSE 1)
<1> DEFINE s == Segment(e, c, d)
<1>0. c.nxt \in Nat /\ c.rcv \in Nat
  BY DEF RecordType
<1>1. Peer(e) \in Ends /\ 0 \in 0 .. MaxRetries
  BY Peers, ConstTypes
<1>2. /\ s.to = Peer(e) /\ s.seq = c.nxt /\ s.ack = c.rcv /\ s.isack
      /\ ~ s.syn /\ ~ s.fin /\ ~ s.rst /\ s.data = d
  BY DEF Segment
<1>3. s \in SegmentType
  BY <1>0, <1>1 DEF Segment, SegmentType, Datas
<1> HIDE DEF s
<1>4. DataLen(s) = (IF d = "none" THEN 0 ELSE 1) /\ Consumes(s) = (IF d = "none" THEN 0 ELSE 1)
  BY <1>2 DEF Consumes, DataLen, Num
<1>5. QED BY <1>2, <1>3, <1>4 DEF s

\* A record that changes without a word: nothing sent is forgotten.
LEMMA Touched ==
  ASSUME NEW e, NEW a, NEW w, CoreWork(e, a, w), NEW d \in RecordType, Later(w.c, d),
         d.unacked = w.c.unacked, d.nxt = w.c.nxt, d.una = w.c.una,
         IsLive(d) => IsLive(w.c), a # "ssh" => d.ssh = -1 /\ ~ d.open
  PROVE  CoreWork(e, a, Work(d, w.out))
<1>1. w.c \in RecordType
  BY DEF CoreWork, Core
<1>2. \A s : Said(e, a, w.c, s) => Said(e, a, d, s)
  BY <1>1, SaidLater
<1>3. Core(e, a, d)
  BY <1>2 DEF CoreWork, Core, NoHole
<1>4. Work(d, w.out).c = d /\ Work(d, w.out).out = w.out
  BY DEF Work
<1>5. QED BY <1>2, <1>3, <1>4 DEF CoreWork

\* d is c with n numbers and m data segments more; only the read timer and the
\* segments kept may differ too.
Moved(c, d, n, m) ==
  /\ d \in RecordType /\ d.nxt = c.nxt + n /\ d.sent = c.sent + m
  /\ d.st = c.st /\ d.una = c.una /\ d.rcv = c.rcv /\ d.fin = c.fin /\ d.ssh = c.ssh /\ d.open = c.open
  /\ d.tls = c.tls /\ d.tlsSent = c.tlsSent /\ d.got = c.got /\ d.deferred = c.deferred

\* What takes numbers is kept, what does not changes nothing.
LEMMA Transmitted ==
  ASSUME NEW e \in Ends, NEW a, NEW w, CoreWork(e, a, w), NEW s, Said(e, a, w.c, s), s.seq = w.c.nxt
  PROVE  LET v == Transmit(w, s)
         IN /\ CoreWork(e, a, v)
            /\ Consumes(s) = 0 => v.c = w.c
            /\ Consumes(s) = 1 => Moved(w.c, v.c, 1, DataLen(s))
<1> DEFINE c == w.c
           k == [seg |-> s, retries |-> 0]
           v == Transmit(w, s)
<1>1. /\ c \in RecordType /\ NoHole(c) /\ s \in SegmentType /\ Consumes(s) <= 1
  BY DEF CoreWork, Core, Said
<1>2. /\ Consumes(s) \in {0, 1} /\ DataLen(s) \in Nat
      /\ Consumes(s) = 0 => DataLen(s) = 0
  BY <1>1, SegTypes
<1>3. c.nxt \in Nat /\ c.sent \in Nat /\ c.una \in Nat /\ c.rcv \in Nat /\ c.unacked \in SUBSET Kept
  BY <1>1 DEF RecordType
<1>4. CASE Consumes(s) = 0
  <2>1. c.nxt + 0 = c.nxt /\ c.sent + 0 = c.sent /\ DataLen(s) = 0
    BY <1>2, <1>3, <1>4
  <2>2. [c EXCEPT !.nxt = c.nxt, !.sent = c.sent, !.unacked = c.unacked] = c
    BY <1>1 DEF RecordType
  <2>3. v.c = c /\ v.out = w.out \cup {s} /\ v = Work(v.c, v.out)
    BY <2>1, <2>2, <1>4 DEF Transmit, Work
  <2> HIDE DEF v
  <2>4. QED BY <1>4, <2>3 DEF CoreWork, v
<1>5. CASE Consumes(s) = 1
  <2> DEFINE d == [c EXCEPT !.nxt = c.nxt + 1, !.sent = c.sent + DataLen(s), !.unacked = c.unacked \cup {k}]
  <2>1. v.c = d /\ v.out = w.out \cup {s} /\ v = Work(v.c, v.out)
    BY <1>5 DEF Transmit, Work
  <2>2. k \in Kept /\ k.seg = s
    BY <1>1, ConstTypes DEF Kept
  <2> HIDE DEF k
  <2>3. d \in RecordType
    <3>1. c.nxt + 1 \in Nat /\ c.sent + DataLen(s) \in Nat /\ c.unacked \cup {k} \in SUBSET Kept
      BY <1>2, <1>3, <2>2
    <3>2. \A x \in Nat, y \in Nat, z \in SUBSET Kept :
             [c EXCEPT !.nxt = x, !.sent = y, !.unacked = z] \in RecordType
      BY <1>1 DEF RecordType
    <3>3. QED BY <3>1, <3>2
  <2>4. Moved(c, d, 1, DataLen(s)) /\ d.unacked = c.unacked \cup {k}
    BY <1>1, <2>3 DEF Moved, RecordType
  <2> HIDE DEF d
  <2>5. /\ d.unacked = c.unacked \cup {k} /\ d.nxt = c.nxt + 1
        /\ d.st = c.st /\ d.una = c.una /\ d.rcv = c.rcv /\ d.fin = c.fin /\ d.open = c.open /\ d.ssh = c.ssh
    BY <2>4 DEF Moved
  <2>6. Later(c, d)
    BY <1>3, <2>5 DEF Later
  <2>7. \A x : Said(e, a, c, x) => Said(e, a, d, x)
    BY <1>1, <2>3, <2>6, SaidLater
  <2>8. \A u \in d.unacked : Said(e, a, d, u.seg) /\ Consumes(u.seg) = 1
    BY <1>5, <2>2, <2>5, <2>7 DEF CoreWork, Core
  <2>9. NoHole(d)
    <3> SUFFICES ASSUME IsLive(d), NEW n \in d.una .. d.nxt - 1 PROVE \E u \in d.unacked : u.seg.seq = n
      BY DEF NoHole
    <3>1. IsLive(c) /\ (n \in c.una .. c.nxt - 1 \/ n = c.nxt)
      BY <1>3, <2>5 DEF IsLive
    <3>2. QED BY <1>1, <2>2, <2>5, <3>1 DEF NoHole
  <2>10. Core(e, a, d)
    BY <2>3, <2>5, <2>8, <2>9 DEF Core, CoreWork
  <2>11. \A o \in w.out \cup {s} : Said(e, a, d, o)
    BY <2>7 DEF CoreWork
  <2> HIDE DEF v
  <2>12. CoreWork(e, a, v)
    BY <2>1, <2>10, <2>11 DEF CoreWork
  <2>13. QED BY <1>5, <2>1, <2>4, <2>12 DEF v
<1>6. QED BY <1>2, <1>4, <1>5

LEMMA SendAckWork ==
  ASSUME NEW e \in Ends, NEW a, NEW w, CoreWork(e, a, w)
  PROVE  CoreWork(e, a, SendAck(e, w)) /\ SendAck(e, w).c = w.c
<1> DEFINE s == Segment(e, w.c, "none")
<1>1. w.c \in RecordType /\ w.c.rcv \in Nat
  BY DEF CoreWork, Core, RecordType
<1>2. "none" \in Datas
  BY DEF Datas
<1>3. /\ s \in SegmentType /\ s.to = Peer(e) /\ s.seq = w.c.nxt /\ s.ack = w.c.rcv
      /\ ~ s.syn /\ ~ s.fin /\ s.data = "none" /\ Consumes(s) = 0
  BY <1>1, <1>2, Segmented
<1> HIDE DEF s
<1>4. Said(e, a, w.c, s)
  BY <1>1, <1>3 DEF Said, ByClient, ByServer
<1>5. QED BY <1>3, <1>4, Transmitted DEF SendAck, s

\* What data may say at its place in the protocol of the application.
Fits(e, a, c, d) ==
  IF e = "client" THEN a = "https" => (d = "client-hello" <=> c.nxt = 1)
  ELSE /\ Web(a) => c.nxt <= Whole(a)
       /\ (a = "ssh" /\ 2 * c.nxt >= Steps) => c.open

LEMMA SendDataWork ==
  ASSUME NEW e \in Ends, NEW a, NEW w, CoreWork(e, a, w), NEW d \in Datas \ {"none"}, Fits(e, a, w.c, d)
  PROVE  CoreWork(e, a, SendData(e, w, d)) /\ Moved(w.c, SendData(e, w, d).c, 1, 1)
<1> DEFINE s == Segment(e, w.c, d)
<1>1. w.c \in RecordType /\ w.c.rcv \in Nat
  BY DEF CoreWork, Core, RecordType
<1>2. d \in Datas /\ d # "none"
  OBVIOUS
<1>3. /\ s \in SegmentType /\ s.to = Peer(e) /\ s.seq = w.c.nxt /\ s.ack = w.c.rcv
      /\ ~ s.syn /\ ~ s.fin /\ s.data = d /\ Consumes(s) = 1 /\ DataLen(s) = 1
  BY <1>1, <1>2, Segmented
<1> HIDE DEF s
<1>4. Said(e, a, w.c, s)
  BY <1>1, <1>3 DEF Said, ByClient, ByServer, Fits
<1>5. QED BY <1>3, <1>4, Transmitted DEF SendData, s

LEMMA SendFinWork ==
  ASSUME NEW e \in Ends, NEW a, NEW w, CoreWork(e, a, w), Web(a) => w.c.fin
  PROVE  CoreWork(e, a, SendFin(e, w)) /\ Moved(w.c, SendFin(e, w).c, 1, 0)
<1> DEFINE z == Segment(e, w.c, "none")
           s == [z EXCEPT !.fin = TRUE]
<1>1. w.c \in RecordType /\ w.c.rcv \in Nat /\ "none" \in Datas
  BY DEF CoreWork, Core, RecordType, Datas
<1>2. /\ z \in SegmentType /\ z.to = Peer(e) /\ z.seq = w.c.nxt /\ z.ack = w.c.rcv
      /\ ~ z.syn /\ z.data = "none"
  BY <1>1, Segmented
<1>3. SendFin(e, w) = Transmit(w, s)
  BY DEF SendFin
<1> HIDE DEF z
<1>4. /\ s \in SegmentType /\ s.to = Peer(e) /\ s.seq = w.c.nxt /\ s.ack = w.c.rcv
      /\ ~ s.syn /\ s.fin /\ s.data = "none"
  BY <1>2 DEF SegmentType
<1> HIDE DEF s
<1>5. Consumes(s) = 1 /\ DataLen(s) = 0
  BY <1>4 DEF Consumes, DataLen, Num
<1>6. Said(e, a, w.c, s)
  BY <1>1, <1>4, <1>5 DEF Said, ByClient, ByServer
<1>7. QED BY <1>3, <1>4, <1>5, <1>6, Transmitted

-------------------------------------------------------------------------------
(* What the record alone goes through *)

\* d is c but for what is kept, acknowledged and timed.
Same(c, d) ==
  /\ d \in RecordType /\ d.st = c.st /\ d.nxt = c.nxt /\ d.rcv = c.rcv /\ d.fin = c.fin
  /\ d.ssh = c.ssh /\ d.open = c.open /\ d.tls = c.tls /\ d.tlsSent = c.tlsSent
  /\ d.got = c.got /\ d.sent = c.sent /\ d.deferred = c.deferred

LEMMA SameLocal ==
  ASSUME NEW e, NEW a, NEW c, NEW d, Core(e, a, d), Same(c, d), IF e = "client" THEN Client(a, c) ELSE Server(a, c)
  PROVE  Local(e, a, d)
<1>1. CASE e = "client"
  BY <1>1 DEF Same, Local, Client
<1>2. CASE e # "client"
  BY <1>2 DEF Same, Local, Server
<1>3. QED BY <1>1, <1>2

\* An ACK: what it covers is not kept any longer.
LEMMA AckedLocal ==
  ASSUME NEW e, NEW a, NEW c, Local(e, a, c), NEW s \in SegmentType
  PROVE  LET d == Acked(c, s)
         IN Local(e, a, d) /\ Same(c, d) /\ (d.una = c.una \/ (d.una = s.ack /\ c.una < s.ack))
<1> DEFINE d == Acked(c, s)
           x == {u \in c.unacked : EndOf(u.seg) > s.ack}
<1>1. c \in RecordType /\ s.ack \in Nat /\ Core(e, a, c) /\ NoHole(c)
  BY SegTypes DEF Local, Core
<1>2. c.nxt \in Nat /\ c.una \in Nat /\ c.unacked \in SUBSET Kept
  BY <1>1 DEF RecordType
<1>3. CASE s.isack /\ s.ack > c.una
  <2>1. d = [c EXCEPT !.una = s.ack, !.unacked = x]
    BY <1>3 DEF Acked
  <2>2. x \in SUBSET Kept
    BY <1>2
  <2> HIDE DEF x
  <2>3. Same(c, d) /\ d.una = s.ack /\ d.unacked = x
    BY <1>1, <2>1, <2>2 DEF RecordType, Same
  <2> HIDE DEF d
  <2>4. \A u \in d.unacked : u \in c.unacked
    BY <2>3 DEF x
  <2>5. Later(c, d) /\ d \in RecordType /\ d.nxt = c.nxt /\ d.st = c.st /\ d.ssh = c.ssh /\ d.open = c.open
    BY <1>1, <2>3 DEF Later, Same, RecordType
  <2>6. \A u \in d.unacked : Said(e, a, d, u.seg) /\ Consumes(u.seg) = 1
    <3>1. ASSUME NEW u \in d.unacked PROVE Said(e, a, d, u.seg) /\ Consumes(u.seg) = 1
      <4>1. Said(e, a, c, u.seg) /\ Consumes(u.seg) = 1
        BY <1>1, <2>4, <3>1 DEF Core
      <4>2. QED BY <1>1, <2>5, <4>1, SaidLater
    <3>2. QED BY <3>1
  <2>7. NoHole(d)
    <3> SUFFICES ASSUME IsLive(d), NEW n \in d.una .. d.nxt - 1 PROVE \E u \in d.unacked : u.seg.seq = n
      BY DEF NoHole
    <3>0. n \in s.ack .. c.nxt - 1 /\ c.st = d.st
      BY <2>3, <2>5
    <3>1. n \in c.una .. c.nxt - 1 /\ IsLive(c) /\ n >= s.ack /\ n \in Int
      BY <1>1, <1>2, <1>3, <2>5, <3>0 DEF IsLive
    <3>2. PICK u \in c.unacked : u.seg.seq = n
      BY <1>1, <3>1 DEF NoHole
    <3>3. Consumes(u.seg) = 1
      BY <1>1, <3>2 DEF Core
    <3>4. EndOf(u.seg) > s.ack
      BY <1>1, <3>1, <3>2, <3>3 DEF EndOf
    <3>5. u \in x
      BY <3>2, <3>4 DEF x
    <3>6. QED BY <2>3, <3>2, <3>5
  <2>8. Core(e, a, d)
    BY <1>1, <2>5, <2>6, <2>7 DEF Core
  <2>9. Local(e, a, d)
    BY <2>3, <2>8, SameLocal DEF Local
  <2>10. QED BY <1>3, <1>1, <1>2, <2>3, <2>9 DEF d
<1>4. CASE ~ (s.isack /\ s.ack > c.una)
  <2>1. d = c
    BY <1>4 DEF Acked
  <2> HIDE DEF d
  <2>2. QED BY <1>1, <2>1 DEF Same, d
<1>5. QED BY <1>3, <1>4

\* The end of a connection: nothing is kept.
LEMMA FinishLocal ==
  ASSUME NEW e \in Ends, NEW a, NEW c, Local(e, a, c), NEW st \in Done,
         (e = "client" /\ Web(a) /\ st = "CLOSED") => c.fin
  PROVE  LET d == Finish(c, st)
         IN /\ Local(e, a, d) /\ d.st = st /\ Later(c, d) /\ d.una = c.una
            /\ d.fin = c.fin /\ d.open = c.open
<1> DEFINE d == Finish(c, st)
<1>1. c \in RecordType /\ Core(e, a, c) /\ st \in States
  BY DEF Local, Core, States
<1>2. /\ d \in RecordType /\ d.unacked = {} /\ d.una = c.una
      /\ d.st = st /\ d.nxt = c.nxt /\ d.rcv = c.rcv /\ d.fin = c.fin
      /\ d.ssh = c.ssh /\ d.open = c.open /\ d.tls = c.tls
      /\ d.got = c.got /\ d.deferred = c.deferred
  <2>1. d = [c EXCEPT !.st = st, !.unacked = {}, !.read = -1]
    BY DEF Finish
  <2>2. -1 \in Int /\ {} \in SUBSET Kept
    OBVIOUS
  <2>3. \A x \in States, y \in SUBSET Kept, z \in Int :
           [c EXCEPT !.st = x, !.unacked = y, !.read = z] \in RecordType
    BY <1>1 DEF RecordType
  <2>4. d \in RecordType
    BY ZenonT(60), <1>1, <2>1, <2>2, <2>3
  <2> HIDE DEF d
  <2>5. QED BY <1>1, <2>1, <2>4 DEF RecordType
<1> HIDE DEF d
<1>3. Later(c, d)
  BY <1>1, <1>2 DEF Later, RecordType
<1>4. Core(e, a, d)
  BY <1>1, <1>2 DEF Core, NoHole, IsLive
<1>5. CASE e = "client"
  <2>1. Client(a, c)
    BY <1>5 DEF Local
  <2>2. Client(a, d)
    BY <1>2, <1>5, <2>1 DEF Client, Done
  <2>3. QED BY <1>2, <1>3, <1>4, <1>5, <2>2 DEF Local, d
<1>6. CASE e = "server"
  <2>1. Server(a, c)
    BY <1>6 DEF Local
  <2>2. Server(a, d)
    BY <1>2, <1>6, <2>1 DEF Server, Done
  <2>3. QED BY <1>2, <1>3, <1>4, <1>6, <2>2 DEF Local, d
<1>7. QED BY <1>5, <1>6 DEF Ends

-------------------------------------------------------------------------------
(* The applications *)

LEMMA Parity == ASSUME NEW k \in Nat PROVE (2 * k) % 2 = 0 /\ (2 * k + 1) % 2 = 1
OBVIOUS

\* w with the record d, which has been edited and has sent nothing since.
Edited(a, c, d) ==
  /\ d \in RecordType /\ Later(c, d)
  /\ d.unacked = c.unacked /\ d.nxt = c.nxt /\ d.una = c.una /\ d.sent = c.sent
  /\ IsLive(d) => IsLive(c)
  /\ a # "ssh" => d.ssh = -1 /\ ~ d.open

LEMMA EditedWork ==
  ASSUME NEW e, NEW a, NEW w, CoreWork(e, a, w), NEW d, Edited(a, w.c, d)
  PROVE  /\ [w EXCEPT !.c = d] = Work(d, w.out) /\ Work(d, w.out).c = d
         /\ CoreWork(e, a, Work(d, w.out))
<1>1. w = Work(w.c, w.out)
  BY DEF CoreWork
<1>2. [w EXCEPT !.c = d] = Work(d, w.out) /\ Work(d, w.out).c = d
  BY <1>1 DEF Work
<1>3. CoreWork(e, a, Work(d, w.out))
  BY Touched DEF Edited
<1>4. QED BY <1>2, <1>3

\* What the messages of an SSH session leave alone.
Kin(c, d) ==
  /\ d \in RecordType /\ d.st = c.st /\ d.una = c.una /\ d.rcv = c.rcv /\ d.fin = c.fin
  /\ d.tls = c.tls /\ d.tlsSent = c.tlsSent /\ d.got = c.got /\ d.deferred = c.deferred

\* What sshNext does for the client and for the server.
Spoken(e, c, d) ==
  /\ Kin(c, d) /\ (c.open => d.open) /\ d.nxt >= c.nxt
  /\ IF e = "client"
     THEN /\ d.open => c.open \/ c.ssh >= Steps
          /\ d.open \/ d.ssh = c.ssh + 1 \/ c.ssh % 2 = 1
     ELSE d.nxt = 1 + d.sent /\ (d.ssh >= Steps \/ d.ssh = 2 * d.sent)

LEMMA SshNextWork ==
  ASSUME NEW e \in Ends, NEW w, CoreWork(e, "ssh", w), w.c.ssh \in Nat,
         e = "server" => w.c.nxt = 1 + w.c.sent /\ (w.c.ssh >= Steps \/ w.c.ssh = 2 * w.c.sent + 1)
  PROVE  CoreWork(e, "ssh", SshNext(e, w)) /\ Spoken(e, w.c, SshNext(e, w).c)
<1> DEFINE c == w.c
           n == w.c.ssh
           q == [c EXCEPT !.read = -1]
           w1 == [w EXCEPT !.c.read = -1]
           m == w1.c.ssh
           o == w1.c.open \/ (m + 1 = Steps /\ e = "server")
           r == IF e = "client" THEN m + 1 ELSE -1
           w2 == [w1 EXCEPT !.c.ssh = m + 1, !.c.open = o, !.c.read = r]
           v == SshNext(e, w)
<1>1. c \in RecordType /\ w = Work(c, w.out) /\ -1 \in Int
  BY DEF CoreWork, Core
<1>2. c.nxt \in Nat /\ c.sent \in Nat /\ c.rcv \in Nat /\ n \in Nat /\ Steps \in Nat
  BY <1>1, ConstTypes DEF RecordType
<1>3. q \in RecordType /\ Kin(c, q) /\ q.open = c.open /\ q.ssh = n /\ q.nxt = c.nxt /\ q.sent = c.sent /\ q.unacked = c.unacked
  BY <1>1 DEF RecordType, Kin
<1>4. w1 = Work(q, w.out)
  BY <1>1 DEF Work
<1>5. v = IF m >= Steps THEN SendAck(e, [w1 EXCEPT !.c.open = TRUE])
          ELSE IF StepOwner(m) # e THEN SendAck(e, w1) ELSE SendData(e, w2, "ssh")
  BY DEF SshNext
<1> HIDE DEF q, w1, v, w2
<1>6. Edited("ssh", c, q)
  BY <1>2, <1>3 DEF Edited, Kin, Later, IsLive
<1>7. CoreWork(e, "ssh", w1)
  BY <1>4, <1>6, EditedWork
<1>8. w1.c = q /\ m = n
  BY <1>3, <1>4 DEF Work
<1>9. CASE n >= Steps
  <2> DEFINE d == [q EXCEPT !.open = TRUE]
  <2>1. [w1 EXCEPT !.c.open = TRUE] = [w1 EXCEPT !.c = d]
    BY <1>4 DEF Work
  <2>2. d \in RecordType /\ Kin(q, d) /\ d.open = TRUE /\ d.ssh = n /\ d.nxt = q.nxt /\ d.sent = q.sent /\ d.unacked = q.unacked
    BY <1>3 DEF RecordType, Kin
  <2> HIDE DEF d
  <2>3. Edited("ssh", q, d)
    BY <1>2, <1>3, <2>2 DEF Edited, Kin, Later, IsLive
  <2>4. CoreWork(e, "ssh", [w1 EXCEPT !.c = d]) /\ [w1 EXCEPT !.c = d].c = d
    BY <1>7, <1>8, <2>3, EditedWork
  <2>5. CoreWork(e, "ssh", v) /\ v.c = d
    BY ZenonT(60), <1>5, <1>8, <1>9, <2>1, <2>4, SendAckWork
  <2>6. Kin(c, d) /\ d.nxt = c.nxt /\ d.sent = c.sent
    BY <1>3, <2>2 DEF Kin
  <2>7. Spoken(e, c, d)
    BY <1>2, <1>9, <2>2, <2>6 DEF Spoken, Ends
  <2>8. QED BY <2>5, <2>7 DEF v
<1>10. CASE ~ (n >= Steps) /\ StepOwner(n) # e
  <2>1. CoreWork(e, "ssh", v) /\ v.c = q
    BY <1>5, <1>7, <1>8, <1>10, SendAckWork
  <2>2. e = "client"
    <3>1. ASSUME e = "server" PROVE FALSE
      <4>1. n % 2 = 1
        BY <1>2, <1>10, <3>1, Parity
      <4>2. QED BY <1>10, <3>1, <4>1 DEF StepOwner
    <3>2. QED BY <3>1 DEF Ends
  <2>3. n % 2 = 1
    BY <1>2, <1>10, <2>2 DEF StepOwner
  <2>4. Spoken(e, c, q)
    BY <1>2, <1>3, <2>2, <2>3 DEF Spoken
  <2>5. QED BY <2>1, <2>4 DEF v
<1>11. CASE ~ (n >= Steps) /\ StepOwner(n) = e
  <2> DEFINE d == [q EXCEPT !.ssh = n + 1, !.open = o, !.read = r]
  <2>1. w2 = [w1 EXCEPT !.c = d]
    BY <1>4, <1>8 DEF Work, w2
  <2>2. o \in BOOLEAN /\ r \in Int /\ n + 1 \in Int
    BY <1>1, <1>2, <1>8
  <2>3. (q.open => o) /\ (o => q.open \/ (n + 1 = Steps /\ e = "server")) /\ ((n + 1 = Steps /\ e = "server") => o)
    BY <1>8
  <2> HIDE DEF o, r
  <2>4. d \in RecordType /\ Kin(q, d) /\ d.open = o /\ d.ssh = n + 1 /\ d.nxt = q.nxt /\ d.sent = q.sent /\ d.unacked = q.unacked
    BY <1>3, <2>2 DEF RecordType, Kin
  <2> HIDE DEF d
  <2>5. Edited("ssh", q, d)
    BY <1>2, <1>3, <2>3, <2>4 DEF Edited, Kin, Later, IsLive
  <2>6. CoreWork(e, "ssh", w2) /\ w2.c = d
    BY <1>7, <1>8, <2>1, <2>5, EditedWork
  <2>7. "ssh" \in Datas \ {"none"}
    BY DEF Datas
  <2>8. e = "server" => n = 2 * c.sent + 1 /\ c.nxt = 1 + c.sent
    BY <1>2, <1>11
  <2>9. Fits(e, "ssh", d, "ssh")
    <3>1. (e = "server" /\ 2 * c.nxt >= Steps) => o
      BY <1>2, <1>11, <2>3, <2>8
    <3>2. d.nxt = c.nxt /\ d.open = o
      BY <1>3, <2>4
    <3>3. QED BY <3>1, <3>2 DEF Fits, Web, Ends
  <2>10. CoreWork(e, "ssh", v) /\ Moved(d, v.c, 1, 1)
    BY <1>5, <1>8, <1>11, <2>6, <2>7, <2>9, SendDataWork
  <2>11. Kin(c, v.c) /\ v.c.open = o /\ v.c.ssh = n + 1 /\ v.c.nxt = c.nxt + 1 /\ v.c.sent = c.sent + 1
    BY <1>3, <2>4, <2>10 DEF Moved, Kin
  <2>12. c.open = q.open
    BY <1>3
  <2>13. CASE e = "client"
    BY <1>2, <2>3, <2>11, <2>12, <2>13, <2>10 DEF Spoken, v
  <2>14. CASE e = "server"
    BY <1>2, <2>3, <2>8, <2>11, <2>12, <2>14, <2>10 DEF Spoken, v
  <2>15. QED BY <2>13, <2>14 DEF Ends
<1>12. QED BY <1>9, <1>10, <1>11

\* The answer: as many segments as it takes, and the end of it.
LEMMA AnswerSaid ==
  ASSUME NEW a, a # "ssh", NEW c \in RecordType, Server(a, c), c.st = "ESTABLISHED", c.tls # "wait",
         NEW s \in Answer("server", c)
  PROVE  Said("server", a, c, s) /\ Consumes(s) = 1
<1> DEFINE z == Segment("server", c, "response")
<1>1. c.nxt \in Nat /\ c.rcv \in Nat /\ c.sent \in Nat /\ c.tls \in {"no", "wait", "done"}
  BY DEF RecordType
<1>2. Segments \in Nat /\ Segments >= 1 /\ "server" \in Ends /\ "response" \in Datas
  BY ConstTypes DEF Ends, Datas
<1>3. /\ z \in SegmentType /\ z.to = Peer("server") /\ z.seq = c.nxt /\ z.ack = c.rcv
      /\ ~ z.syn /\ ~ z.fin /\ z.data = "response"
  BY <1>2, Segmented
<1>4. Web(a) => c.nxt + Segments = Whole(a) + 1
  BY <1>1, <1>2 DEF Server, Web, Whole, Num
<1>5. \/ \E k \in 0 .. Segments - 1 : s = [z EXCEPT !.seq = z.seq + k]
      \/ s = [z EXCEPT !.seq = z.seq + Segments, !.data = "none", !.fin = TRUE]
  BY DEF Answer
<1> HIDE DEF z
<1>6. CASE \E k \in 0 .. Segments - 1 : s = [z EXCEPT !.seq = z.seq + k]
  <2>1. PICK k \in 0 .. Segments - 1 : s = [z EXCEPT !.seq = z.seq + k]
    BY <1>6
  <2>2. c.nxt + k \in Nat
    BY <1>1, <1>2
  <2>3. /\ s \in SegmentType /\ s.to = Peer("server") /\ s.seq = c.nxt + k /\ s.ack = c.rcv
        /\ ~ s.syn /\ ~ s.fin /\ s.data = "response"
    BY <1>3, <2>1, <2>2 DEF SegmentType
  <2>4. Consumes(s) = 1
    BY <2>3 DEF Consumes, DataLen, Num
  <2>5. Web(a) => s.seq <= Whole(a)
    BY <1>1, <1>2, <1>4, <2>1, <2>3, WholeType
  <2>6. QED BY <1>1, <2>3, <2>4, <2>5 DEF Said, ByServer
<1>7. CASE s = [z EXCEPT !.seq = z.seq + Segments, !.data = "none", !.fin = TRUE]
  <2>1. c.nxt + Segments \in Nat
    BY <1>1, <1>2
  <2>2. /\ s \in SegmentType /\ s.to = Peer("server") /\ s.seq = c.nxt + Segments /\ s.ack = c.rcv
        /\ ~ s.syn /\ s.fin /\ s.data = "none"
    BY <1>3, <1>7, <2>1 DEF SegmentType
  <2>3. Consumes(s) = 1
    BY <2>2 DEF Consumes, DataLen, Num
  <2>4. QED BY <1>1, <1>4, <2>2, <2>3 DEF Said, ByServer
<1>8. QED BY <1>5, <1>6, <1>7

LEMMA AnswerWhole ==
  ASSUME NEW c \in RecordType, NEW n \in c.nxt .. c.nxt + Segments
  PROVE  \E s \in Answer("server", c) : s.seq = n
<1> DEFINE z == Segment("server", c, "response")
<1>1. c.nxt \in Nat /\ Segments \in Nat /\ Segments >= 1
  BY ConstTypes DEF RecordType
<1>2. "server" \in Ends /\ "response" \in Datas
  BY DEF Ends, Datas
<1>3. z \in SegmentType /\ z.seq = c.nxt
  BY <1>2, Segmented
<1>4. /\ \A k \in 0 .. Segments - 1 : [z EXCEPT !.seq = z.seq + k] \in Answer("server", c)
      /\ [z EXCEPT !.seq = z.seq + Segments, !.data = "none", !.fin = TRUE] \in Answer("server", c)
  BY DEF Answer
<1> HIDE DEF z
<1>5. CASE n = c.nxt + Segments
  <2>1. [z EXCEPT !.seq = z.seq + Segments, !.data = "none", !.fin = TRUE].seq = n
    BY <1>3, <1>5 DEF SegmentType
  <2>2. QED BY <1>4, <2>1
<1>6. CASE n # c.nxt + Segments
  <2>1. n - c.nxt \in 0 .. Segments - 1 /\ c.nxt + (n - c.nxt) = n
    BY <1>1, <1>6
  <2>2. [z EXCEPT !.seq = z.seq + (n - c.nxt)].seq = n
    BY <1>3, <2>1 DEF SegmentType
  <2>3. QED BY <1>4, <2>1, <2>2
<1>7. QED BY <1>5, <1>6

\* What a handler leaves of the record it found.
Since(e, a, c, d, s) ==
  /\ Later(c, d) /\ d.una = c.una /\ d.st # "NONE"
  /\ d.st = "SYN_RCVD" => c.st = "SYN_RCVD"
  /\ d.fin => c.fin \/ s.fin
  /\ (e = "client" /\ d.open) => c.open \/ (a = "ssh" /\ s.data # "none" /\ 2 * s.seq >= Steps)

LEMMA RespondWork ==
  ASSUME NEW a, a # "ssh", NEW w, CoreWork("server", a, w), Server(a, w.c), w.c.st = "ESTABLISHED",
         w.c.tls # "wait"
  PROVE  LET v == Respond("server", w)
         IN  /\ CoreWork("server", a, v) /\ Local("server", a, v.c)
             /\ v.c.st = "FIN_WAIT_1" /\ v.c.una = w.c.una /\ v.c.rcv = w.c.rcv
             /\ v.c.fin = w.c.fin /\ v.c.open = w.c.open
<1> DEFINE c == w.c
           y == Answer("server", c)
           x == {[seg |-> s, retries |-> 0] : s \in y}
           d == [c EXCEPT !.st = "FIN_WAIT_1", !.nxt = c.nxt + Segments + 1, !.sent = c.sent + Segments,
                          !.unacked = c.unacked \cup x]
           v == Respond("server", w)
<1>1. c \in RecordType /\ Core("server", a, c) /\ NoHole(c) /\ w = Work(c, w.out)
  BY DEF CoreWork, Core
<1>2. /\ c.nxt \in Nat /\ c.sent \in Nat /\ c.una \in Nat /\ c.rcv \in Nat /\ c.unacked \in SUBSET Kept
      /\ Segments \in Nat /\ 0 \in 0 .. MaxRetries
  BY <1>1, ConstTypes DEF RecordType
<1>3. v = Work(d, w.out \cup y)
  BY DEF Respond
<1>4. \A s \in y : Said("server", a, c, s) /\ Consumes(s) = 1
  BY <1>1, AnswerSaid
<1>5. \A n \in c.nxt .. c.nxt + Segments : \E s \in y : s.seq = n
  BY <1>1, AnswerWhole
<1> HIDE DEF y, v
<1>6. x \in SUBSET Kept
  BY <1>2, <1>4 DEF Kept, Said
<1>7. /\ \A u \in x : u.seg \in y
      /\ \A s \in y : \E u \in x : u.seg = s
  <2>1. ASSUME NEW s \in y PROVE \E u \in x : u.seg = s
    <3>1. [seg |-> s, retries |-> 0] \in x /\ [seg |-> s, retries |-> 0].seg = s
      BY <2>1
    <3>2. QED BY <3>1
  <2>2. ASSUME NEW u \in x PROVE u.seg \in y
    BY <2>2
  <2>3. QED BY <2>1, <2>2
<1> HIDE DEF x
<1>8. /\ d \in RecordType /\ d.st = "FIN_WAIT_1" /\ d.nxt = c.nxt + Segments + 1
      /\ d.unacked = c.unacked \cup x /\ d.una = c.una /\ d.rcv = c.rcv /\ d.fin = c.fin
      /\ d.ssh = c.ssh /\ d.open = c.open /\ d.deferred = c.deferred
  <2>1. /\ c.nxt + Segments + 1 \in Nat /\ c.sent + Segments \in Nat /\ c.unacked \cup x \in SUBSET Kept
        /\ "FIN_WAIT_1" \in States
    BY <1>2, <1>6 DEF States, Flowing
  <2>2. \A st \in States, n \in Nat, m \in Nat, z \in SUBSET Kept :
           [c EXCEPT !.st = st, !.nxt = n, !.sent = m, !.unacked = z] \in RecordType
    BY <1>1 DEF RecordType
  <2>3. d \in RecordType
    BY <2>1, <2>2
  <2>4. QED BY <1>1, <2>3 DEF RecordType
<1> HIDE DEF d
<1>9. Later(c, d)
  BY <1>2, <1>8 DEF Later
<1>10. \A s : Said("server", a, c, s) => Said("server", a, d, s)
  BY <1>1, <1>8, <1>9, SaidLater
<1>11. \A u \in d.unacked : Said("server", a, d, u.seg) /\ Consumes(u.seg) = 1
  BY <1>1, <1>4, <1>7, <1>8, <1>10 DEF Core
<1>12. NoHole(d)
  <2> SUFFICES ASSUME NEW n \in d.una .. d.nxt - 1 PROVE \E u \in d.unacked : u.seg.seq = n
    BY DEF NoHole
  <2>1. n \in c.una .. c.nxt - 1 \/ n \in c.nxt .. c.nxt + Segments
    BY <1>2, <1>8
  <2>2. CASE n \in c.una .. c.nxt - 1
    <3>1. IsLive(c)
      BY DEF IsLive, Done
    <3>2. QED BY <1>1, <1>8, <2>2, <3>1 DEF NoHole
  <2>3. CASE n \in c.nxt .. c.nxt + Segments
    BY <1>5, <1>7, <1>8, <2>3
  <2>4. QED BY <2>1, <2>2, <2>3
<1>13. Core("server", a, d)
  BY <1>1, <1>8, <1>11, <1>12 DEF Core
<1>14. CoreWork("server", a, v) /\ v.c = d
  BY <1>3, <1>4, <1>10, <1>13 DEF CoreWork, Work
<1>15. Local("server", a, d)
  BY <1>8, <1>13 DEF Local, Server
<1>16. QED BY <1>8, <1>14, <1>15 DEF v

LEMMA ArmReadWork ==
  ASSUME NEW e, NEW a, NEW w, CoreWork(e, a, w)
  PROVE  CoreWork(e, a, ArmRead(w)) /\ Moved(w.c, ArmRead(w).c, 0, 0)
<1> DEFINE c == w.c
           d == [c EXCEPT !.read = 0]
<1>1. c \in RecordType /\ Core(e, a, c) /\ w = Work(c, w.out) /\ 0 \in Int
  BY DEF CoreWork, Core
<1>2. c.nxt \in Nat /\ c.sent \in Nat /\ c.rcv \in Nat
  BY <1>1 DEF RecordType
<1>3. ArmRead(w) = Work(d, w.out) /\ Work(d, w.out).c = d
  BY <1>1 DEF ArmRead, Work
<1>4. Moved(c, d, 0, 0) /\ d.unacked = c.unacked
  BY <1>1, <1>2 DEF Moved, RecordType
<1> HIDE DEF d
<1>5. Edited(a, c, d)
  BY <1>1, <1>2, <1>4 DEF Edited, Moved, Later, IsLive, Core
<1>6. CoreWork(e, a, Work(d, w.out))
  BY <1>5, EditedWork
<1>7. QED BY <1>3, <1>4, <1>6

LEMMA SendRequestWork ==
  ASSUME NEW a, NEW w, CoreWork("client", a, w), a = "https" => w.c.nxt # 1
  PROVE  CoreWork("client", a, SendRequest("client", w)) /\ Moved(w.c, SendRequest("client", w).c, 1, 1)
<1> DEFINE v == SendData("client", w, "request")
<1>1. "client" \in Ends /\ "request" \in Datas \ {"none"}
  BY DEF Ends, Datas
<1>2. Fits("client", a, w.c, "request")
  BY DEF Fits
<1>3. CoreWork("client", a, v) /\ Moved(w.c, v.c, 1, 1)
  BY <1>1, <1>2, SendDataWork
<1>4. SendRequest("client", w) = ArmRead(v)
  BY DEF SendRequest
<1> HIDE DEF v
<1>5. CoreWork("client", a, ArmRead(v)) /\ Moved(v.c, ArmRead(v).c, 0, 0)
  BY <1>3, ArmReadWork
<1>6. w.c.nxt \in Nat /\ w.c.sent \in Nat
  BY DEF CoreWork, Core, RecordType
<1>7. QED BY <1>3, <1>4, <1>5, <1>6 DEF Moved

\* tls: what the record says of the handshake is t.
LEMMA TlsWork ==
  ASSUME NEW e, NEW a, NEW w, CoreWork(e, a, w), NEW t \in {"no", "wait", "done"}
  PROVE  LET v == [w EXCEPT !.c.tls = t]
         IN  CoreWork(e, a, v) /\ v.c = [w.c EXCEPT !.tls = t] /\ v.c \in RecordType
<1> DEFINE c == w.c
           d == [c EXCEPT !.tls = t]
           v == [w EXCEPT !.c.tls = t]
<1>1. c \in RecordType /\ Core(e, a, c) /\ w = Work(c, w.out)
  BY DEF CoreWork, Core
<1>2. c.nxt \in Nat /\ c.sent \in Nat /\ c.rcv \in Nat
  BY <1>1 DEF RecordType
<1>3. v = Work(d, w.out) /\ Work(d, w.out).c = d
  BY <1>1 DEF Work
<1>4. /\ d \in RecordType /\ d.unacked = c.unacked /\ d.nxt = c.nxt /\ d.una = c.una /\ d.sent = c.sent
      /\ d.st = c.st /\ d.ssh = c.ssh /\ d.open = c.open /\ d.rcv = c.rcv /\ d.fin = c.fin
  BY <1>1 DEF RecordType
<1>5. d = [w.c EXCEPT !.tls = t]
  OBVIOUS
<1> HIDE DEF d
<1>6. Edited(a, c, d)
  BY <1>1, <1>2, <1>4 DEF Edited, Later, IsLive, Core
<1>7. CoreWork(e, a, Work(d, w.out))
  BY <1>6, EditedWork
<1>8. QED BY <1>3, <1>4, <1>5, <1>7

\* What a handshake leaves alone.
Greeted(c, d, t) ==
  /\ d \in RecordType /\ d.st = c.st /\ d.una = c.una /\ d.rcv = c.rcv /\ d.fin = c.fin
  /\ d.ssh = c.ssh /\ d.open = c.open /\ d.got = c.got /\ d.deferred = c.deferred /\ d.tls = t

LEMMA TlsHelloWork ==
  ASSUME NEW a, NEW w, CoreWork("client", a, w), w.c.nxt = 1
  PROVE  LET v == TlsHello("client", w)
         IN  CoreWork("client", a, v) /\ Greeted(w.c, v.c, "wait") /\ v.c.nxt = 2
<1> DEFINE x == [w EXCEPT !.c.tls = "wait"]
           y == SendData("client", x, "client-hello")
           v == TlsHello("client", w)
<1>1. "client" \in Ends /\ "client-hello" \in Datas \ {"none"} /\ w.c \in RecordType
  BY DEF Ends, Datas, CoreWork, Core
<1>2. CoreWork("client", a, x) /\ x.c = [w.c EXCEPT !.tls = "wait"] /\ x.c \in RecordType
  BY TlsWork
<1>3. v = ArmRead(y)
  BY DEF TlsHello
<1> HIDE DEF x
<1>4. Greeted(w.c, x.c, "wait") /\ x.c.nxt = 1 /\ x.c.sent \in Nat
  BY <1>1, <1>2 DEF Greeted, RecordType
<1>5. Fits("client", a, x.c, "client-hello")
  BY <1>4 DEF Fits
<1>6. CoreWork("client", a, y) /\ Moved(x.c, y.c, 1, 1)
  BY <1>1, <1>2, <1>5, SendDataWork
<1> HIDE DEF y
<1>7. CoreWork("client", a, v) /\ Moved(y.c, v.c, 0, 0)
  BY <1>3, <1>6, ArmReadWork
<1> HIDE DEF v
<1>8. Greeted(w.c, v.c, "wait") /\ v.c.nxt = 2
  BY <1>4, <1>6, <1>7 DEF Greeted, Moved
<1>9. QED BY <1>7, <1>8 DEF v

LEMMA HandshakeOfClient ==
  ASSUME NEW a, NEW w, CoreWork("client", a, w), w.c.nxt >= 2, NEW s
  PROVE  LET v == Handshake("client", w, s)
         IN  CoreWork("client", a, v) /\ Greeted(w.c, v.c, "done") /\ v.c.nxt >= 2
<1> DEFINE x == [w EXCEPT !.c.tls = "done"]
           y == SendData("client", x, "finished")
           v == Handshake("client", w, s)
<1>1. "client" \in Ends /\ "finished" \in Datas \ {"none"} /\ w.c \in RecordType /\ w.c.nxt \in Nat
  BY DEF Ends, Datas, CoreWork, Core, RecordType
<1>2. CoreWork("client", a, x) /\ x.c = [w.c EXCEPT !.tls = "done"] /\ x.c \in RecordType
  BY TlsWork
<1>3. v = SendRequest("client", y)
  BY DEF Handshake
<1> HIDE DEF x
<1>4. Greeted(w.c, x.c, "done") /\ x.c.nxt = w.c.nxt /\ x.c.sent \in Nat
  BY <1>1, <1>2 DEF Greeted, RecordType
<1>5. Fits("client", a, x.c, "finished")
  BY <1>1, <1>4 DEF Fits
<1>6. CoreWork("client", a, y) /\ Moved(x.c, y.c, 1, 1)
  BY <1>1, <1>2, <1>5, SendDataWork
<1> HIDE DEF y
<1>7. y.c.nxt = w.c.nxt + 1 /\ y.c.nxt # 1
  BY <1>1, <1>4, <1>6 DEF Moved
<1>8. CoreWork("client", a, v) /\ Moved(y.c, v.c, 1, 1)
  BY <1>3, <1>6, <1>7, SendRequestWork
<1> HIDE DEF v
<1>9. Greeted(w.c, v.c, "done") /\ v.c.nxt >= 2
  BY <1>1, <1>4, <1>6, <1>7, <1>8 DEF Greeted, Moved
<1>10. QED BY <1>8, <1>9 DEF v

\* the hello of the client is answered, what comes after it ends the handshake
LEMMA HandshakeOfServer ==
  ASSUME NEW a, a # "ssh", NEW w, CoreWork("server", a, w), NEW s,
         s.data = "client-hello" => w.c.sent = 0 /\ w.c.nxt = 1
  PROVE  LET v == Handshake("server", w, s)
         IN  /\ CoreWork("server", a, v)
             /\ IF s.data = "client-hello"
                THEN Greeted(w.c, v.c, w.c.tls) /\ v.c.nxt = 2 /\ v.c.sent = 1 /\ v.c.tlsSent = 1
                ELSE /\ Greeted(w.c, v.c, "done") /\ v.c.nxt = w.c.nxt /\ v.c.sent = w.c.sent
                     /\ v.c.tlsSent = w.c.tlsSent
<1> DEFINE c == w.c
           v == Handshake("server", w, s)
<1>1. "server" \in Ends /\ "server-hello" \in Datas \ {"none"} /\ c \in RecordType /\ w = Work(c, w.out)
  BY DEF Ends, Datas, CoreWork, Core
<1>2. c.nxt \in Nat /\ c.sent \in Nat /\ c.rcv \in Nat /\ Core("server", a, c)
  BY <1>1 DEF RecordType, CoreWork
<1>3. CASE s.data = "client-hello"
  <2> DEFINE d == [c EXCEPT !.tlsSent = c.sent + 1]
             x == [w EXCEPT !.c.tlsSent = c.sent + 1]
  <2>1. v = SendData("server", x, "server-hello")
    BY <1>3 DEF Handshake
  <2>2. x = Work(d, w.out) /\ Work(d, w.out).c = d
    BY <1>1 DEF Work
  <2>3. /\ Greeted(c, d, c.tls) /\ d.unacked = c.unacked /\ d.nxt = c.nxt /\ d.una = c.una /\ d.sent = c.sent
        /\ d.tlsSent = c.sent + 1
    BY <1>1, <1>2 DEF Greeted, RecordType
  <2> HIDE DEF d
  <2>4. Edited(a, c, d)
    BY <1>2, <2>3 DEF Edited, Greeted, Later, IsLive, Core
  <2>5. CoreWork("server", a, Work(d, w.out))
    BY <2>4, EditedWork
  <2> HIDE DEF x
  <2>6. CoreWork("server", a, x) /\ x.c = d
    BY <2>2, <2>5
  <2>7. Fits("server", a, x.c, "server-hello")
    BY <1>3, <2>3, <2>6, WholeType DEF Fits
  <2>8. CoreWork("server", a, v) /\ Moved(d, v.c, 1, 1)
    BY <1>1, <2>1, <2>6, <2>7, SendDataWork
  <2> HIDE DEF v
  <2>9. Greeted(c, v.c, c.tls) /\ v.c.nxt = 2 /\ v.c.sent = 1 /\ v.c.tlsSent = 1
    BY <1>2, <1>3, <2>3, <2>8 DEF Greeted, Moved
  <2>10. QED BY <1>3, <2>8, <2>9 DEF v
<1>4. CASE s.data # "client-hello"
  <2> DEFINE x == [w EXCEPT !.c.tls = "done"]
  <2>1. v = SendAck("server", x)
    BY <1>4 DEF Handshake
  <2>2. CoreWork("server", a, x) /\ x.c = [c EXCEPT !.tls = "done"] /\ x.c \in RecordType
    BY TlsWork
  <2> HIDE DEF x
  <2>3. Greeted(c, x.c, "done") /\ x.c.nxt = c.nxt /\ x.c.sent = c.sent /\ x.c.tlsSent = c.tlsSent
    BY <1>1, <2>2 DEF Greeted, RecordType
  <2>4. CoreWork("server", a, v) /\ v.c = x.c
    BY <1>1, <2>1, <2>2, SendAckWork
  <2> HIDE DEF v
  <2>5. QED BY <1>4, <2>3, <2>4 DEF v
<1>5. QED BY <1>3, <1>4

LEMMA ServeWork ==
  ASSUME NEW w, CoreWork("server", app, w), Server(app, w.c), w.c.st = "ESTABLISHED", w.c.tls # "wait",
         w.c.ssh < 0, NEW defer \in BOOLEAN, defer => app # "ssh"
  PROVE  LET v == Serve("server", w, defer)
         IN  /\ CoreWork("server", app, v) /\ Server(app, v.c)
             /\ v.c.st \in {"ESTABLISHED", "FIN_WAIT_1"} /\ v.c.una = w.c.una /\ v.c.rcv = w.c.rcv
             /\ v.c.fin = w.c.fin /\ (w.c.open => v.c.open)
<1> DEFINE c == w.c
           v == Serve("server", w, defer)
<1>1. "server" \in Ends /\ c \in RecordType /\ w = Work(c, w.out) /\ Core("server", app, c)
  BY DEF Ends, CoreWork, Core
<1>2. c.nxt \in Nat /\ c.sent \in Nat /\ c.rcv \in Nat /\ Steps \in Nat /\ c.ssh \in Int
  BY <1>1, ConstTypes DEF RecordType
<1>3. CASE defer
  <2> DEFINE d == [c EXCEPT !.deferred = TRUE]
             x == [w EXCEPT !.c.deferred = TRUE]
  <2>1. v = SendAck("server", x)
    BY <1>3 DEF Serve
  <2>2. x = Work(d, w.out) /\ Work(d, w.out).c = d
    <3>1. \A t : [w EXCEPT !.c.deferred = t] = Work([c EXCEPT !.deferred = t], w.out)
      BY <1>1 DEF Work
    <3>2. QED BY <3>1 DEF Work
  <2>3. /\ d \in RecordType /\ d.unacked = c.unacked /\ d.nxt = c.nxt /\ d.una = c.una /\ d.sent = c.sent
        /\ d.st = c.st /\ d.ssh = c.ssh /\ d.open = c.open /\ d.rcv = c.rcv /\ d.fin = c.fin
        /\ d.tls = c.tls /\ d.tlsSent = c.tlsSent
    BY <1>1 DEF RecordType
  <2> HIDE DEF d
  <2>4. Edited(app, c, d)
    BY <1>1, <1>2, <2>3 DEF Edited, Later, IsLive, Core
  <2>5. CoreWork("server", app, Work(d, w.out))
    BY <2>4, EditedWork
  <2> HIDE DEF x
  <2>6. CoreWork("server", app, v) /\ v.c = d
    BY <1>1, <2>1, <2>2, <2>5, SendAckWork
  <2> HIDE DEF v
  <2>7. Server(app, d)
    BY <1>3, <2>3 DEF Server
  <2>8. QED BY <2>3, <2>6, <2>7 DEF v
<1>4. CASE ~ defer /\ app = "ssh"
  <2> DEFINE d == [c EXCEPT !.ssh = 1]
             x == [w EXCEPT !.c.ssh = 1]
  <2>1. v = SshNext("server", x)
    BY <1>4 DEF Serve
  <2>2. x = Work(d, w.out) /\ Work(d, w.out).c = d
    BY <1>1 DEF Work
  <2>3. /\ d \in RecordType /\ d.unacked = c.unacked /\ d.nxt = c.nxt /\ d.una = c.una /\ d.sent = c.sent
        /\ d.st = c.st /\ d.ssh = 1 /\ d.open = c.open /\ d.rcv = c.rcv /\ d.fin = c.fin
        /\ d.tls = c.tls /\ d.tlsSent = c.tlsSent /\ d.deferred = c.deferred
    BY <1>1 DEF RecordType
  <2> HIDE DEF d
  <2>4. Edited(app, c, d)
    BY <1>1, <1>2, <1>4, <2>3 DEF Edited, Later, IsLive, Core
  <2>5. CoreWork("server", app, Work(d, w.out))
    BY <2>4, EditedWork
  <2> HIDE DEF x
  <2>6. CoreWork("server", "ssh", x) /\ x.c = d
    BY <1>4, <2>2, <2>5
  <2>7. c.sent = 0 /\ c.nxt = 1
    BY <1>2, <1>4, ConstTypes DEF Server
  <2>8. x.c.ssh \in Nat /\ x.c.nxt = 1 + x.c.sent /\ x.c.ssh = 2 * x.c.sent + 1
    BY <2>3, <2>6, <2>7
  <2>9. CoreWork("server", "ssh", v) /\ Spoken("server", d, v.c)
    BY <1>1, <2>1, <2>6, <2>8, SshNextWork
  <2> HIDE DEF v
  <2>10. /\ v.c.st = c.st /\ v.c.una = c.una /\ v.c.rcv = c.rcv /\ v.c.fin = c.fin
         /\ v.c.tls = c.tls /\ v.c.tlsSent = c.tlsSent /\ v.c.deferred = c.deferred
         /\ (c.open => v.c.open) /\ v.c.nxt = 1 + v.c.sent
         /\ v.c.ssh >= Steps \/ v.c.ssh = 2 * v.c.sent
    BY <2>3, <2>9 DEF Spoken, Kin
  <2>11. Server(app, v.c)
    BY <1>4, <2>10 DEF Server
  <2>12. QED BY <1>4, <2>9, <2>10, <2>11 DEF v
<1>5. CASE ~ defer /\ app # "ssh"
  <2>1. v = Respond("server", w)
    BY <1>5 DEF Serve
  <2> HIDE DEF v
  <2>2. /\ CoreWork("server", app, v) /\ Local("server", app, v.c)
        /\ v.c.st = "FIN_WAIT_1" /\ v.c.una = w.c.una /\ v.c.rcv = w.c.rcv
        /\ v.c.fin = w.c.fin /\ v.c.open = w.c.open
    BY <1>5, <2>1, RespondWork
  <2>3. QED BY <2>2 DEF v, Local
<1>6. QED BY <1>3, <1>4, <1>5

-------------------------------------------------------------------------------
(* Receiving *)

\* q is c with one data segment more.
Taken(c, q) ==
  /\ q \in RecordType /\ q.rcv = c.rcv + 1 /\ q.got = c.got + 1
  /\ q.st = c.st /\ q.una = c.una /\ q.nxt = c.nxt /\ q.sent = c.sent /\ q.fin = c.fin
  /\ q.ssh = c.ssh /\ q.open = c.open /\ q.tls = c.tls /\ q.tlsSent = c.tlsSent /\ q.deferred = c.deferred

LEMMA TakenWork ==
  ASSUME NEW e, NEW a, NEW w, CoreWork(e, a, w), NEW n, n = w.c.rcv, NEW r \in Int
  PROVE  LET x == [w EXCEPT !.c.rcv = n + 1, !.c.got = w.c.got + 1, !.c.read = r]
         IN  CoreWork(e, a, x) /\ Taken(w.c, x.c)
<1> DEFINE c == w.c
           q == [c EXCEPT !.rcv = n + 1, !.got = c.got + 1, !.read = r]
           x == [w EXCEPT !.c.rcv = n + 1, !.c.got = w.c.got + 1, !.c.read = r]
<1>1. c \in RecordType /\ Core(e, a, c) /\ w = Work(c, w.out)
  BY DEF CoreWork, Core
<1>2. c.nxt \in Nat /\ c.sent \in Nat /\ c.rcv \in Nat /\ c.got \in Nat
  BY <1>1 DEF RecordType
<1>3. x = Work(q, w.out) /\ Work(q, w.out).c = q
  <2> DEFINE w1 == [w EXCEPT !.c.rcv = n + 1]
             w2 == [w1 EXCEPT !.c.got = w.c.got + 1]
             w3 == [w2 EXCEPT !.c.read = r]
             c1 == [c EXCEPT !.rcv = n + 1]
             c2 == [c1 EXCEPT !.got = c.got + 1]
             c3 == [c2 EXCEPT !.read = r]
  <2>1. x = w3 /\ q = c3
    OBVIOUS
  <2>2. w1 = Work(c1, w.out)
    BY <1>1 DEF Work
  <2> HIDE DEF w1, c1
  <2>3. w2 = Work(c2, w.out)
    BY <2>2 DEF Work
  <2> HIDE DEF w2, c2
  <2>4. w3 = Work(c3, w.out)
    BY <2>3 DEF Work
  <2> HIDE DEF w3, c3, x, q
  <2>5. QED BY <2>1, <2>4 DEF Work
<1>4. Taken(c, q) /\ q.unacked = c.unacked
  <2>1. n + 1 \in Nat /\ c.got + 1 \in Nat /\ n = c.rcv
    BY <1>2
  <2>2. \A i \in Nat, j \in Nat, k \in Int : [c EXCEPT !.rcv = i, !.got = j, !.read = k] \in RecordType
    BY <1>1 DEF RecordType
  <2>3. q \in RecordType
    BY <2>1, <2>2
  <2>4. QED BY <1>1, <2>1, <2>3 DEF Taken, RecordType
<1> HIDE DEF q
<1>5. Edited(a, c, q)
  BY <1>1, <1>2, <1>4 DEF Edited, Taken, Later, IsLive, Core
<1>6. CoreWork(e, a, Work(q, w.out))
  BY <1>5, EditedWork
<1> HIDE DEF x
<1>7. QED BY <1>3, <1>4, <1>6 DEF x

\* What receiveData does with w, the record it has taken the data into.
Turn(e, c, w, s, defer) ==
  IF c.st = "ESTABLISHED" /\ c.ssh >= 0 THEN SshNext(e, [w EXCEPT !.c.ssh = w.c.ssh + 1])
  ELSE IF c.st = "ESTABLISHED" /\ c.tls = "wait" THEN Handshake(e, w, s)
  ELSE IF c.st = "ESTABLISHED" /\ e = "server" /\ c.sent = c.tlsSent /\ ~ c.deferred THEN Serve(e, w, defer)
  ELSE SendAck(e, w)

LEMMA ReceiveDataCases ==
  ASSUME NEW e, NEW a, NEW w, CoreWork(e, a, w), NEW s, NEW defer
  PROVE  IF s.seq # w.c.rcv THEN ReceiveData(e, w, s, defer) = SendAck(e, w)
         ELSE \E x : /\ ReceiveData(e, w, s, defer) = Turn(e, w.c, x, s, defer)
                     /\ CoreWork(e, a, x) /\ Taken(w.c, x.c)
<1> DEFINE c == w.c
           r == IF e = "client" /\ c.ssh = -1 /\ c.st = "ESTABLISHED" THEN 0
                ELSE IF e = "client" THEN -1 ELSE c.read
           x == [w EXCEPT !.c.rcv = s.seq + 1, !.c.got = w.c.got + 1, !.c.read = r]
           y == [x EXCEPT !.c.ssh = x.c.ssh + 1]
           v == ReceiveData(e, w, s, defer)
           up == c.st = "ESTABLISHED"
           began == c.ssh >= 0
           fresh == c.ssh < 0
<1>1. v = CASE s.seq # c.rcv -> SendAck(e, w)
            [] s.seq = c.rcv /\ up /\ began -> SshNext(e, y)
            [] s.seq = c.rcv /\ up /\ fresh /\ c.tls = "wait" -> Handshake(e, x, s)
            [] s.seq = c.rcv /\ up /\ fresh /\ c.tls # "wait" /\ e = "server"
                 /\ c.sent = c.tlsSent /\ ~ c.deferred -> Serve(e, x, defer)
            [] OTHER -> SendAck(e, x)
  BY DEF ReceiveData
<1>2. r \in Int /\ c.ssh \in Int
  BY DEF CoreWork, Core, RecordType
<1>3. ASSUME s.seq = c.rcv PROVE CoreWork(e, a, x) /\ Taken(c, x.c)
  BY <1>2, <1>3, TakenWork
<1> DEFINE t == Turn(e, c, x, s, defer)
<1>4. t = IF up /\ began THEN SshNext(e, y)
          ELSE IF up /\ c.tls = "wait" THEN Handshake(e, x, s)
          ELSE IF up /\ e = "server" /\ c.sent = c.tlsSent /\ ~ c.deferred THEN Serve(e, x, defer)
          ELSE SendAck(e, x)
  BY DEF Turn
<1>5. began <=> ~ fresh
  BY <1>2
<1> HIDE DEF v, x, y, r, t, up, began, fresh
<1>6. s.seq # c.rcv => v = SendAck(e, w)
  BY <1>1, Zenon
<1>7. s.seq = c.rcv => v = t
  <2>1. CASE s.seq = c.rcv /\ up /\ began
    BY <1>1, <1>4, <1>5, <2>1, Zenon
  <2>2. CASE s.seq = c.rcv /\ up /\ fresh /\ c.tls = "wait"
    BY <1>1, <1>4, <1>5, <2>2, Zenon
  <2>3. CASE s.seq = c.rcv /\ up /\ fresh /\ c.tls # "wait" /\ e = "server" /\ c.sent = c.tlsSent /\ ~ c.deferred
    BY <1>1, <1>4, <1>5, <2>3, Zenon
  <2>4. CASE s.seq = c.rcv /\ (~ up \/ (fresh /\ c.tls # "wait" /\ (e # "server" \/ c.sent # c.tlsSent \/ c.deferred)))
    BY <1>1, <1>4, <1>5, <2>4, Zenon
  <2>5. QED BY <1>5, <2>1, <2>2, <2>3, <2>4, Zenon
<1>8. QED BY <1>3, <1>6, <1>7 DEF v, t

\* The record d is c but for the number of SSH messages.
Counted(c, d, n) ==
  /\ d \in RecordType /\ d.ssh = n /\ d.st = c.st /\ d.una = c.una /\ d.nxt = c.nxt /\ d.rcv = c.rcv
  /\ d.sent = c.sent /\ d.got = c.got /\ d.fin = c.fin /\ d.open = c.open /\ d.tls = c.tls
  /\ d.tlsSent = c.tlsSent /\ d.deferred = c.deferred

LEMMA CountedWork ==
  ASSUME NEW e, NEW w, CoreWork(e, "ssh", w), NEW n \in Int
  PROVE  LET x == [w EXCEPT !.c.ssh = n]
         IN  CoreWork(e, "ssh", x) /\ Counted(w.c, x.c, n)
<1> DEFINE c == w.c
           d == [c EXCEPT !.ssh = n]
           x == [w EXCEPT !.c.ssh = n]
<1>1. c \in RecordType /\ w = Work(c, w.out)
  BY DEF CoreWork, Core
<1>2. c.nxt \in Nat /\ c.sent \in Nat /\ c.rcv \in Nat
  BY <1>1 DEF RecordType
<1>3. x = Work(d, w.out) /\ Work(d, w.out).c = d
  BY <1>1 DEF Work
<1>4. Counted(c, d, n) /\ d.unacked = c.unacked
  BY <1>1 DEF Counted, RecordType
<1> HIDE DEF d
<1>5. Edited("ssh", c, d)
  BY <1>2, <1>4 DEF Edited, Counted, Later, IsLive
<1>6. CoreWork(e, "ssh", Work(d, w.out))
  BY <1>5, EditedWork
<1> HIDE DEF x
<1>7. QED BY <1>3, <1>4, <1>6 DEF x

LEMMA DataToClient ==
  ASSUME NEW w, CoreWork("client", app, w), Local("client", app, w.c), w.c.st \in Flowing,
         NEW s, s.data # "none", Web(app) => s.seq <= Whole(app), NEW defer
  PROVE  LET v == ReceiveData("client", w, s, defer)
         IN  CoreWork("client", app, v) /\ Local("client", app, v.c) /\ Since("client", app, w.c, v.c, s)
<1> DEFINE c == w.c
           v == ReceiveData("client", w, s, defer)
<1>1. "client" \in Ends /\ c \in RecordType /\ Client(app, c) /\ Core("client", app, c)
  BY DEF Ends, Local, Core
<1>2. c.nxt \in Nat /\ c.rcv \in Nat /\ c.got \in Nat /\ c.ssh \in Int /\ Steps \in Nat
  BY <1>1, ConstTypes DEF RecordType
<1>3. c.st \notin {"NONE", "SYN_SENT", "SYN_RCVD"}
  BY DEF Flowing
<1> HIDE DEF v
<1>4. CASE s.seq # c.rcv
  <2>1. CoreWork("client", app, v) /\ v.c = c
    BY <1>1, <1>4, ReceiveDataCases, SendAckWork DEF v
  <2>2. Since("client", app, c, c, s)
    BY <1>2, <1>3 DEF Since, Later
  <2>3. QED BY <2>1, <2>2 DEF v
<1>5. CASE s.seq = c.rcv
  <2>1. PICK x : v = Turn("client", c, x, s, defer) /\ CoreWork("client", app, x) /\ Taken(c, x.c)
    BY <1>5, ReceiveDataCases DEF v
  <2> DEFINE q == x.c
  <2>2. /\ q.rcv = c.rcv + 1 /\ q.got = c.got + 1
        /\ q.st = c.st /\ q.una = c.una /\ q.nxt = c.nxt /\ q.fin = c.fin
        /\ q.ssh = c.ssh /\ q.open = c.open /\ q.tls = c.tls
    BY <2>1 DEF Taken
  <2> HIDE DEF q
  <2>3. Web(app) => ~ c.fin
    BY <1>1, <1>2, <1>5, WholeType DEF Client
  <2>4. CASE c.st = "ESTABLISHED" /\ c.ssh >= 0
    <3> DEFINE y == [x EXCEPT !.c.ssh = x.c.ssh + 1]
    <3>1. v = SshNext("client", y)
      BY <2>1, <2>4 DEF Turn
    <3>2. app = "ssh"
      BY <1>1, <2>4 DEF Core
    <3>3. x.c.ssh + 1 \in Nat /\ x.c.ssh = c.ssh
      BY <1>2, <2>2, <2>4 DEF q
    <3>4. CoreWork("client", "ssh", y) /\ Counted(x.c, y.c, x.c.ssh + 1)
      BY <2>1, <3>2, <3>3, CountedWork
    <3> HIDE DEF y
    <3>5. CoreWork("client", "ssh", v) /\ Spoken("client", y.c, v.c)
      BY <1>1, <3>1, <3>3, <3>4, SshNextWork DEF Counted
    <3> DEFINE d == v.c
    <3>6. /\ d.st = c.st /\ d.una = c.una /\ d.rcv = c.rcv + 1 /\ d.fin = c.fin /\ d.got = c.got + 1 /\ d.tls = c.tls
          /\ (c.open => d.open) /\ d.nxt >= c.nxt
          /\ d.open => c.open \/ c.ssh + 1 >= Steps
          /\ d.open \/ d.ssh = c.ssh + 1 + 1 \/ (c.ssh + 1) % 2 = 1
          /\ Core("client", app, d) /\ d.nxt \in Nat
      BY <2>2, <3>2, <3>3, <3>4, <3>5 DEF q, Counted, Spoken, Kin, CoreWork, Core, RecordType
    <3> HIDE DEF d
    <3>7. c.open \/ c.ssh = 2 * c.got + 1
      BY <1>1, <2>4, <3>2 DEF Client
    <3>8. d.open \/ d.ssh = 2 * (c.got + 1) + 1
      <4>1. CASE c.open
        BY <3>6, <4>1
      <4>2. CASE c.ssh = 2 * c.got + 1
        <5>1. c.ssh + 1 = 2 * (c.got + 1) /\ c.got + 1 \in Nat
          BY <1>2, <4>2
        <5>2. (c.ssh + 1) % 2 = 0
          BY <5>1, Parity
        <5>3. QED BY <3>6, <5>1, <5>2
      <4>3. QED BY <3>7, <4>1, <4>2
    <3>9. Client(app, d)
      BY <1>1, <1>2, <2>4, <3>2, <3>6, <3>8 DEF Client, Web
    <3>10. d.open => c.open \/ 2 * s.seq >= Steps
      BY <1>1, <1>2, <1>5, <2>4, <3>6, <3>7 DEF Client
    <3>11. Since("client", app, c, d, s)
      BY <1>2, <1>3, <3>2, <3>6, <3>10 DEF Since, Later
    <3>12. QED BY <3>2, <3>5, <3>6, <3>9, <3>11 DEF Local, d, v
  <2>5. CASE c.st = "ESTABLISHED" /\ ~ (c.ssh >= 0) /\ c.tls = "wait"
    <3>1. v = Handshake("client", x, s)
      BY <2>1, <2>5 DEF Turn
    <3>2. x.c.nxt >= 2
      BY <1>1, <2>2, <2>5 DEF Client, q
    <3>3. CoreWork("client", app, v) /\ Greeted(x.c, v.c, "done") /\ v.c.nxt >= 2
      BY <2>1, <3>1, <3>2, HandshakeOfClient
    <3> DEFINE d == v.c
    <3>4. /\ d.st = c.st /\ d.una = c.una /\ d.rcv = c.rcv + 1 /\ d.fin = c.fin /\ d.got = c.got + 1 /\ d.tls = "done"
          /\ d.open = c.open /\ d.ssh = c.ssh /\ Core("client", app, d)
      BY <2>2, <3>3 DEF q, Greeted, CoreWork
    <3> HIDE DEF d
    <3>5. Client(app, d)
      BY <1>1, <1>2, <2>3, <2>5, <3>4 DEF Client
    <3>6. Since("client", app, c, d, s)
      BY <1>2, <1>3, <3>4 DEF Since, Later
    <3>7. QED BY <3>3, <3>4, <3>5, <3>6 DEF Local, d, v
  <2>6. CASE ~ (c.st = "ESTABLISHED" /\ (c.ssh >= 0 \/ c.tls = "wait"))
    <3>1. v = SendAck("client", x)
      BY <2>1, <2>6 DEF Turn
    <3>2. CoreWork("client", app, v) /\ v.c = q
      BY <1>1, <2>1, <3>1, SendAckWork DEF q
    <3>3. Core("client", app, q)
      BY <3>2 DEF CoreWork
    <3>4. (app = "ssh" /\ c.st = "ESTABLISHED") => c.open
      BY <1>1, <1>2, <2>6 DEF Client
    <3>5. Client(app, q)
      BY <1>1, <1>2, <1>3, <2>2, <2>3, <3>4 DEF Client
    <3>6. Since("client", app, c, q, s)
      BY <1>2, <1>3, <2>2 DEF Since, Later
    <3>7. QED BY <3>2, <3>3, <3>5, <3>6 DEF Local, v
  <2>7. QED BY <2>4, <2>5, <2>6
<1>6. QED BY <1>4, <1>5

LEMMA DataToServer ==
  ASSUME NEW w, CoreWork("server", app, w), Local("server", app, w.c), w.c.st \in Flowing,
         NEW s, s.data # "none", app = "https" => (s.data = "client-hello" <=> s.seq = 1),
         NEW defer \in BOOLEAN, defer => app # "ssh"
  PROVE  LET v == ReceiveData("server", w, s, defer)
         IN  CoreWork("server", app, v) /\ Local("server", app, v.c) /\ Since("server", app, w.c, v.c, s)
<1> DEFINE c == w.c
           v == ReceiveData("server", w, s, defer)
<1>1. "server" \in Ends /\ c \in RecordType /\ Server(app, c) /\ Core("server", app, c)
  BY DEF Ends, Local, Core
<1>2. /\ c.nxt \in Nat /\ c.rcv \in Nat /\ c.got \in Nat /\ c.sent \in Nat /\ c.ssh \in Int /\ Steps \in Nat
      /\ Steps >= 1 /\ c.tls \in {"no", "wait", "done"}
  BY <1>1, ConstTypes DEF RecordType
<1>3. c.st \notin {"NONE", "SYN_SENT", "SYN_RCVD"}
  BY DEF Flowing
<1> HIDE DEF v
<1>4. CASE s.seq # c.rcv
  <2>1. CoreWork("server", app, v) /\ v.c = c
    BY <1>1, <1>4, ReceiveDataCases, SendAckWork DEF v
  <2>2. Since("server", app, c, c, s)
    BY <1>2, <1>3 DEF Since, Later
  <2>3. QED BY <2>1, <2>2 DEF v
<1>5. CASE s.seq = c.rcv
  <2>1. PICK x : v = Turn("server", c, x, s, defer) /\ CoreWork("server", app, x) /\ Taken(c, x.c)
    BY <1>5, ReceiveDataCases DEF v
  <2> DEFINE q == x.c
  <2>2. /\ q.rcv = c.rcv + 1 /\ q.got = c.got + 1
        /\ q.st = c.st /\ q.una = c.una /\ q.nxt = c.nxt /\ q.sent = c.sent /\ q.fin = c.fin
        /\ q.ssh = c.ssh /\ q.open = c.open /\ q.tls = c.tls /\ q.tlsSent = c.tlsSent /\ q.deferred = c.deferred
        /\ Core("server", app, q)
    BY <2>1 DEF Taken, CoreWork
  <2> HIDE DEF q
  <2>3. (c.st = "ESTABLISHED" /\ app = "https" /\ c.tls # "wait") => c.tlsSent = 1
    BY <1>1, <1>2 DEF Server
  <2>4. ~ (c.st = "ESTABLISHED" /\ c.tls = "wait") => Server(app, q)
    <3>1. CASE c.st # "ESTABLISHED"
      BY <1>1, <1>3, <2>2, <3>1 DEF Server
    <3>2. CASE c.st = "ESTABLISHED" /\ c.tls # "wait"
      <4>1. /\ ~ c.fin /\ c.rcv >= 1 /\ c.nxt = 1 + c.sent
            /\ app # "ssh" => c.sent = c.tlsSent
            /\ app = "https" => c.tls = "done" /\ c.tlsSent = 1
            /\ app # "https" => c.tls = "no" /\ c.tlsSent = 0
            /\ app = "ssh" => (c.ssh = -1 /\ c.sent = 0) \/ c.ssh = 2 * c.sent \/ c.ssh >= Steps
            /\ app = "ssh" => ~ c.deferred
        BY <1>1, <1>2, <2>3, <3>2 DEF Server
      <4>2. q.rcv >= 1
        BY <1>2, <2>2
      <4>3. QED BY <2>2, <3>2, <4>1, <4>2 DEF Server
    <3>3. QED BY <3>1, <3>2
  <2>5. CASE c.st = "ESTABLISHED" /\ c.ssh >= 0
    <3> DEFINE y == [x EXCEPT !.c.ssh = x.c.ssh + 1]
    <3>1. v = SshNext("server", y)
      BY <2>1, <2>5 DEF Turn
    <3>2. app = "ssh"
      BY <1>1, <2>5 DEF Core
    <3>3. x.c.ssh + 1 \in Nat /\ x.c.ssh = c.ssh
      BY <1>2, <2>2, <2>5 DEF q
    <3>4. CoreWork("server", "ssh", y) /\ Counted(x.c, y.c, x.c.ssh + 1)
      <4>1. CoreWork("server", "ssh", x) /\ x.c.ssh + 1 \in Int
        BY <2>1, <3>2, <3>3
      <4>2. QED BY <4>1, CountedWork
    <3> HIDE DEF y
    <3>5. c.nxt = 1 + c.sent /\ (c.ssh >= Steps \/ c.ssh = 2 * c.sent)
      BY <1>1, <1>2, <2>5, <3>2 DEF Server
    <3>6. y.c.ssh \in Nat /\ y.c.nxt = 1 + y.c.sent /\ (y.c.ssh >= Steps \/ y.c.ssh = 2 * y.c.sent + 1)
      BY <1>2, <2>2, <3>3, <3>4, <3>5 DEF q, Counted
    <3>7. CoreWork("server", "ssh", v) /\ Spoken("server", y.c, v.c)
      BY <1>1, <3>1, <3>4, <3>6, SshNextWork
    <3> DEFINE d == v.c
    <3>8. /\ d.st = c.st /\ d.una = c.una /\ d.rcv = c.rcv + 1 /\ d.fin = c.fin /\ d.tls = c.tls
          /\ d.tlsSent = c.tlsSent /\ d.deferred = c.deferred /\ (c.open => d.open)
          /\ d.nxt = 1 + d.sent /\ (d.ssh >= Steps \/ d.ssh = 2 * d.sent)
          /\ Core("server", app, d)
      BY <2>2, <3>2, <3>4, <3>7 DEF q, Counted, Spoken, Kin, CoreWork
    <3> HIDE DEF d
    <3>9. Server(app, d)
      BY <1>1, <1>2, <2>5, <3>2, <3>8 DEF Server
    <3>10. Since("server", app, c, d, s)
      BY <1>2, <1>3, <3>8 DEF Since, Later
    <3>11. QED BY <3>2, <3>7, <3>8, <3>9, <3>10 DEF Local, d, v
  <2>6. CASE c.st = "ESTABLISHED" /\ ~ (c.ssh >= 0) /\ c.tls = "wait"
    <3>1. v = Handshake("server", x, s)
      BY <2>1, <2>6 DEF Turn
    <3>2. app = "https" /\ c.nxt = 1 + c.sent /\ c.sent = c.tlsSent /\ ~ c.fin /\ c.rcv >= 1 /\ ~ c.deferred
          /\ (c.rcv = 1 => c.tlsSent = 0) /\ (c.rcv # 1 => c.tlsSent = 1) /\ app # "ssh"
      BY <1>1, <2>6 DEF Server
    <3>3. s.data = "client-hello" => x.c.sent = 0 /\ x.c.nxt = 1
      BY <1>2, <1>5, <2>2, <3>2 DEF q
    <3>4. /\ CoreWork("server", app, v)
          /\ IF s.data = "client-hello"
             THEN Greeted(x.c, v.c, x.c.tls) /\ v.c.nxt = 2 /\ v.c.sent = 1 /\ v.c.tlsSent = 1
             ELSE /\ Greeted(x.c, v.c, "done") /\ v.c.nxt = x.c.nxt /\ v.c.sent = x.c.sent
                  /\ v.c.tlsSent = x.c.tlsSent
      BY <2>1, <3>1, <3>2, <3>3, HandshakeOfServer
    <3> DEFINE d == v.c
    <3>5. /\ d.st = c.st /\ d.una = c.una /\ d.rcv = c.rcv + 1 /\ d.fin = c.fin /\ d.deferred = c.deferred
          /\ d.open = c.open /\ d.ssh = c.ssh /\ Core("server", app, d)
          /\ d.nxt = 1 + d.sent /\ d.sent = d.tlsSent /\ d.tlsSent = 1 /\ d.tls \in {"wait", "done"}
      <4>1. CASE s.data = "client-hello"
        BY <2>2, <2>6, <3>4, <4>1 DEF q, Greeted, CoreWork
      <4>2. CASE s.data # "client-hello"
        <5>1. c.tlsSent = 1
          BY <1>5, <3>2, <4>2
        <5>2. QED BY <2>2, <3>2, <3>4, <4>2, <5>1 DEF q, Greeted, CoreWork
      <4>3. QED BY <4>1, <4>2
    <3> HIDE DEF d
    <3>6. Server(app, d)
      BY <1>1, <1>2, <2>6, <3>2, <3>5 DEF Server
    <3>7. Since("server", app, c, d, s)
      BY <1>2, <1>3, <3>5 DEF Since, Later
    <3>8. QED BY <3>4, <3>5, <3>6, <3>7 DEF Local, d, v
  <2>7. CASE c.st = "ESTABLISHED" /\ ~ (c.ssh >= 0) /\ c.tls # "wait" /\ c.sent = c.tlsSent /\ ~ c.deferred
    <3>1. v = Serve("server", x, defer)
      BY <2>1, <2>7 DEF Turn
    <3>2. Server(app, x.c) /\ x.c.st = "ESTABLISHED" /\ x.c.tls # "wait" /\ x.c.ssh < 0
      BY <1>2, <2>2, <2>4, <2>7 DEF q
    <3>3. /\ CoreWork("server", app, v) /\ Server(app, v.c)
          /\ v.c.st \in {"ESTABLISHED", "FIN_WAIT_1"} /\ v.c.una = x.c.una /\ v.c.rcv = x.c.rcv
          /\ v.c.fin = x.c.fin /\ (x.c.open => v.c.open)
      BY <2>1, <3>1, <3>2, ServeWork
    <3>4. Since("server", app, c, v.c, s)
      BY <1>2, <2>2, <3>3 DEF q, Since, Later
    <3>5. QED BY <3>3, <3>4 DEF Local, v, CoreWork
  <2>8. CASE ~ (c.st = "ESTABLISHED" /\ (c.ssh >= 0 \/ c.tls = "wait" \/ (c.sent = c.tlsSent /\ ~ c.deferred)))
    <3>1. v = SendAck("server", x)
      BY <2>1, <2>8 DEF Turn
    <3>2. CoreWork("server", app, v) /\ v.c = q
      BY <1>1, <2>1, <3>1, SendAckWork DEF q
    <3>3. Since("server", app, c, q, s)
      BY <1>2, <1>3, <2>2 DEF Since, Later
    <3>4. Server(app, q)
      BY <2>4, <2>8
    <3>5. QED BY <2>2, <3>2, <3>3, <3>4 DEF Local, v
  <2>9. QED BY <2>5, <2>6, <2>7, <2>8
<1>6. QED BY <1>4, <1>5

LEMMA ReplacedWork ==
  ASSUME NEW e, NEW a, NEW w, CoreWork(e, a, w), NEW d, Core(e, a, d), Later(w.c, d)
  PROVE  CoreWork(e, a, [w EXCEPT !.c = d]) /\ [w EXCEPT !.c = d].c = d
<1> DEFINE x == [w EXCEPT !.c = d]
<1>1. x = Work(d, w.out) /\ Work(d, w.out).c = d /\ Work(d, w.out).out = w.out
  BY DEF CoreWork, Work
<1>2. w.c \in RecordType /\ d \in RecordType
  BY DEF CoreWork, Core
<1>3. \A o \in w.out : Said(e, a, d, o)
  BY <1>2, SaidLater DEF CoreWork
<1> HIDE DEF x
<1>4. QED BY <1>1, <1>3 DEF CoreWork, x

LEMMA SinceTwice ==
  ASSUME NEW e, NEW a, NEW b, NEW c, NEW d, NEW s, b.rcv \in Nat, c.rcv \in Nat, d.rcv \in Nat,
         Since(e, a, b, c, s), Since(e, a, c, d, s)
  PROVE  Since(e, a, b, d, s)
BY DEF Since, Later

LEMMA SettleLocal ==
  ASSUME NEW e \in Ends, NEW a, NEW c, Local(e, a, c), c.st \notin {"NONE", "SYN_RCVD"}, NEW s
  PROVE  Local(e, a, Settle(c)) /\ Since(e, a, c, Settle(c), s)
<1> DEFINE d == Settle(c)
<1>1. c \in RecordType /\ Core(e, a, c) /\ c.rcv \in Nat
  BY DEF Local, Core, RecordType
<1>2. CASE d = c
  BY <1>1, <1>2 DEF Since, Later
<1>3. CASE d = Finish(c, "CLOSED") /\ (c.st = "LAST_ACK" \/ c.st = "FIN_WAIT_1")
  <2>1. (e = "client" /\ Web(a)) => c.fin
    BY <1>3 DEF Local, Client
  <2>2. "CLOSED" \in Done
    BY DEF Done
  <2>3. Local(e, a, d) /\ d.st = "CLOSED" /\ Later(c, d) /\ d.una = c.una /\ d.fin = c.fin /\ d.open = c.open
    BY <1>3, <2>1, <2>2, FinishLocal
  <2> HIDE DEF d
  <2>4. Since(e, a, c, d, s)
    BY <2>3 DEF Since
  <2>5. QED BY <2>3, <2>4 DEF d
<1>4. CASE c.st = "FIN_WAIT_1" /\ d = [c EXCEPT !.st = "FIN_WAIT_2"]
  <2>1. "FIN_WAIT_2" \in States
    BY DEF States, Flowing
  <2>2. /\ d \in RecordType /\ d.st = "FIN_WAIT_2" /\ d.nxt = c.nxt /\ d.rcv = c.rcv /\ d.fin = c.fin
        /\ d.unacked = c.unacked /\ d.una = c.una
        /\ d.ssh = c.ssh /\ d.open = c.open /\ d.tls = c.tls /\ d.deferred = c.deferred /\ d.got = c.got
    BY <1>1, <1>4, <2>1 DEF RecordType
  <2> HIDE DEF d
  <2>3. Later(c, d) /\ Since(e, a, c, d, s)
    BY <1>1, <2>2 DEF Later, Since
  <2>4. \A u \in d.unacked : Said(e, a, d, u.seg) /\ Consumes(u.seg) = 1
    <3>1. ASSUME NEW u \in d.unacked PROVE Said(e, a, d, u.seg) /\ Consumes(u.seg) = 1
      <4>1. Said(e, a, c, u.seg) /\ Consumes(u.seg) = 1
        BY <1>1, <2>2, <3>1 DEF Core
      <4>2. QED BY <1>1, <2>2, <2>3, <4>1, SaidLater
    <3>2. QED BY <3>1
  <2>5. NoHole(d)
    BY <1>1, <1>4, <2>2 DEF NoHole, IsLive, Done, Core
  <2>6. Core(e, a, d)
    BY <1>1, <2>2, <2>4, <2>5 DEF Core
  <2>7. CASE e = "client"
    BY <1>4, <2>2, <2>3, <2>6, <2>7 DEF Local, Client, d
  <2>8. CASE e = "server"
    BY <1>4, <2>2, <2>3, <2>6, <2>8 DEF Local, Server, d
  <2>9. QED BY <2>7, <2>8 DEF Ends
<1>5. QED BY <1>2, <1>3, <1>4 DEF Settle

LEMMA FinWork ==
  ASSUME NEW e \in Ends, NEW a, NEW w, CoreWork(e, a, w), Local(e, a, w.c), w.c.st \in Flowing,
         NEW s, s.fin, (e = "client" /\ Web(a)) => s.seq = Whole(a) + 1 \/ w.c.fin
  PROVE  LET v == ReceiveFin(e, w, s)
         IN  CoreWork(e, a, v) /\ Local(e, a, v.c) /\ Since(e, a, w.c, v.c, s)
<1> DEFINE c == w.c
           q == [c EXCEPT !.rcv = s.seq + 1, !.fin = TRUE, !.read = -1]
           x == [w EXCEPT !.c.rcv = s.seq + 1, !.c.fin = TRUE, !.c.read = -1]
           k == SendAck(e, x)
           y == [k EXCEPT !.c.st = "LAST_ACK"]
           v == ReceiveFin(e, w, s)
<1>1. c \in RecordType /\ Core(e, a, c) /\ w = Work(c, w.out)
  BY DEF Local, Core, CoreWork
<1>2. c.nxt \in Nat /\ c.rcv \in Nat /\ c.got \in Nat /\ c.sent \in Nat
  BY <1>1 DEF RecordType
<1>3. c.st \notin {"NONE", "SYN_SENT", "SYN_RCVD"}
  BY DEF Flowing
<1>4. v = IF s.seq # c.rcv THEN SendAck(e, w)
          ELSE IF x.c.st = "ESTABLISHED" THEN SendFin(e, y)
          ELSE IF k.c.unacked = {} THEN [k EXCEPT !.c = Finish(k.c, "CLOSED")]
          ELSE k
  BY DEF ReceiveFin
<1> HIDE DEF v
<1>5. CASE s.seq # c.rcv
  <2>1. CoreWork(e, a, v) /\ v.c = c
    BY <1>4, <1>5, SendAckWork
  <2>2. Since(e, a, c, c, s)
    BY <1>2, <1>3 DEF Since, Later
  <2>3. QED BY <2>1, <2>2 DEF v
<1>6. CASE s.seq = c.rcv
  <2>1. x = Work(q, w.out) /\ Work(q, w.out).c = q
    <3> DEFINE w1 == [w EXCEPT !.c.rcv = s.seq + 1]
               w2 == [w1 EXCEPT !.c.fin = TRUE]
               w3 == [w2 EXCEPT !.c.read = -1]
               c1 == [c EXCEPT !.rcv = s.seq + 1]
               c2 == [c1 EXCEPT !.fin = TRUE]
               c3 == [c2 EXCEPT !.read = -1]
    <3>1. x = w3 /\ q = c3
      OBVIOUS
    <3>2. w1 = Work(c1, w.out)
      BY <1>1 DEF Work
    <3> HIDE DEF w1, c1
    <3>3. w2 = Work(c2, w.out)
      <4>1. \A t : [w1 EXCEPT !.c.fin = t] = Work([c1 EXCEPT !.fin = t], w.out)
        BY <3>2 DEF Work
      <4>2. QED BY <4>1
    <3> HIDE DEF w2, c2
    <3>4. w3 = Work(c3, w.out)
      BY <3>3 DEF Work
    <3> HIDE DEF w3, c3, x, q
    <3>5. QED BY <3>1, <3>4 DEF Work
  <2>2. /\ q \in RecordType /\ q.fin /\ q.rcv = c.rcv + 1 /\ q.got = c.got
        /\ q.st = c.st /\ q.una = c.una /\ q.nxt = c.nxt /\ q.sent = c.sent /\ q.unacked = c.unacked
        /\ q.ssh = c.ssh /\ q.open = c.open /\ q.tls = c.tls /\ q.tlsSent = c.tlsSent /\ q.deferred = c.deferred
    <3>1. s.seq + 1 \in Nat /\ -1 \in Int
      BY <1>2, <1>6
    <3>2. \A i \in Nat, t \in BOOLEAN, j \in Int : [c EXCEPT !.rcv = i, !.fin = t, !.read = j] \in RecordType
      BY <1>1 DEF RecordType
    <3>3. q \in RecordType
      BY <3>1, <3>2
    <3>4. QED BY <1>1, <1>6, <3>3 DEF RecordType
  <2> HIDE DEF q
  <2>3. Edited(a, c, q)
    BY <1>1, <1>2, <2>2 DEF Edited, Later, IsLive, Core
  <2>3a. CoreWork(e, a, Work(q, w.out))
    BY <2>3, EditedWork
  <2> HIDE DEF x
  <2>4. CoreWork(e, a, x) /\ x.c = q
    BY <2>1, <2>3a
  <2>5. CoreWork(e, a, k) /\ k.c = q
    BY <2>4, SendAckWork
  <2> HIDE DEF k
  <2>6. Since(e, a, c, q, s)
    BY <1>2, <1>3, <2>2 DEF Since, Later
  \* a web client that had not seen the end has the whole answer now
  <2>7. (e = "client" /\ Web(a)) => q.rcv >= Whole(a) + 2 /\ q.got = Whole(a)
    <3>1. ASSUME e = "client", Web(a) PROVE q.rcv >= Whole(a) + 2 /\ q.got = Whole(a)
      <4>1. Client(a, c) /\ Whole(a) \in Nat
        BY <3>1, WholeType DEF Local
      <4>2. CASE c.fin
        BY <1>2, <2>2, <3>1, <4>1, <4>2 DEF Client
      <4>3. CASE ~ c.fin
        <5>1. c.st = "ESTABLISHED"
          BY <3>1, <4>1, <4>3 DEF Client, Flowing
        <5>2. c.rcv = 1 + c.got /\ s.seq = Whole(a) + 1
          BY <3>1, <4>1, <4>3, <5>1 DEF Client
        <5>3. QED BY <1>2, <1>6, <2>2, <4>1, <5>2
      <4>4. QED BY <4>2, <4>3
    <3>2. QED BY <3>1
  <2>8. CASE c.st = "ESTABLISHED"
    <3> DEFINE l == [q EXCEPT !.st = "LAST_ACK"]
    <3>1. v = SendFin(e, y)
      BY <1>4, <1>6, <2>2, <2>4, <2>8
    <3>2. y = Work(l, k.out) /\ Work(l, k.out).c = l
      BY <2>5 DEF Work, CoreWork
    <3>3. "LAST_ACK" \in States
      BY DEF States, Flowing
    <3>4. /\ l \in RecordType /\ l.fin /\ l.rcv = q.rcv /\ l.got = q.got
          /\ l.st = "LAST_ACK" /\ l.una = q.una /\ l.nxt = q.nxt /\ l.sent = q.sent /\ l.unacked = q.unacked
          /\ l.ssh = q.ssh /\ l.open = q.open /\ l.tls = q.tls /\ l.deferred = q.deferred
      BY <2>2, <3>3 DEF RecordType
    <3> HIDE DEF l
    <3>5. Edited(a, q, l)
      BY <1>1, <1>2, <2>2, <2>8, <3>4 DEF Edited, Later, IsLive, Core, Done
    <3>5a. CoreWork(e, a, Work(l, k.out))
      BY <2>5, <3>5, EditedWork
    <3> HIDE DEF y
    <3>6. CoreWork(e, a, y) /\ y.c = l
      BY <3>2, <3>5a
    <3>7. CoreWork(e, a, v) /\ Moved(l, v.c, 1, 0)
      BY <3>1, <3>4, <3>6, SendFinWork
    <3> DEFINE d == v.c
    <3>8. /\ d.st = "LAST_ACK" /\ d.fin /\ d.rcv = c.rcv + 1 /\ d.got = c.got /\ d.una = c.una /\ d.nxt = c.nxt + 1
          /\ d.open = c.open /\ d.tls = c.tls /\ d.deferred = c.deferred /\ Core(e, a, d)
      BY <2>2, <3>4, <3>7 DEF Moved, CoreWork
    <3> HIDE DEF d
    <3>9. Since(e, a, c, d, s)
      BY <1>2, <3>8 DEF Since, Later
    <3>10. CASE e = "client"
      <4>1. Client(a, c)
        BY <3>10 DEF Local
      <4>2. Client(a, d)
        BY <1>2, <2>2, <2>7, <3>8, <3>10, <4>1 DEF Client
      <4>3. QED BY <3>7, <3>8, <3>9, <3>10, <4>2 DEF Local, d, v
    <3>11. CASE e = "server"
      <4>1. Server(a, d)
        BY <3>8, <3>11 DEF Local, Server
      <4>2. QED BY <3>7, <3>8, <3>9, <3>11, <4>1 DEF Local, d, v
    <3>12. QED BY <3>10, <3>11 DEF Ends
  <2>9. CASE c.st # "ESTABLISHED"
    <3>1. v = IF q.unacked = {} THEN [k EXCEPT !.c = Finish(q, "CLOSED")] ELSE k
      BY <1>4, <1>6, <2>2, <2>4, <2>5, <2>9
    <3>2. Core(e, a, q)
      BY <2>5 DEF CoreWork
    <3>3. Local(e, a, q)
      <4>1. CASE e = "client"
        <5>1. Client(a, c)
          BY <4>1 DEF Local
        <5>2. Client(a, q)
          BY <1>2, <1>3, <2>2, <2>7, <2>9, <4>1, <5>1 DEF Client
        <5>3. QED BY <3>2, <4>1, <5>2 DEF Local
      <4>2. CASE e = "server"
        <5>1. Server(a, q)
          BY <1>3, <2>2, <2>9, <4>2 DEF Local, Server
        <5>2. QED BY <3>2, <4>2, <5>1 DEF Local
      <4>3. QED BY <4>1, <4>2 DEF Ends
    <3> DEFINE d == Finish(q, "CLOSED")
    <3>4. "CLOSED" \in Done
      BY DEF Done
    <3>5. /\ Local(e, a, d) /\ d.st = "CLOSED" /\ Later(q, d) /\ d.una = q.una
          /\ d.fin = q.fin /\ d.open = q.open
      <4>1. (e = "client" /\ Web(a)) => q.fin
        BY <2>2
      <4> HIDE DEF c
      <4>2. QED BY <3>3, <3>4, <4>1, FinishLocal
    <3> HIDE DEF d
    <3>6. Since(e, a, q, d, s)
      BY <3>5 DEF Since
    <3>7. Core(e, a, d) /\ d.rcv \in Nat /\ q.rcv \in Nat
      BY <2>2, <3>5 DEF Local, Core, RecordType
    <3>8. Since(e, a, c, d, s)
      BY <1>2, <2>6, <3>6, <3>7, SinceTwice
    <3>9. CoreWork(e, a, [k EXCEPT !.c = d]) /\ [k EXCEPT !.c = d].c = d
      BY <2>5, <3>5, <3>7, ReplacedWork
    <3>10. CASE q.unacked = {}
      BY <3>1, <3>5, <3>8, <3>9, <3>10 DEF d, v
    <3>11. CASE q.unacked # {}
      BY <2>5, <2>6, <3>1, <3>3, <3>11 DEF v
    <3>12. QED BY <3>10, <3>11
  <2>10. QED BY <2>8, <2>9
<1>7. QED BY <1>5, <1>6

-------------------------------------------------------------------------------
(* A step of a stack, and what its peer believes *)

\* What the end e of a connection may have come to: its record is d now.
Ready(e, d) ==
  /\ Local(e, app, d) /\ Later(conn[e], d) /\ d.st # "NONE"
  /\ d.st = "SYN_RCVD" => conn[e].st = "SYN_RCVD"
  /\ (accepts <= 1 /\ conn[Peer(e)].st # "NONE") => d.una <= conn[Peer(e)].rcv
  /\ (e = "client" /\ accepts = 0) => d.st \in {"NONE", "SYN_SENT"} \cup Done /\ d.una = 0 /\ ~ d.open
  /\ (e = "server" /\ Web(app) /\ d.fin) => Over
  /\ (e = "client" /\ accepts = 1 /\ d.open) => conn["server"].open \/ conn["server"].st = "NONE"

\* What a stack with the record d has said is true of a segment on its way.
LEMMA SaidArrives ==
  ASSUME NEW e \in Ends, NEW d, NEW s, Said(e, app', d, s), conn'[e] = d,
         (Web(app') /\ d.fin) => Over'
  PROVE  OnTheWay(s)'
<1>1. Peer(e) \in Ends /\ Peer(Peer(e)) = e /\ Peer("client") = "server" /\ Peer("server") = "client"
  BY Peers
<1>2. s \in SegmentType /\ s.to = Peer(e) /\ Consumes(s) <= 1 /\ s.ack <= d.rcv /\ (s.syn => s.seq = 0 /\ (e = "server" => s.isack))
  BY DEF Said
<1>3. CASE e = "client"
  <2>1. ByClient(app', d, s)
    BY <1>3 DEF Said
  <2>2. QED BY <1>1, <1>2, <1>3, <2>1 DEF OnTheWay, ByClient
<1>4. CASE e = "server"
  <2>1. ByServer(app', d, s)
    BY <1>4 DEF Said
  <2>2. QED BY <1>1, <1>2, <1>4, <2>1 DEF OnTheWay, ByServer
<1>5. QED BY <1>3, <1>4 DEF Ends

LEMMA WorkedKeeps ==
  ASSUME TInv, NEW e \in Ends, conn[e].st # "NONE", NEW w, NEW used, Worked(e, w, used),
         CoreWork(e, app, w), Ready(e, w.c)
  PROVE  TInv'
<1> DEFINE p == Peer(e)
           d == w.c
<1>1. p \in Ends /\ p # e /\ Ends = {e, p} /\ Peer(p) = e
  BY DEF Peer, Ends
<1>2. conn \in [Ends -> RecordType] /\ app \in Apps \cup {"none"} /\ accepts \in Nat
  BY DEF TInv
<1>3. app' = app /\ accepts' = accepts /\ conn' = [conn EXCEPT ![e] = d]
  BY DEF Worked, Ready
<1>4. conn'[e] = d /\ conn'[p] = conn[p]
  BY <1>1, <1>2, <1>3
<1>5. d \in RecordType /\ d.rcv \in Nat /\ conn[e].rcv \in Nat /\ conn[p].una \in Nat /\ conn[e].rcv <= d.rcv
  BY <1>1, <1>2 DEF Ready, Local, Core, RecordType, Later
<1>6. conn' \in [Ends -> RecordType]
  BY <1>2, <1>3, <1>5
<1>7. \A f \in Ends : Local(f, app', conn'[f])
  BY <1>1, <1>3, <1>4 DEF TInv, Ready
<1>8. Over => Over'
  <2>1. CASE e = "client"
    BY <1>4, <2>1 DEF Over, Ready, Later
  <2>2. CASE e # "client"
    BY <1>1, <1>4, <2>2 DEF Over, Ends
  <2>3. QED BY <2>1, <2>2
<1>9. Web(app') /\ conn'["server"].fin => Over'
  <2>1. CASE e = "server"
    BY <1>3, <1>4, <1>8, <2>1 DEF Ready
  <2>2. CASE e # "server"
    BY <1>1, <1>3, <1>4, <1>8, <2>2 DEF TInv, Ends
  <2>3. QED BY <2>1, <2>2
<1>10. ASSUME NEW s, OnTheWay(s) PROVE OnTheWay(s)'
  <2>1. s \in SegmentType /\ s.to \in Ends /\ s.ack \in Nat
    BY <1>10 DEF OnTheWay, SegmentType
  <2>2. (accepts <= 1 /\ conn'[Peer(s.to)].st # "NONE") =>
          /\ s.ack <= conn'[Peer(s.to)].rcv
          /\ (app = "ssh" /\ s.to = "client" /\ s.data # "none" /\ 2 * s.seq >= Steps) => conn'[Peer(s.to)].open
    <3>1. CASE s.to = e
      BY <1>4, <1>10, <3>1 DEF OnTheWay
    <3>2. CASE s.to = p
      BY <1>1, <1>4, <1>5, <1>10, <2>1, <3>2 DEF OnTheWay, Ready, Later
    <3>3. QED BY <1>1, <2>1, <3>1, <3>2
  <2>3. QED BY <1>3, <1>8, <1>10, <2>2 DEF OnTheWay
<1>11. ASSUME NEW s, Said(e, app, d, s) PROVE OnTheWay(s)'
  <2>1. (Web(app') /\ d.fin) => Over'
    BY <1>1, <1>4, <1>9 DEF Over, Ends
  <2>2. QED BY <1>3, <1>4, <1>11, <2>1, SaidArrives
<1>12. \A s \in net' : OnTheWay(s)'
  <2>1. PICK arriving \in SUBSET w.out : net' = (net \ used) \cup arriving
    BY DEF Worked
  <2>2. ASSUME NEW s \in net' PROVE OnTheWay(s)'
    <3>1. s \in net \/ s \in w.out
      BY <2>1, <2>2
    <3>2. CASE s \in net
      BY <1>10, <3>2 DEF TInv
    <3>3. CASE s \in w.out
      BY <1>11, <3>3 DEF CoreWork
    <3>4. QED BY <3>1, <3>2, <3>3
  <2>3. QED BY <2>2
<1>13. app' # "none"
  BY <1>2, <1>3 DEF TInv, Untouched, NoConn, Record
<1>14. accepts' = 0 => Unheard'
  <2>1. ASSUME accepts = 0 PROVE Unheard'
    <3>1. Unheard
      BY <2>1 DEF TInv
    <3>2. e = "client" /\ p = "server"
      BY <3>1 DEF Unheard, Ends, Peer
    <3>3. conn'["server"].st = "NONE" /\ d.st \in {"NONE", "SYN_SENT"} \cup Done /\ d.una = 0 /\ ~ d.open
      BY <1>4, <2>1, <3>1, <3>2 DEF Ready, Unheard
    <3>4. \A s \in net' : s.to = "client" => s.ack = 0 /\ s.data = "none"
      <4>1. PICK arriving \in SUBSET w.out : net' = (net \ used) \cup arriving
        BY DEF Worked
      <4>2. \A s \in w.out : s.to = "server"
        BY <3>2 DEF CoreWork, Said
      <4>3. QED BY <3>1, <4>1, <4>2 DEF Unheard
    <3>5. QED BY <1>4, <3>2, <3>3, <3>4 DEF Unheard
  <2>2. QED BY <1>3, <2>1
<1>15. accepts' <= 1 => \A f \in Ends :
         conn'[f].st # "NONE" /\ conn'[Peer(f)].st # "NONE" => conn'[f].una <= conn'[Peer(f)].rcv
  <2>1. ASSUME accepts <= 1, conn'[e].st # "NONE", conn'[p].st # "NONE"
        PROVE  conn'[e].una <= conn'[p].rcv /\ conn'[p].una <= conn'[e].rcv
    <3>1. conn'[e].una <= conn'[p].rcv
      BY <1>4, <2>1 DEF Ready
    <3>2. conn[p].una <= conn[e].rcv
      BY <1>1, <1>4, <2>1 DEF TInv
    <3>3. QED BY <1>4, <1>5, <3>1, <3>2
  <2>2. QED BY <1>1, <1>3, <2>1
<1>16. accepts' = 1 /\ conn'["client"].open => conn'["server"].open \/ conn'["server"].st = "NONE"
  <2>1. CASE e = "client"
    BY <1>1, <1>3, <1>4, <2>1 DEF Ready, Ends
  <2>2. CASE e = "server"
    BY <1>1, <1>3, <1>4, <2>2 DEF TInv, Ready, Later, Ends
  <2>3. QED BY <2>1, <2>2 DEF Ends
<1>17. \A f \in Ends : conn'[f].st = "NONE" => conn'[f] = NoConn
  BY <1>1, <1>4 DEF TInv, Ready
<1>18. QED BY <1>2, <1>3, <1>6, <1>7, <1>9, <1>12, <1>13, <1>14, <1>15, <1>16, <1>17 DEF TInv

\* The record that has had the ACK of a segment taken.
LEMMA UpdatedIs ==
  ASSUME TInv, NEW s \in net
  PROVE  LET e == s.to b == Updated(s)
         IN  /\ e \in Ends /\ s \in SegmentType /\ Local(e, app, b) /\ Same(conn[e], b)
             /\ CoreWork(e, app, Work(b, {})) /\ Work(b, {}).c = b
             /\ (accepts <= 1 /\ conn[e].st # "NONE" /\ conn[Peer(e)].st # "NONE") => b.una <= conn[Peer(e)].rcv
             /\ (e = "client" /\ accepts = 0) => b.una = 0 /\ s.ack = 0 /\ s.data = "none"
<1> DEFINE e == s.to
           c == conn[e]
           b == Updated(s)
<1>1. OnTheWay(s) /\ s \in SegmentType /\ e \in Ends /\ s.ack \in Nat
  BY DEF TInv, OnTheWay, SegmentType
<1>2. Local(e, app, c) /\ b = Acked(c, s)
  BY <1>1 DEF TInv, Updated
<1>3. Local(e, app, b) /\ Same(c, b) /\ (b.una = c.una \/ (b.una = s.ack /\ c.una < s.ack))
  BY <1>1, <1>2, AckedLocal
<1> HIDE DEF b
<1>4. CoreWork(e, app, Work(b, {})) /\ Work(b, {}).c = b
  BY <1>3 DEF CoreWork, Work, Local
<1>5. (accepts <= 1 /\ c.st # "NONE" /\ conn[Peer(e)].st # "NONE") => b.una <= conn[Peer(e)].rcv
  BY <1>1, <1>3 DEF TInv, OnTheWay
<1>6. (e = "client" /\ accepts = 0) => b.una = 0 /\ s.ack = 0 /\ s.data = "none"
  BY <1>1, <1>3 DEF TInv, Unheard
<1>7. QED BY <1>1, <1>3, <1>4, <1>5, <1>6 DEF b

LEMMA HeardKeeps ==
  ASSUME TInv, NEW s \in net, conn[s.to].st # "NONE", NEW w, Worked(s.to, w, {s}),
         CoreWork(s.to, app, w), Local(s.to, app, w.c), Since(s.to, app, Updated(s), w.c, s),
         (s.to = "client" /\ accepts = 0) => w.c.st \in {"NONE", "SYN_SENT"} \cup Done
  PROVE  TInv'
<1> DEFINE e == s.to
           c == conn[e]
           b == Updated(s)
           d == w.c
<1>1. /\ e \in Ends /\ s \in SegmentType /\ Local(e, app, b) /\ Same(c, b)
      /\ (accepts <= 1 /\ c.st # "NONE" /\ conn[Peer(e)].st # "NONE") => b.una <= conn[Peer(e)].rcv
      /\ (e = "client" /\ accepts = 0) => b.una = 0 /\ s.ack = 0 /\ s.data = "none"
  BY UpdatedIs
<1>2. Since(e, app, b, d, s) /\ OnTheWay(s) /\ accepts \in Nat
  BY DEF TInv
<1> HIDE DEF b
<1>3. b.st = c.st /\ b.rcv = c.rcv /\ b.fin = c.fin /\ b.open = c.open
  BY <1>1 DEF Same
<1>4. Later(c, d) /\ d.st # "NONE" /\ d.una = b.una /\ (d.st = "SYN_RCVD" => c.st = "SYN_RCVD")
  BY <1>2, <1>3 DEF Since, Later
<1>5. (e = "client" /\ accepts = 0) => ~ d.open
  BY <1>1, <1>2, <1>3 DEF Since, TInv, Unheard
<1>6. (e = "server" /\ Web(app) /\ d.fin) => Over
  BY <1>2, <1>3 DEF Since, OnTheWay, TInv
<1>7. (e = "client" /\ accepts = 1 /\ d.open) => conn["server"].open \/ conn["server"].st = "NONE"
  <2>1. ASSUME e = "client", accepts = 1, d.open PROVE conn["server"].open \/ conn["server"].st = "NONE"
    <3>1. CASE c.open
      BY <2>1, <3>1 DEF TInv
    <3>2. CASE app = "ssh" /\ s.data # "none" /\ 2 * s.seq >= Steps
      BY <1>2, <2>1, <3>2 DEF OnTheWay, Peer
    <3>3. QED BY <1>2, <1>3, <2>1, <3>1, <3>2 DEF Since
  <2>2. QED BY <2>1
<1>8. Ready(e, d)
  BY <1>1, <1>4, <1>5, <1>6, <1>7 DEF Ready
<1>9. QED BY <1>1, <1>8, WorkedKeeps

\* A step that takes nothing in.
LEMMA QuietKeeps ==
  ASSUME TInv, NEW e \in Ends, conn[e].st # "NONE", NEW w, NEW used, Worked(e, w, used),
         CoreWork(e, app, w), Local(e, app, w.c), Later(conn[e], w.c),
         w.c.una = conn[e].una, w.c.fin => conn[e].fin, w.c.open => conn[e].open \/ e = "server",
         w.c.st \in Done \/ w.c.st = conn[e].st \/ (w.c.st \notin {"NONE", "SYN_RCVD"} /\ conn[e].st = "ESTABLISHED")
  PROVE  TInv'
<1> DEFINE d == w.c
<1>1. (e = "client" /\ accepts = 0) => d.st \in {"NONE", "SYN_SENT"} \cup Done /\ d.una = 0 /\ ~ d.open
  BY DEF TInv, Unheard, Done
<1>2. (e = "server" /\ Web(app) /\ d.fin) => Over
  BY DEF TInv
<1>3. (e = "client" /\ accepts = 1 /\ d.open) => conn["server"].open \/ conn["server"].st = "NONE"
  BY DEF TInv
<1>4. (accepts <= 1 /\ conn[Peer(e)].st # "NONE") => d.una <= conn[Peer(e)].rcv
  BY DEF TInv
<1>5. d.st # "NONE" /\ (d.st = "SYN_RCVD" => conn[e].st = "SYN_RCVD")
  BY DEF Done
<1>6. Ready(e, d)
  BY <1>1, <1>2, <1>3, <1>4, <1>5 DEF Ready
<1>7. QED BY <1>6, WorkedKeeps

-------------------------------------------------------------------------------
(* The handlers *)

\* Data on its way is what receiveData expects of its sender.
LEMMA DataWork ==
  ASSUME TInv, NEW s \in net, s.data # "none", NEW w, CoreWork(s.to, app, w), Local(s.to, app, w.c),
         w.c.st \in Flowing, NEW defer \in BOOLEAN, defer => app # "ssh"
  PROVE  LET v == ReceiveData(s.to, w, s, defer)
         IN  CoreWork(s.to, app, v) /\ Local(s.to, app, v.c) /\ Since(s.to, app, w.c, v.c, s)
<1>1. OnTheWay(s) /\ s.to \in Ends
  BY DEF TInv, OnTheWay, SegmentType
<1>2. CASE s.to = "client"
  <2>1. Web(app) => s.seq <= Whole(app)
    BY <1>1, <1>2 DEF OnTheWay
  <2>2. QED BY <1>2, <2>1, DataToClient
<1>3. CASE s.to = "server"
  <2>1. app = "https" => (s.data = "client-hello" <=> s.seq = 1)
    BY <1>1, <1>3 DEF OnTheWay, Web
  <2>2. QED BY <1>3, <2>1, DataToServer
<1>4. QED BY <1>1, <1>2, <1>3 DEF Ends

LEMMA ReceiveKeeps ==
  ASSUME TInv, NEW s \in net, NEW defer \in {FALSE, Deferring /\ app # "ssh"}, Receive(s, defer)
  PROVE  TInv'
<1> DEFINE e == s.to
           b == Updated(s)
           w == Work(b, {})
           data == IF DataLen(s) > 0 THEN ReceiveData(e, w, s, defer) ELSE w
           fin  == IF s.fin THEN ReceiveFin(e, data, s) ELSE data
           z == [fin EXCEPT !.c = Settle(fin.c)]
<1>1. /\ e \in Ends /\ s \in SegmentType /\ Local(e, app, b) /\ Same(conn[e], b)
      /\ CoreWork(e, app, w) /\ w.c = b /\ OnTheWay(s)
  BY UpdatedIs DEF TInv
<1>2. Worked(e, z, {s}) /\ conn[e].st \in Flowing
  BY DEF Receive
<1>3. defer \in BOOLEAN /\ (defer => app # "ssh")
  BY TcpAssumption
<1>4. b.st \in Flowing /\ b.fin = conn[e].fin /\ b.rcv \in Nat /\ b.st \notin {"NONE", "SYN_RCVD"}
  BY <1>1, <1>2 DEF Same, RecordType, Flowing
<1>5. DataLen(s) > 0 => s.data # "none" /\ ~ s.fin
  BY <1>1 DEF OnTheWay, Consumes, DataLen, Num
<1> HIDE DEF b, w
<1>6. CoreWork(e, app, data) /\ Local(e, app, data.c) /\ Since(e, app, b, data.c, s) /\ (s.fin => data = w)
  <2>1. CASE DataLen(s) > 0
    BY <1>1, <1>3, <1>4, <1>5, <2>1, DataWork
  <2>2. CASE ~ (DataLen(s) > 0)
    BY <1>1, <1>4, <2>2 DEF Since, Later
  <2>3. QED BY <2>1, <2>2
<1> HIDE DEF data
<1>7. CoreWork(e, app, fin) /\ Local(e, app, fin.c) /\ Since(e, app, b, fin.c, s)
  <2>1. CASE s.fin
    <3>1. data = w /\ data.c = b
      BY <1>1, <1>6, <2>1
    <3>2. (e = "client" /\ Web(app)) => s.seq = Whole(app) + 1 \/ b.fin
      BY <1>1, <1>2, <1>4, <2>1 DEF OnTheWay, Over, Flowing
    <3>3. QED BY <1>1, <1>4, <2>1, <3>1, <3>2, FinWork
  <2>2. CASE ~ s.fin
    BY <1>6, <2>2
  <2>3. QED BY <2>1, <2>2
<1> HIDE DEF fin
<1>8. fin.c.st \notin {"NONE", "SYN_RCVD"}
  BY <1>4, <1>7 DEF Since
<1> DEFINE d == Settle(fin.c)
<1>9. Local(e, app, d) /\ Since(e, app, fin.c, d, s)
  BY <1>1, <1>7, <1>8, SettleLocal
<1> HIDE DEF d
<1>10. Core(e, app, d) /\ Later(fin.c, d) /\ d.rcv \in Nat /\ fin.c.rcv \in Nat
  BY <1>7, <1>9 DEF Local, Core, Since, RecordType
<1>11. CoreWork(e, app, [fin EXCEPT !.c = d]) /\ [fin EXCEPT !.c = d].c = d
  BY <1>7, <1>10, ReplacedWork
<1>12. Since(e, app, b, d, s)
  BY <1>4, <1>7, <1>9, <1>10, SinceTwice
<1>13. z = [fin EXCEPT !.c = d]
  BY DEF d
<1> HIDE DEF z
<1>14. ~ (e = "client" /\ accepts = 0)
  BY <1>2 DEF TInv, Unheard, Flowing, Done
<1>15. CoreWork(e, app, z) /\ Local(e, app, z.c) /\ Since(e, app, b, z.c, s)
  BY <1>9, <1>11, <1>12, <1>13
<1>16. conn[e].st # "NONE"
  BY <1>2 DEF Flowing
<1>17. QED BY <1>2, <1>14, <1>15, <1>16, HeardKeeps DEF b

LEMMA EstablishedKeeps ==
  ASSUME TInv, NEW s \in net, NEW defer \in {FALSE, Deferring /\ app # "ssh"}, Established(s, defer)
  PROVE  TInv'
<1> DEFINE e == s.to
           b == Updated(s)
           d == [b EXCEPT !.st = "ESTABLISHED"]
           w == Work(d, {})
           v == IF DataLen(s) > 0 THEN ReceiveData(e, w, s, defer) ELSE w
<1>1. /\ e \in Ends /\ s \in SegmentType /\ Local(e, app, b) /\ Same(conn[e], b)
      /\ CoreWork(e, app, Work(b, {})) /\ Work(b, {}).c = b
  BY UpdatedIs
<1>2. Worked(e, v, {s}) /\ conn[e].st = "SYN_RCVD"
  BY DEF Established
<1>3. defer \in BOOLEAN /\ (defer => app # "ssh")
  BY TcpAssumption
<1> HIDE DEF b
<1>4. b \in RecordType /\ b.st = "SYN_RCVD" /\ Core(e, app, b) /\ b.rcv \in Nat
  BY <1>1, <1>2 DEF Same, RecordType, Local
<1>5. e = "server" /\ Server(app, b)
  BY <1>1, <1>4 DEF Local, Client, Ends
<1>6. "ESTABLISHED" \in States /\ "ESTABLISHED" \in Flowing
  BY DEF States, Flowing
<1>7. w = [Work(b, {}) EXCEPT !.c = d] /\ w.c = d
  BY DEF Work
<1>8. /\ d \in RecordType /\ d.st = "ESTABLISHED" /\ d.una = b.una /\ d.nxt = b.nxt /\ d.rcv = b.rcv /\ d.sent = b.sent
      /\ d.unacked = b.unacked /\ d.fin = b.fin /\ d.open = b.open /\ d.ssh = b.ssh /\ d.tls = b.tls
      /\ d.tlsSent = b.tlsSent /\ d.deferred = b.deferred
  BY <1>4, <1>6 DEF RecordType
<1> HIDE DEF d, w
<1>9. Edited(app, b, d)
  BY <1>4, <1>8 DEF Edited, Later, IsLive, Core, Done
<1>10. CoreWork(e, app, Work(d, {}))
  <2> DEFINE x == Work(b, {})
  <2>1. x.out = {} /\ x.c = b /\ CoreWork(e, app, x)
    BY <1>1 DEF Work
  <2> HIDE DEF x
  <2>2. QED BY <1>9, <2>1, EditedWork
<1>11. CoreWork(e, app, w) /\ Core(e, app, d)
  BY <1>7, <1>10 DEF w, CoreWork
<1>12. Local(e, app, d)
  <2>1. Server(app, d)
    BY <1>4, <1>5, <1>8 DEF Server
  <2>2. QED BY <1>5, <1>11, <2>1 DEF Local
<1>13. Since(e, app, b, d, s)
  BY <1>4, <1>8 DEF Since, Later
<1>14. CoreWork(e, app, v) /\ Local(e, app, v.c) /\ Since(e, app, d, v.c, s)
  <2>1. CASE DataLen(s) > 0
    <3>1. s.data # "none"
      BY <1>1, <2>1, SegTypes
    <3>2. QED BY <1>3, <1>6, <1>7, <1>8, <1>11, <1>12, <2>1, <3>1, DataWork
  <2>2. CASE ~ (DataLen(s) > 0)
    BY <1>4, <1>7, <1>8, <1>11, <1>12, <2>2 DEF Since, Later
  <2>3. QED BY <2>1, <2>2
<1> HIDE DEF v
<1>15. v.c.rcv \in Nat /\ d.rcv \in Nat
  BY <1>4, <1>8, <1>14 DEF CoreWork, Core, RecordType
<1>16. Since(e, app, b, v.c, s)
  BY <1>4, <1>13, <1>14, <1>15, SinceTwice
<1>17. conn[e].st # "NONE" /\ ~ (e = "client" /\ accepts = 0)
  BY <1>2, <1>5
<1> HIDE DEF e
<1>18. QED BY <1>2, <1>14, <1>16, <1>17, HeardKeeps DEF b, e

LEMMA ConnectedKeeps ==
  ASSUME TInv, NEW s \in net, Connected(s)
  PROVE  TInv'
<1> DEFINE e == s.to
           b == Updated(s)
           d == [b EXCEPT !.rcv = s.seq + 1, !.st = "ESTABLISHED"]
           w == Work(d, {})
           k == SendAck(e, w)
           y == [k EXCEPT !.c.ssh = 0]
           v == CASE app = "ssh"   -> SshNext(e, y)
                  [] app = "https" -> TlsHello(e, k)
                  [] OTHER         -> SendRequest(e, k)
<1>1. /\ e \in Ends /\ s \in SegmentType /\ Local(e, app, b) /\ Same(conn[e], b)
      /\ CoreWork(e, app, Work(b, {})) /\ Work(b, {}).c = b
      /\ (e = "client" /\ accepts = 0) => s.ack = 0
  BY UpdatedIs
<1>2. Worked(e, v, {s}) /\ conn[e].st = "SYN_SENT" /\ s.syn /\ s.ack = 1
  BY DEF Connected
<1>3. s.seq = 0
  BY <1>2 DEF TInv, OnTheWay
<1>4. (app = "ssh" => v = SshNext(e, y)) /\ (app = "https" => v = TlsHello(e, k))
      /\ (app # "ssh" /\ app # "https" => v = SendRequest(e, k))
  <2> HIDE DEF y, k
  <2>1. QED BY Zenon
<1> HIDE DEF b, v
<1>5. b \in RecordType /\ b.st = "SYN_SENT" /\ Core(e, app, b)
  BY <1>1, <1>2 DEF Same, Local
<1>6. e = "client" /\ Client(app, b)
  BY <1>1, <1>5 DEF Local, Server, Ends
<1>7. b.rcv = 0 /\ b.got = 0 /\ ~ b.fin /\ ~ b.open /\ b.ssh = -1 /\ b.tls = "no" /\ b.nxt = 1
  BY <1>5, <1>6 DEF Client
<1>8. "ESTABLISHED" \in States /\ 0 + 1 \in Nat
  BY DEF States, Flowing
<1>9. w = [Work(b, {}) EXCEPT !.c = d] /\ w.c = d
  BY DEF Work
<1>10. /\ d \in RecordType /\ d.st = "ESTABLISHED" /\ d.una = b.una /\ d.nxt = 1 /\ d.rcv = 1 /\ d.sent = b.sent
       /\ d.unacked = b.unacked /\ ~ d.fin /\ ~ d.open /\ d.ssh = -1 /\ d.tls = "no" /\ d.got = 0
  <2>1. s.seq + 1 = 1 /\ 1 \in Nat
    BY <1>3
  <2>2. d = [b EXCEPT !.rcv = 1, !.st = "ESTABLISHED"]
    BY <2>1
  <2> HIDE DEF d
  <2>3. d \in RecordType /\ d.st = "ESTABLISHED" /\ d.rcv = 1
    BY <1>5, <1>8, <2>1, <2>2 DEF RecordType
  <2>4. /\ d.una = b.una /\ d.nxt = b.nxt /\ d.sent = b.sent /\ d.unacked = b.unacked /\ d.fin = b.fin
        /\ d.open = b.open /\ d.ssh = b.ssh /\ d.tls = b.tls /\ d.got = b.got
    BY <1>5, <2>2 DEF RecordType
  <2>5. QED BY <1>7, <2>3, <2>4
<1> HIDE DEF d, w
<1>11. Edited(app, b, d)
  BY <1>5, <1>7, <1>10 DEF Edited, Later, IsLive, Done
<1>12. CoreWork(e, app, Work(d, {}))
  <2> DEFINE x == Work(b, {})
  <2>1. x.out = {} /\ x.c = b /\ CoreWork(e, app, x)
    BY <1>1 DEF Work
  <2> HIDE DEF x
  <2>2. QED BY ZenonT(60), <1>11, <2>1, EditedWork
<1>13. CoreWork(e, app, k) /\ k.c = d
  BY <1>1, <1>9, <1>12, SendAckWork DEF w
<1> HIDE DEF k, y
<1> DEFINE z == v.c
<1>14. /\ CoreWork("client", app, v)
       /\ z.st = "ESTABLISHED" /\ z.una = b.una /\ z.rcv = 1 /\ z.got = 0 /\ ~ z.fin /\ ~ z.open
       /\ z.tls = "wait" => z.nxt >= 2
       /\ app = "ssh" => z.ssh = 1
  <2>1. CASE app = "ssh"
    <3>1. CoreWork("client", "ssh", k) /\ 0 \in Int
      BY <1>6, <1>13, <2>1
    <3>2. CoreWork("client", "ssh", y) /\ Counted(k.c, y.c, 0)
      BY <3>1, CountedWork DEF y
    <3>3. y.c.ssh = 0 /\ y.c.ssh \in Nat /\ "client" \in Ends
      BY <3>2 DEF Counted, Ends
    <3>4. v = SshNext("client", y)
      BY <1>4, <1>6, <2>1
    <3>5. CoreWork("client", "ssh", v) /\ Spoken("client", y.c, z)
      BY <3>2, <3>3, <3>4, SshNextWork
    <3>6. ~ z.open /\ z.ssh = 1
      BY <1>10, <1>13, <3>2, <3>3, <3>5, ConstTypes DEF Spoken, Counted
    <3>7. QED BY <1>10, <1>13, <2>1, <3>2, <3>5, <3>6 DEF Spoken, Kin, Counted
  <2>2. CASE app = "https"
    <3>1. v = TlsHello("client", k) /\ k.c.nxt = 1 /\ CoreWork("client", app, k)
      BY <1>4, <1>6, <1>10, <1>13, <2>2
    <3>2. CoreWork("client", app, v) /\ Greeted(k.c, v.c, "wait") /\ v.c.nxt = 2
      BY <3>1, TlsHelloWork
    <3>3. QED BY <1>10, <1>13, <2>2, <3>2 DEF Greeted
  <2>3. CASE app # "ssh" /\ app # "https"
    <3>1. v = SendRequest("client", k) /\ CoreWork("client", app, k)
      BY <1>4, <1>6, <1>13, <2>3
    <3>2. CoreWork("client", app, v) /\ Moved(k.c, v.c, 1, 1)
      BY <2>3, <3>1, SendRequestWork
    <3>3. QED BY <1>10, <1>13, <2>3, <3>2 DEF Moved
  <2>4. QED BY <2>1, <2>2, <2>3
<1> HIDE DEF z
<1>15. Client(app, z)
  BY <1>14 DEF Client
<1>16. CoreWork(e, app, v) /\ Local(e, app, z)
  BY <1>6, <1>14, <1>15 DEF Local, z, CoreWork
<1>17. Since(e, app, b, z, s)
  BY <1>7, <1>14 DEF Since, Later
<1>18. conn[e].st # "NONE" /\ ~ (e = "client" /\ accepts = 0)
  BY <1>1, <1>2
<1> HIDE DEF e
<1>19. QED BY <1>2, <1>16, <1>17, <1>18, HeardKeeps DEF b, e, z
\* What a stack says without sending anything new.
LEMMA CopySaid ==
  ASSUME NEW e, NEW a, NEW c, NEW s, Said(e, a, c, s), NEW k \in 0 .. MaxRetries
  PROVE  Said(e, a, c, [s EXCEPT !.copy = k])
<1> DEFINE z == [s EXCEPT !.copy = k]
<1>1. s \in SegmentType
  BY DEF Said
<1>2. /\ z \in SegmentType /\ z.to = s.to /\ z.seq = s.seq /\ z.ack = s.ack /\ z.isack = s.isack
      /\ z.syn = s.syn /\ z.fin = s.fin /\ z.data = s.data
  BY <1>1 DEF SegmentType
<1> HIDE DEF z
<1>3. Consumes(z) = Consumes(s)
  BY <1>2 DEF Consumes, DataLen
<1>4. Said(e, a, c, z)
  BY <1>2, <1>3 DEF Said, ByClient, ByServer
<1>5. QED BY <1>4 DEF z

LEMMA AckSaid ==
  ASSUME NEW e \in Ends, NEW a, NEW c \in RecordType
  PROVE  Said(e, a, c, Segment(e, c, "none"))
<1> DEFINE z == Segment(e, c, "none")
<1>1. "none" \in Datas /\ c.rcv \in Nat
  BY DEF Datas, RecordType
<1>2. /\ z \in SegmentType /\ z.to = Peer(e) /\ z.ack = c.rcv /\ z.isack
      /\ ~ z.syn /\ ~ z.fin /\ z.data = "none" /\ Consumes(z) = 0
  BY <1>1, Segmented
<1> HIDE DEF z
<1>3. Said(e, a, c, z)
  BY <1>1, <1>2 DEF Said, ByClient, ByServer
<1>4. QED BY <1>3 DEF z

LEMMA RstSaid ==
  ASSUME NEW e \in Ends, NEW a, NEW c \in RecordType
  PROVE  Said(e, a, c, Rst(e)) /\ Rst(e).ack = 0 /\ Rst(e).data = "none" /\ ~ Rst(e).fin /\ ~ Rst(e).syn
         /\ Consumes(Rst(e)) = 0
<1> DEFINE y == Segment(e, NoConn, "none")
           z == [y EXCEPT !.rst = TRUE]
<1>1. c.rcv \in Nat /\ Peer(e) \in Ends /\ 0 \in 0 .. MaxRetries
  BY Peers, ConstTypes DEF RecordType
<1>2. /\ y \in SegmentType /\ y.to = Peer(e) /\ y.ack = 0 /\ y.isack
      /\ ~ y.syn /\ ~ y.fin /\ y.data = "none"
  BY <1>1 DEF Segment, SegmentType, NoConn, Record
<1> HIDE DEF y
<1>3. /\ z \in SegmentType /\ z.to = Peer(e) /\ z.ack = 0 /\ z.isack
      /\ ~ z.syn /\ ~ z.fin /\ z.data = "none"
  BY <1>2 DEF SegmentType
<1>4. z = Rst(e)
  BY DEF Rst, y
<1> HIDE DEF z
<1>5. Consumes(z) = 0
  BY <1>3 DEF Consumes, DataLen, Num
<1>6. Said(e, a, c, z)
  BY <1>1, <1>3, <1>5 DEF Said, ByClient, ByServer
<1>7. QED BY <1>3, <1>4, <1>5, <1>6

\* A record that has only had an ACK taken, with whatever it says again.
LEMMA AgainKeeps ==
  ASSUME TInv, NEW s \in net, conn[s.to].st # "NONE", NEW out, Worked(s.to, Work(Updated(s), out), {s}),
         \A o \in out : Said(s.to, app, Updated(s), o),
         Updated(s).st \in {"SYN_SENT", "SYN_RCVD"} \cup Done
  PROVE  TInv'
<1> DEFINE e == s.to
           b == Updated(s)
           w == Work(b, out)
<1>1. /\ e \in Ends /\ Local(e, app, b) /\ Same(conn[e], b)
  BY UpdatedIs
<1> HIDE DEF b
<1>2. w.c = b /\ w.out = out /\ w = Work(w.c, w.out)
  BY DEF Work
<1>3. CoreWork(e, app, w) /\ Worked(e, w, {s})
  BY <1>1, <1>2 DEF CoreWork, Local, b
<1>4. Since(e, app, b, b, s)
  <2>1. b.rcv \in Nat /\ b.st # "NONE"
    BY <1>1 DEF Same, RecordType
  <2>2. QED BY <2>1 DEF Since, Later
<1>5. e = "client" => b.st # "SYN_RCVD"
  BY <1>1 DEF Local, Client
<1>6. (e = "client" /\ accepts = 0) => b.st \in {"NONE", "SYN_SENT"} \cup Done
  BY <1>5 DEF b
<1> HIDE DEF w, e
<1>7. QED BY <1>1, <1>2, <1>3, <1>4, <1>6, HeardKeeps DEF b, e

LEMMA SynAgainKeeps ==
  ASSUME TInv, NEW s \in net, SynAgain(s)
  PROVE  TInv'
<1> DEFINE e == s.to
           b == Updated(s)
           out == {[u.seg EXCEPT !.copy = u.retries] : u \in {x \in b.unacked : x.seg.syn}}
<1>1. Local(e, app, b) /\ b \in RecordType
  BY UpdatedIs DEF Local, Core
<1>2. conn[e].st # "NONE" /\ b.st = "SYN_RCVD" /\ Worked(e, Work(b, out), {s})
  BY DEF SynAgain, Known
<1>3. \A o \in out : Said(e, app, b, o)
  <2>1. ASSUME NEW u \in b.unacked PROVE Said(e, app, b, [u.seg EXCEPT !.copy = u.retries])
    <3>1. Said(e, app, b, u.seg) /\ u.retries \in 0 .. MaxRetries
      BY <1>1 DEF Local, Core, RecordType, Kept
    <3>2. QED BY <3>1, CopySaid
  <2> HIDE DEF b
  <2>2. QED BY <2>1
<1> HIDE DEF out
<1>4. QED BY <1>2, <1>3, AgainKeeps

LEMMA AckAgainKeeps ==
  ASSUME TInv, NEW s \in net, AckAgain(s)
  PROVE  TInv'
<1> DEFINE e == s.to
           b == Updated(s)
           out == IF s.fin \/ DataLen(s) > 0 THEN {Segment(e, b, "none")} ELSE {}
<1>1. e \in Ends /\ b \in RecordType
  BY UpdatedIs DEF Local, Core
<1>2. conn[e].st # "NONE" /\ b.st \in Done /\ Worked(e, Work(b, out), {s})
  BY DEF AckAgain, Known, Done
<1>3. \A o \in out : Said(e, app, b, o)
  BY <1>1, AckSaid
<1> HIDE DEF out
<1>4. QED BY <1>2, <1>3, AgainKeeps

LEMMA IgnoreKeeps ==
  ASSUME TInv, NEW s \in net, Ignore(s)
  PROVE  TInv'
<1>1. conn[s.to].st # "NONE" /\ Updated(s).st \in {"SYN_SENT", "SYN_RCVD"} \cup Done
      /\ Worked(s.to, Work(Updated(s), {}), {s})
  BY DEF Ignore, Known, Done
<1>2. QED BY <1>1, AgainKeeps
\* A connection that ends, with an RST or without a word.
LEMMA FinishedKeeps ==
  ASSUME TInv, NEW e \in Ends, conn[e].st # "NONE", NEW st \in Done,
         (e = "client" /\ Web(app) /\ st = "CLOSED") => conn[e].fin,
         NEW out \in SUBSET {Rst(e)}, NEW used, Worked(e, Work(Finish(conn[e], st), out), used)
  PROVE  TInv'
<1> DEFINE c == conn[e]
           d == Finish(c, st)
           w == Work(d, out)
<1>1. Local(e, app, c)
  BY DEF TInv
<1>2. /\ Local(e, app, d) /\ d.st = st /\ Later(c, d) /\ d.una = c.una
      /\ d.fin = c.fin /\ d.open = c.open
  BY <1>1, FinishLocal
<1>3. Core(e, app, d) /\ d \in RecordType /\ Worked(e, w, used)
  BY <1>2 DEF Local, Core
<1> HIDE DEF d
<1>4. w.c = d /\ w.out = out /\ w = Work(w.c, w.out)
  BY DEF Work
<1>5. \A o \in out : Said(e, app, d, o)
  BY <1>3, RstSaid
<1>6. CoreWork(e, app, w)
  BY <1>3, <1>4, <1>5 DEF CoreWork
<1> HIDE DEF w
<1>7. QED BY <1>2, <1>3, <1>4, <1>6, QuietKeeps

LEMMA ReceiveRstKeeps ==
  ASSUME TInv, NEW s \in net, ReceiveRst(s)
  PROVE  TInv'
<1> DEFINE e == s.to
           c == conn[e]
           cut == e = "client" /\ c.ssh = -1 /\ ~ c.fin
           st == IF c.st = "SYN_SENT" \/ cut THEN "FAILED" ELSE "CLOSED"
<1>1. e \in Ends /\ c.st # "NONE" /\ Worked(e, Work(Finish(c, st), {}), {s})
  BY DEF TInv, OnTheWay, SegmentType, ReceiveRst
<1>2. st \in Done /\ {} \in SUBSET {Rst(e)}
  BY DEF Done
<1>3. (e = "client" /\ Web(app) /\ st = "CLOSED") => c.fin
  BY <1>1 DEF TInv, Local, Core, Web
<1> HIDE DEF st, e
<1>4. QED BY <1>1, <1>2, <1>3, FinishedKeeps

LEMMA EndKeeps ==
  ASSUME TInv, \/ Unreachable \/ Reset \/ \E e \in Ends : Abort(e)
  PROVE  TInv'
<1>1. PICK e \in Ends : Alive(e) /\ \E out \in SUBSET {Rst(e)} : Worked(e, Work(Finish(conn[e], "FAILED"), out), {})
  <2>1. CASE Unreachable
    BY <2>1 DEF Unreachable, Alive, Ends, Done
  <2>2. CASE Reset
    BY <2>2 DEF Reset, Ends
  <2>3. CASE \E e \in Ends : Abort(e)
    BY <2>3 DEF Abort
  <2>4. QED BY <2>1, <2>2, <2>3
<1>2. "FAILED" \in Done /\ conn[e].st # "NONE"
  BY <1>1 DEF Alive, Done
<1>3. QED BY <1>1, <1>2, FinishedKeeps

LEMMA RtoTimerKeeps ==
  ASSUME TInv, NEW e \in Ends, NEW u \in conn[e].unacked, RtoTimer(e, u)
  PROVE  TInv'
<1> DEFINE c == conn[e]
           more == [u EXCEPT !.retries = u.retries + 1]
           x == (c.unacked \ {u}) \cup {more}
           d == [c EXCEPT !.unacked = x]
           w == Work(d, {[u.seg EXCEPT !.copy = more.retries]})
<1>1. Local(e, app, c) /\ Core(e, app, c) /\ c \in RecordType
  BY DEF TInv, Local, Core
<1>2. u \in Kept /\ Said(e, app, c, u.seg) /\ Consumes(u.seg) = 1
  BY <1>1 DEF Core, RecordType
<1>3. c.st # "NONE"
  BY DEF TInv, NoConn, Record
<1>4. CASE u.retries >= MaxRetries
  <2>1. "FAILED" \in Done /\ Worked(e, Work(Finish(c, "FAILED"), {}), {})
    BY <1>4 DEF Done, RtoTimer
  <2>2. QED BY <1>3, <2>1, FinishedKeeps
<1>5. CASE ~ (u.retries >= MaxRetries)
  <2>1. Worked(e, w, {})
    BY <1>5 DEF RtoTimer
  <2>2. more \in Kept /\ more.seg = u.seg /\ more.retries \in 0 .. MaxRetries
    BY <1>2, <1>5, ConstTypes DEF Kept
  <2> DEFINE o == [u.seg EXCEPT !.copy = more.retries]
  <2>3. Said(e, app, c, o)
    BY <1>2, <2>2, CopySaid
  <2> HIDE DEF o, more
  <2>4. x \in SUBSET Kept /\ \A y \in x : \E z \in c.unacked : y.seg = z.seg
    BY <1>1, <2>2 DEF RecordType
  <2>5. \A z \in c.unacked : \E y \in x : y.seg = z.seg
    BY <2>2
  <2> HIDE DEF x
  <2>6. Same(c, d) /\ d.unacked = x /\ d.una = c.una /\ Later(c, d) /\ d \in RecordType
    BY <1>1, <2>4 DEF Same, RecordType, Later
  <2>7. w.c = d /\ w.out = {o} /\ w = Work(w.c, w.out)
    BY DEF Work, o
  <2> HIDE DEF d, w
  <2>8. \A s : Said(e, app, c, s) => Said(e, app, d, s)
    BY <1>1, <2>6, SaidLater
  <2>9. Core(e, app, d)
    <3>1. \A y \in d.unacked : Said(e, app, d, y.seg) /\ Consumes(y.seg) = 1
      BY <1>1, <2>4, <2>6, <2>8 DEF Core
    <3>2. NoHole(d)
      BY <1>1, <2>5, <2>6 DEF Core, NoHole, IsLive, Same
    <3>3. QED BY <1>1, <2>6, <3>1, <3>2 DEF Core, Same
  <2>10. CoreWork(e, app, w)
    BY <2>3, <2>7, <2>8, <2>9 DEF CoreWork
  <2>11. Local(e, app, d)
    BY <1>1, <2>6, <2>9, SameLocal DEF Local
  <2>12. QED BY <1>3, <2>1, <2>6, <2>7, <2>10, <2>11, QuietKeeps DEF Same
<1>6. QED BY <1>4, <1>5

LEMMA ReadTimerKeeps ==
  ASSUME TInv, NEW e \in Ends, ReadTimer(e)
  PROVE  TInv'
<1> DEFINE c == conn[e]
           late == c.st = "ESTABLISHED" /\ (c.ssh = -1 \/ (~ c.open /\ c.ssh = c.read))
           d == [c EXCEPT !.read = -1]
           w == Work(d, {})
<1>1. Local(e, app, c) /\ Core(e, app, c) /\ c \in RecordType
  BY DEF TInv, Local, Core
<1>2. c.st # "NONE"
  BY DEF TInv, NoConn, Record, ReadTimer
<1>3. CASE late
  <2>1. "FAILED" \in Done /\ Worked(e, Work(Finish(c, "FAILED"), {Rst(e)}), {})
    BY <1>3 DEF Done, ReadTimer
  <2>2. QED BY <1>2, <2>1, FinishedKeeps
<1>4. CASE ~ late
  <2>1. Worked(e, w, {})
    BY <1>4 DEF ReadTimer
  <2>2. d \in RecordType
    BY <1>1 DEF RecordType
  <2>3. Same(c, d) /\ d.unacked = c.unacked /\ d.una = c.una /\ Later(c, d)
    BY <1>1, <2>2 DEF Same, RecordType, Later
  <2>4. w.c = d /\ w.out = {} /\ w = Work(w.c, w.out)
    BY DEF Work
  <2> HIDE DEF d, w
  <2>5. \A s : Said(e, app, c, s) => Said(e, app, d, s)
    BY <1>1, <2>2, <2>3, SaidLater
  <2>6. Core(e, app, d)
    BY <1>1, <2>2, <2>3, <2>5 DEF Core, NoHole, IsLive, Same
  <2>7. CoreWork(e, app, w) /\ Local(e, app, d)
    BY <1>1, <2>3, <2>4, <2>6, SameLocal DEF CoreWork, Local
  <2>8. QED BY <1>2, <2>1, <2>3, <2>4, <2>7, QuietKeeps DEF Same
<1>5. QED BY <1>3, <1>4

LEMMA AnswerLaterKeeps ==
  ASSUME TInv, AnswerLater
  PROVE  TInv'
<1> DEFINE c == conn["server"]
           w == Work(c, {})
           v == Respond("server", w)
<1>1. Local("server", app, c) /\ Core("server", app, c) /\ Server(app, c) /\ c \in RecordType /\ "server" \in Ends
  BY DEF TInv, Local, Core, Ends
<1>2. c.deferred /\ c.st = "ESTABLISHED" /\ Worked("server", v, {})
  BY DEF AnswerLater
<1>3. app # "ssh" /\ c.tls # "wait"
  BY <1>1, <1>2 DEF Server
<1>4. w.c = c /\ CoreWork("server", app, w)
  BY <1>1 DEF Work, CoreWork
<1> HIDE DEF w
<1>5. /\ CoreWork("server", app, v) /\ Local("server", app, v.c)
      /\ v.c.st = "FIN_WAIT_1" /\ v.c.una = c.una /\ v.c.rcv = c.rcv /\ v.c.fin = c.fin /\ v.c.open = c.open
  BY <1>1, <1>2, <1>3, <1>4, RespondWork
<1> HIDE DEF v
<1>6. Later(c, v.c)
  BY <1>1, <1>5 DEF Later, RecordType
<1>7. QED BY <1>1, <1>2, <1>5, <1>6, QuietKeeps

LEMMA DisconnectKeeps ==
  ASSUME TInv, Disconnect
  PROVE  TInv'
<1> DEFINE c == conn["client"]
           d == [c EXCEPT !.st = "FIN_WAIT_1", !.read = -1]
           w == Work(d, {})
           v == SendFin("client", w)
           z == v.c
<1>1. Core("client", app, c) /\ Client(app, c) /\ c \in RecordType /\ "client" \in Ends
  BY DEF TInv, Local, Core, Ends
<1>2. c.st = "ESTABLISHED" /\ c.ssh >= 0 /\ Worked("client", v, {})
  BY DEF Disconnect
<1>3. app = "ssh" /\ ~ Web(app)
  BY <1>1, <1>2 DEF Core, Web
<1>4. "FIN_WAIT_1" \in States /\ -1 \in Int
  BY DEF States, Flowing
<1>5. d \in RecordType
  BY <1>1, <1>4 DEF RecordType
<1>6. /\ d.st = "FIN_WAIT_1" /\ d.unacked = c.unacked /\ d.nxt = c.nxt /\ d.una = c.una /\ d.rcv = c.rcv
      /\ d.fin = c.fin /\ d.open = c.open /\ d.ssh = c.ssh /\ d.tls = c.tls /\ d.got = c.got
      /\ d.sent = c.sent
  BY <1>1, <1>5 DEF RecordType
<1>7. Work(c, {}).c = c /\ Work(c, {}).out = {} /\ CoreWork("client", app, Work(c, {}))
  BY <1>1 DEF Work, CoreWork
<1>8. w.c = d
  BY DEF Work
<1> HIDE DEF d
<1>9. Edited(app, c, d)
  BY <1>1, <1>2, <1>3, <1>5, <1>6 DEF Edited, Later, IsLive, RecordType, Done
<1>10. CoreWork("client", app, w)
  <2> DEFINE x == Work(c, {})
  <2> HIDE DEF x
  <2>1. x.c = c /\ x.out = {} /\ CoreWork("client", app, x)
    BY <1>7 DEF x
  <2>2. QED BY ZenonT(60), <1>9, <2>1, EditedWork
<1> HIDE DEF w
<1>11. CoreWork("client", app, v) /\ Moved(d, z, 1, 0)
  BY <1>1, <1>3, <1>8, <1>10, SendFinWork
<1> HIDE DEF v
<1>12. /\ z.st = "FIN_WAIT_1" /\ z.nxt = c.nxt + 1 /\ z.una = c.una /\ z.rcv = c.rcv /\ z.fin = c.fin
       /\ z.open = c.open /\ z.ssh = c.ssh /\ z.tls = c.tls /\ z.got = c.got
  BY <1>6, <1>11 DEF Moved
<1>13. c.nxt \in Nat /\ c.rcv \in Nat
  BY <1>1 DEF RecordType
<1>14. Client(app, z)
  BY <1>1, <1>3, <1>12, <1>13 DEF Client
<1>15. Local("client", app, z) /\ Later(c, z)
  BY <1>11, <1>12, <1>13, <1>14 DEF Local, CoreWork, Later
<1>16. QED BY <1>1, <1>2, <1>11, <1>12, <1>15, QuietKeeps
-------------------------------------------------------------------------------
(* Connections that begin and that are forgotten *)

LEMMA NoConnIs ==
  /\ NoConn \in RecordType /\ NoConn.st = "NONE" /\ NoConn.nxt = 0 /\ NoConn.una = 0 /\ NoConn.rcv = 0
  /\ NoConn.unacked = {} /\ ~ NoConn.fin /\ NoConn.ssh = -1 /\ ~ NoConn.open /\ NoConn.tls = "no"
  /\ NoConn.got = 0 /\ ~ NoConn.deferred /\ NoConn.sent = 0 /\ NoConn.tlsSent = 0
<1>1. "NONE" \in States /\ -1 \in Int /\ {} \in SUBSET Kept
  BY DEF States
<1>2. QED BY <1>1 DEF NoConn, Record, RecordType

LEMMA NoConnLocal == ASSUME NEW e \in Ends, NEW a PROVE Local(e, a, NoConn)
<1>1. Core(e, a, NoConn)
  BY NoConnIs DEF Core, NoHole, IsLive
<1>2. Client(a, NoConn) /\ Server(a, NoConn)
  BY NoConnIs DEF Client, Server
<1>3. QED BY <1>1, <1>2 DEF Local

LEMMA ForgottenKeeps ==
  ASSUME TInv, app # "none", NEW e \in Ends, conn[e].st \in Done \cup {"NONE"},
         NEW out \in SUBSET {Rst(e)}, NEW used, Worked(e, Work(NoConn, out), used)
  PROVE  TInv'
<1> DEFINE p == Peer(e)
<1>1. p \in Ends /\ p # e /\ Ends = {e, p} /\ Peer(p) = e
  BY DEF Peer, Ends
<1>2. conn \in [Ends -> RecordType] /\ app \in Apps \cup {"none"} /\ accepts \in Nat
  BY DEF TInv
<1>3. app' = app /\ accepts' = accepts /\ conn' = [conn EXCEPT ![e] = NoConn]
  <2>1. Work(NoConn, out).c = NoConn
    BY DEF Work
  <2>2. QED BY <2>1, NoConnIs DEF Worked
<1>4. conn'[e] = NoConn /\ conn'[p] = conn[p] /\ conn' \in [Ends -> RecordType]
  BY <1>1, <1>2, <1>3, NoConnIs
<1>5. \A f \in Ends : Local(f, app', conn'[f])
  BY <1>1, <1>3, <1>4, NoConnLocal DEF TInv
<1>6. Over => Over'
  BY <1>1, <1>4, NoConnIs DEF Over, Ends
<1>7. Web(app') /\ conn'["server"].fin => Over'
  BY <1>1, <1>3, <1>4, <1>6, NoConnIs DEF TInv, Ends
<1>8. ASSUME NEW s, OnTheWay(s) PROVE OnTheWay(s)'
  <2>1. s \in SegmentType /\ s.to \in Ends
    BY <1>8 DEF OnTheWay, SegmentType
  <2>2. (accepts <= 1 /\ conn'[Peer(s.to)].st # "NONE") =>
          /\ s.ack <= conn'[Peer(s.to)].rcv
          /\ (app = "ssh" /\ s.to = "client" /\ s.data # "none" /\ 2 * s.seq >= Steps) => conn'[Peer(s.to)].open
    BY <1>1, <1>4, <1>8, <2>1, NoConnIs DEF OnTheWay
  <2>3. QED BY <1>3, <1>6, <1>8, <2>2 DEF OnTheWay
<1>9. PICK arriving \in SUBSET out : net' = (net \ used) \cup arriving
  <2>1. Work(NoConn, out).out = out
    BY DEF Work
  <2>2. QED BY <2>1 DEF Worked
<1>10. \A s \in arriving : s = Rst(e) /\ Said(e, app', NoConn, s) /\ s.ack = 0 /\ s.data = "none"
  BY <1>9, NoConnIs, RstSaid
<1>11. \A s \in net' : OnTheWay(s)'
  <2>1. ASSUME NEW s \in net' PROVE OnTheWay(s)'
    <3>1. CASE s \in net
      BY <1>8, <3>1 DEF TInv
    <3>2. CASE s \in arriving
      BY <1>4, <1>10, <3>2, NoConnIs, SaidArrives
    <3>3. QED BY <1>9, <2>1, <3>1, <3>2
  <2>2. QED BY <2>1
<1>12. accepts' = 0 => Unheard'
  <2>1. ASSUME accepts = 0 PROVE Unheard'
    <3>1. Unheard
      BY <2>1 DEF TInv
    <3>2. \A s \in net' : s.to = "client" => s.ack = 0 /\ s.data = "none"
      BY <1>9, <1>10, <3>1 DEF Unheard
    <3>3. conn'["server"].st = "NONE" /\ conn'["client"].st \in {"NONE", "SYN_SENT"} \cup Done
          /\ conn'["client"].una = 0 /\ ~ conn'["client"].open
      BY <1>1, <1>4, <3>1, NoConnIs DEF Unheard, Ends
    <3>4. QED BY <3>2, <3>3 DEF Unheard
  <2>2. QED BY <1>3, <2>1
<1>13. accepts' <= 1 => \A f \in Ends :
         conn'[f].st # "NONE" /\ conn'[Peer(f)].st # "NONE" => conn'[f].una <= conn'[Peer(f)].rcv
  BY <1>1, <1>4, NoConnIs
<1>14. accepts' = 1 /\ conn'["client"].open => conn'["server"].open \/ conn'["server"].st = "NONE"
  BY <1>1, <1>4, NoConnIs DEF Ends
<1>15. \A f \in Ends : conn'[f].st = "NONE" => conn'[f] = NoConn
  BY <1>1, <1>4 DEF TInv
<1>16. QED BY <1>2, <1>3, <1>4, <1>5, <1>7, <1>11, <1>12, <1>13, <1>14, <1>15 DEF TInv

LEMMA RefuseKeeps ==
  ASSUME TInv, NEW s \in net, Refuse(s)
  PROVE  TInv'
<1> DEFINE e == s.to
           out == IF s.rst THEN {} ELSE {Rst(e)}
<1>1. e \in Ends /\ app # "none"
  BY DEF TInv, OnTheWay, SegmentType, Untouched
<1>2. out \in SUBSET {Rst(e)} /\ conn[e].st \in Done \cup {"NONE"} /\ Worked(e, Work(NoConn, out), {s})
  BY DEF Refuse
<1> HIDE DEF out
<1>3. QED BY <1>1, <1>2, ForgottenKeeps

LEMMA PruneKeeps ==
  ASSUME TInv, NEW e \in Ends, Prune(e)
  PROVE  TInv'
<1>1. conn[e].st \in Done /\ Worked(e, Work(NoConn, {}), {})
  BY DEF Prune
<1>2. app # "none"
  BY <1>1, NoConnIs DEF TInv, Untouched, Done
<1>3. QED BY <1>1, <1>2, ForgottenKeeps
\* A record with nothing behind it says something that takes a number.
LEMMA FirstSyn ==
  ASSUME NEW e \in Ends, NEW a, NEW c, c \in RecordType, c.nxt = 0, c.una = 0, c.unacked = {},
         c.st \in {"SYN_SENT", "SYN_RCVD"}, c.ssh = -1, ~ c.open,
         NEW s \in SegmentType, s.to = Peer(e), s.seq = 0, s.ack = c.rcv, s.syn, s.isack \/ e = "client",
         ~ s.fin, s.data = "none"
  PROVE  LET v == Transmit(Work(c, {}), s)
         IN  CoreWork(e, a, v) /\ v.out = {s} /\ Moved(c, v.c, 1, 0)
<1> DEFINE w == Work(c, {})
           v == Transmit(w, s)
<1>1. w.c = c /\ w.out = {} /\ w = Work(w.c, w.out)
  BY DEF Work
<1>2. Core(e, a, c)
  BY DEF Core, NoHole
<1>3. CoreWork(e, a, w)
  BY <1>1, <1>2 DEF CoreWork
<1>4. Consumes(s) = 1 /\ DataLen(s) = 0
  BY DEF Consumes, DataLen, Num
<1>5. Said(e, a, w.c, s)
  BY <1>1, <1>4 DEF Said, ByClient, ByServer, RecordType
<1>6. v.out = {s}
  BY <1>1 DEF Transmit, Work
<1> HIDE DEF w
<1>7. QED BY <1>1, <1>3, <1>4, <1>5, <1>6, Transmitted

LEMMA AcceptKeeps ==
  ASSUME TInv, NEW s \in net, Accept(s)
  PROVE  TInv'
<1>1. OnTheWay(s) /\ s.to \in Ends /\ app # "none" /\ s.syn /\ ~ s.isack /\ conn[s.to].st \in Done \cup {"NONE"}
  BY DEF TInv, OnTheWay, SegmentType, Untouched, Accept, PureSyn
<1>2. CASE app = "closed"
  <2>1. Worked(s.to, Work(NoConn, {Rst(s.to)}), {s})
    BY <1>2 DEF Accept
  <2>2. QED BY <1>1, <2>1, ForgottenKeeps
<1>3. CASE app # "closed"
  <2> DEFINE r == Record("SYN_RCVD", s.seq + 1)
             c == [r EXCEPT !.tls = IF app = "https" THEN "wait" ELSE "no"]
             y == Segment("server", c, "none")
             z == [y EXCEPT !.syn = TRUE]
             v == Transmit(Work(c, {}), z)
             d == v.c
  <2>1. s.to = "server" /\ s.seq = 0 /\ Peer("server") = "client" /\ Peer("client") = "server"
    BY <1>1 DEF OnTheWay, Ends, Peer
  <2>2. Worked("server", v, {s})
    BY <1>3, <2>1 DEF Accept
  <2>3. /\ c \in RecordType /\ c.st = "SYN_RCVD" /\ c.nxt = 0 /\ c.una = 0 /\ c.rcv = 1 /\ c.unacked = {}
        /\ ~ c.fin /\ c.ssh = -1 /\ ~ c.open /\ c.tls = (IF app = "https" THEN "wait" ELSE "no")
        /\ c.tlsSent = 0 /\ c.sent = 0 /\ ~ c.deferred
    <3>1. "SYN_RCVD" \in States /\ -1 \in Int /\ {} \in SUBSET Kept /\ s.seq + 1 = 1
      BY <2>1 DEF States
    <3> DEFINE h == Record("SYN_RCVD", 1)
    <3>2. r = h
      BY <3>1
    <3>3. /\ h \in RecordType /\ h.st = "SYN_RCVD" /\ h.nxt = 0 /\ h.una = 0 /\ h.rcv = 1 /\ h.unacked = {}
          /\ ~ h.fin /\ h.ssh = -1 /\ ~ h.open /\ h.tlsSent = 0 /\ h.sent = 0 /\ ~ h.deferred
      BY <3>1 DEF Record, RecordType
    <3> HIDE DEF h, r
    <3>4. QED BY <3>2, <3>3 DEF RecordType
  <2> HIDE DEF c
  <2>4. "server" \in Ends /\ "none" \in Datas
    BY DEF Ends, Datas
  <2>5. /\ y \in SegmentType /\ y.to = "client" /\ y.seq = 0 /\ y.ack = c.rcv /\ y.isack /\ ~ y.fin /\ y.data = "none"
    BY <2>1, <2>3, <2>4, Segmented
  <2> HIDE DEF y
  <2>6. /\ z \in SegmentType /\ z.to = "client" /\ z.seq = 0 /\ z.ack = c.rcv /\ z.isack /\ ~ z.fin /\ z.data = "none"
        /\ z.syn
    BY <2>5 DEF SegmentType
  <2> HIDE DEF z
  <2>7. CoreWork("server", app, v) /\ v.out = {z} /\ Moved(c, d, 1, 0)
    BY <2>1, <2>3, <2>4, <2>6, FirstSyn
  <2> HIDE DEF v
  <2>8. /\ d \in RecordType /\ d.st = "SYN_RCVD" /\ d.nxt = 1 /\ d.una = 0 /\ d.rcv = 1
        /\ ~ d.fin /\ d.ssh = -1 /\ ~ d.open /\ d.tls = (IF app = "https" THEN "wait" ELSE "no")
        /\ d.tlsSent = 0 /\ d.sent = 0 /\ ~ d.deferred
    BY <2>3, <2>7 DEF Moved
  <2>9. Said("server", app, d, z)
    BY <2>7 DEF CoreWork
  <2>10. Local("server", app, d)
    <3>1. Server(app, d)
      BY <2>8 DEF Server
    <3>2. QED BY <2>7, <3>1 DEF Local, CoreWork
  <2>11. conn \in [Ends -> RecordType] /\ app \in Apps \cup {"none"} /\ accepts \in Nat
    BY DEF TInv
  <2>12. app' = app /\ accepts' = accepts + 1 /\ conn' = [conn EXCEPT !["server"] = d]
    BY <1>1, <2>1, <2>2, <2>8 DEF Worked, Done
  <2>13. conn'["server"] = d /\ conn'["client"] = conn["client"] /\ conn' \in [Ends -> RecordType]
    BY <2>4, <2>8, <2>11, <2>12
  <2>14. \A f \in Ends : Local(f, app', conn'[f])
    BY <2>10, <2>12, <2>13 DEF TInv, Ends
  <2>15. accepts' <= 1 => accepts = 0 /\ Unheard
    BY <2>11, <2>12 DEF TInv
  <2>16. Over' <=> Over
    BY <2>13 DEF Over
  <2>17. ASSUME NEW x, OnTheWay(x), Unheard => (x.to = "client" => x.ack = 0 /\ x.data = "none")
         PROVE  OnTheWay(x)'
    <3>1. x.to \in Ends
      BY <2>17 DEF OnTheWay, SegmentType
    <3>2. (accepts' <= 1 /\ conn'[Peer(x.to)].st # "NONE") =>
            /\ x.ack <= conn'[Peer(x.to)].rcv
            /\ (app = "ssh" /\ x.to = "client" /\ x.data # "none" /\ 2 * x.seq >= Steps) => conn'[Peer(x.to)].open
      <4>1. CASE x.to = "client"
        BY <2>1, <2>8, <2>13, <2>15, <2>17, <4>1
      <4>2. CASE x.to = "server"
        BY <2>1, <2>11, <2>12, <2>13, <2>17, <4>2 DEF OnTheWay
      <4>3. QED BY <3>1, <4>1, <4>2 DEF Ends
    <3>3. QED BY <2>12, <2>16, <2>17, <3>2 DEF OnTheWay
  <2>18. \A x \in net' : OnTheWay(x)'
    <3>1. ASSUME NEW x, NEW q, x = z, q = d PROVE OnTheWay(x)'
      <4>1. Said("server", app', q, x) /\ conn'["server"] = q /\ ~ q.fin
        BY <2>8, <2>9, <2>12, <2>13, <3>1
      <4>2. QED BY <2>4, <4>1, SaidArrives
    <3>2. net' \subseteq net \cup {z}
      BY <2>2, <2>7 DEF Worked
    <3>3. \A x \in net : OnTheWay(x)'
      BY <2>17 DEF TInv, Unheard
    <3>4. \A x : x = z => OnTheWay(x)'
      BY <3>1
    <3>5. QED BY <3>2, <3>3, <3>4
  <2>19. accepts' <= 1 => conn'["client"].una <= conn'["server"].rcv /\ conn'["server"].una <= conn'["client"].rcv
    <3>1. conn["client"].rcv \in Nat
      BY <2>11 DEF RecordType, Ends
    <3>2. QED BY <2>8, <2>13, <2>15, <3>1 DEF Unheard
  <2>20. accepts' # 0
    BY <2>11, <2>12
  <2>21. accepts' = 1 => ~ conn'["client"].open
    BY <2>13, <2>15 DEF Unheard
  <2>22. \A f \in Ends : conn'[f].st = "NONE" => conn'[f] = NoConn
    BY <2>8, <2>13 DEF TInv, Ends
  <2>23. Web(app') /\ conn'["server"].fin => Over'
    BY <2>8, <2>13
  <2>24. accepts' \in Nat
    BY <2>11, <2>12
  <2>25. \A f \in Ends : f = "client" \/ f = "server"
    BY DEF Ends
  <2>26. QED BY <1>1, <2>1, <2>11, <2>12, <2>13, <2>14, <2>18, <2>19, <2>20, <2>21, <2>22, <2>23, <2>24, <2>25 DEF TInv
<1>4. QED BY <1>2, <1>3

LEMMA ConnectKeeps ==
  ASSUME TInv, NEW a \in Apps, Connect(a)
  PROVE  TInv'
<1> DEFINE c == Record("SYN_SENT", 0)
           y == Segment("client", c, "none")
           z == [y EXCEPT !.syn = TRUE, !.isack = FALSE]
           v == Transmit(Work(c, {}), z)
           d == v.c
<1>1. Peer("server") = "client" /\ Peer("client") = "server" /\ "client" \in Ends /\ "server" \in Ends /\ "none" \in Datas
  BY DEF Peer, Ends, Datas
<1>2. /\ c \in RecordType /\ c.st = "SYN_SENT" /\ c.nxt = 0 /\ c.una = 0 /\ c.rcv = 0 /\ c.unacked = {}
      /\ ~ c.fin /\ c.ssh = -1 /\ ~ c.open /\ c.tls = "no" /\ c.got = 0
  <2>1. "SYN_SENT" \in States /\ -1 \in Int /\ {} \in SUBSET Kept
    BY DEF States
  <2>2. QED BY <2>1 DEF Record, RecordType
<1> HIDE DEF c
<1>3. /\ y \in SegmentType /\ y.to = "server" /\ y.seq = 0 /\ y.ack = c.rcv /\ ~ y.fin /\ y.data = "none"
  BY <1>1, <1>2, Segmented
<1>4. /\ app = "none" /\ app' = a /\ conn' = [conn EXCEPT !["client"] = d] /\ net' \subseteq v.out /\ accepts' = accepts
  BY DEF Connect, y, c
<1> HIDE DEF y
<1>5. /\ z \in SegmentType /\ z.to = "server" /\ z.seq = 0 /\ z.ack = c.rcv /\ ~ z.fin /\ z.data = "none" /\ z.syn
  BY <1>3 DEF SegmentType
<1> HIDE DEF z
<1>6. CoreWork("client", a, v) /\ v.out = {z} /\ Moved(c, d, 1, 0)
  BY <1>1, <1>2, <1>5, FirstSyn
<1> HIDE DEF v
<1>7. /\ d \in RecordType /\ d.st = "SYN_SENT" /\ d.nxt = 1 /\ d.una = 0 /\ d.rcv = 0
      /\ ~ d.fin /\ d.ssh = -1 /\ ~ d.open /\ d.tls = "no" /\ d.got = 0
  BY <1>2, <1>6 DEF Moved
<1>8. Local("client", a, d)
  <2>1. Client(a, d)
    BY <1>7 DEF Client
  <2>2. QED BY <1>6, <2>1 DEF Local, CoreWork
<1>9. conn = [e \in Ends |-> NoConn] /\ net = {} /\ accepts = 0
  BY <1>4 DEF TInv, Untouched
<1>10. conn'["client"] = d /\ conn'["server"] = NoConn /\ conn' \in [Ends -> RecordType]
  BY <1>1, <1>4, <1>7, <1>9, NoConnIs
<1>11. \A f \in Ends : Local(f, app', conn'[f])
  BY <1>4, <1>8, <1>10, NoConnLocal DEF Ends
<1>12. a # "none"
  BY TcpAssumption
<1>13. \A x \in net' : x = z /\ OnTheWay(x)'
  <2>1. Said("client", a, d, z)
    BY <1>6 DEF CoreWork
  <2>2. QED BY <1>1, <1>4, <1>6, <1>7, <1>10, <2>1, SaidArrives
<1>14. Unheard'
  BY <1>5, <1>7, <1>10, <1>13, NoConnIs DEF Unheard
<1>15. \A f \in Ends : f = "client" \/ f = "server"
  BY DEF Ends
<1>16. \A f \in Ends : conn'[f].st = "NONE" => conn'[f] = NoConn
  BY <1>7, <1>10, <1>15
<1>17. \A f \in Ends : conn'[f].st # "NONE" /\ conn'[Peer(f)].st # "NONE" => conn'[f].una <= conn'[Peer(f)].rcv
  BY <1>1, <1>10, <1>15, NoConnIs
<1>18. QED BY <1>4, <1>7, <1>9, <1>10, <1>11, <1>12, <1>13, <1>14, <1>16, <1>17, NoConnIs DEF TInv
-------------------------------------------------------------------------------
(* The induction *)

LEMMA InitTInv == Init => TInv
<1> SUFFICES ASSUME Init PROVE TInv
  OBVIOUS
<1>1. app = "none" /\ net = {} /\ accepts = 0 /\ conn = [e \in Ends |-> NoConn]
  BY DEF Init
<1>2. \A e \in Ends : conn[e] = NoConn
  BY <1>1
<1>3. conn \in [Ends -> RecordType] /\ \A e \in Ends : Local(e, app, conn[e])
  BY <1>1, <1>2, NoConnIs, NoConnLocal
<1>4. "client" \in Ends /\ "server" \in Ends
  BY DEF Ends
<1>5. Unheard
  BY <1>1, <1>2, <1>4, NoConnIs DEF Unheard
<1>6. Untouched
  BY <1>1 DEF Untouched
<1>7. \A e \in Ends : conn[e].st = "NONE"
  BY <1>2, NoConnIs
<1>8. ~ conn["server"].fin /\ ~ conn["client"].open
  BY <1>2, <1>4, NoConnIs
<1>9. QED BY <1>1, <1>2, <1>3, <1>5, <1>6, <1>7, <1>8 DEF TInv

LEMMA StepTInv == TInv /\ [Next]_vars => TInv'
<1> SUFFICES ASSUME TInv, [Next]_vars PROVE TInv'
  OBVIOUS
<1>1. CASE \E a \in Apps : Connect(a)
  BY <1>1, ConnectKeeps
<1>2. CASE \E s \in net : Deliver(s)
  <2> SUFFICES ASSUME NEW s \in net, Deliver(s) PROVE TInv'
    BY <1>2
  <2>1. CASE Accept(s)
    BY <2>1, AcceptKeeps
  <2>2. CASE Refuse(s)
    BY <2>2, RefuseKeeps
  <2>3. CASE ReceiveRst(s)
    BY <2>3, ReceiveRstKeeps
  <2>4. CASE Connected(s)
    BY <2>4, ConnectedKeeps
  <2>5. CASE SynAgain(s)
    BY <2>5, SynAgainKeeps
  <2>6. CASE AckAgain(s)
    BY <2>6, AckAgainKeeps
  <2>7. CASE Ignore(s)
    BY <2>7, IgnoreKeeps
  <2>8. ASSUME NEW defer \in {FALSE, Deferring /\ app # "ssh"}, Established(s, defer) \/ Receive(s, defer)
        PROVE  TInv'
    BY <2>8, EstablishedKeeps, ReceiveKeeps
  <2>9. QED BY <2>1, <2>2, <2>3, <2>4, <2>5, <2>6, <2>7, <2>8 DEF Deliver
<1>3. ASSUME NEW e \in Ends, Timers(e) PROVE TInv'
  BY <1>3, ReadTimerKeeps, RtoTimerKeeps DEF Timers
<1>4. ASSUME NEW e \in Ends, Prune(e) PROVE TInv'
  BY <1>4, PruneKeeps
<1>5. CASE Unreachable \/ Reset \/ \E e \in Ends : Abort(e)
  BY <1>5, EndKeeps
<1>6. CASE AnswerLater
  BY <1>6, AnswerLaterKeeps
<1>7. CASE Disconnect
  BY <1>7, DisconnectKeeps
<1>8. CASE UNCHANGED vars
  BY <1>8 DEF vars, TInv, Local, Core, NoHole, IsLive, Client, Server, OnTheWay, Over, Untouched, Unheard
<1>9. QED BY <1>1, <1>2, <1>3, <1>4, <1>5, <1>6, <1>7, <1>8 DEF Next

LEMMA Inductive == Spec => []TInv
<1>1. QED BY InitTInv, StepTInv, PTL DEF Spec

-------------------------------------------------------------------------------
(* The theorems *)

\* Records and segments stay what they are; no segment is kept with more than
\* MaxRetries retries, and every copy on its way is one of them (scheduleRto).
THEOREM TypeCorrect == Spec => []TypeOK
BY Inductive, TInvType, PTL

\* In a live connection every number that has not been acknowledged is kept with
\* its timer, and nothing is acknowledged that the other end has not received
\* (transmit, handle: ACKs late, repeated, out of order, after a reset).
THEOREM NumbersAccounted == Spec => []NothingUnaccounted
BY Inductive, TInvNumbers, PTL

\* A web client whose connection shows as closed has the whole answer
\* (receiveFin, the RST of handle, cancelAll).
THEOREM ClosedIsComplete == Spec => []ClosedMeansComplete
BY Inductive, TInvComplete, PTL

\* An SSH session open at the client is open at the server, or the server's end
\* of it is over (sshNext): the last message cannot be lost between the two.  The
\* server has accepted once; of one that a late SYN made accept again nothing is claimed.
THEOREM SessionsAgree == Spec => []SessionAgreed
BY Inductive, TInvAgreed, PTL
=============================================================================
