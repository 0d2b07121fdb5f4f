-------------------------------- MODULE Tcp ---------------------------------
(***************************************************************************)
(* core/nodes/tcp.ts: one connection between two TcpStacks, from the       *)
(* client's SYN to both ends having forgotten it, for the three            *)
(* applications the stack plays: HTTP, HTTPS (a small TLS handshake first) *)
(* and an SSH session that stays open.  Proxies, jump hosts and health     *)
(* checks, which put an application of their own on a connection, are not  *)
(* modelled, except that a server may defer its answer as they do.         *)
(*                                                                         *)
(* A data segment has length 1 and sequence numbers count from 0.  The     *)
(* network loses segments and delivers the others in any order.  Timers    *)
(* may expire at any moment they are set.                                  *)
(***************************************************************************)
EXTENDS Integers, FiniteSets

CONSTANTS
    Apps,           \* what the user may connect to: "http", "https", "ssh", "closed"
    Segments,       \* responseSegments: segments of an answer
    MaxRetries,     \* TCP_MAX_RETRIES
    Steps,          \* messages that open an SSH session (SSH_STEPS)
    Deferring,      \* whether an application may take a request and answer later
    MaxFlight       \* bound of the model: segments on their way at once; more are lost

ASSUME TcpAssumption ==
    /\ Apps \subseteq {"http", "https", "ssh", "closed"}
    /\ Segments \in Nat \ {0} /\ MaxRetries \in Nat /\ Steps \in Nat \ {0}
    /\ Deferring \in BOOLEAN /\ MaxFlight \in Nat

VARIABLES
    app,    \* the service at the port the client connects to
    conn,   \* the record of the connection in each stack
    net,    \* segments on their way
    accepts \* how often the server has accepted the connection (ghost)

vars == <<app, conn, net, accepts>>

Ends == {"client", "server"}
Peer(e) == IF e = "client" THEN "server" ELSE "client"

Done    == {"CLOSED", "FAILED"}
Flowing == {"ESTABLISHED", "FIN_WAIT_1", "FIN_WAIT_2", "CLOSE_WAIT", "LAST_ACK"}

\* read: -1 without a read timer, otherwise the SSH step it was set for (0
\* for HTTP).  ssh: -1, or the number of SSH messages exchanged.
Record(st, rcv) ==
    [st |-> st, nxt |-> 0, una |-> 0, rcv |-> rcv, unacked |-> {}, fin |-> FALSE,
     read |-> -1, ssh |-> -1, open |-> FALSE, tls |-> "no", tlsSent |-> 0,
     got |-> 0, sent |-> 0, deferred |-> FALSE]
NoConn == Record("NONE", 0)

-----------------------------------------------------------------------------
(* Segments.  copy tells a retransmission from the first transmission;     *)
(* data is "none" in a segment that carries no data.                       *)

Num(b)      == IF b THEN 1 ELSE 0
DataLen(s)  == Num(s.data # "none")
Consumes(s) == DataLen(s) + Num(s.syn) + Num(s.fin)
EndOf(s)    == s.seq + Consumes(s)

Segment(e, c, data) ==
    [to |-> Peer(e), seq |-> c.nxt, ack |-> c.rcv, isack |-> TRUE,
     syn |-> FALSE, fin |-> FALSE, rst |-> FALSE, data |-> data, copy |-> 0]

Rst(e) == [Segment(e, NoConn, "none") EXCEPT !.rst = TRUE]

\* A stack at work: its record and the segments it has sent so far.
Work(c, out) == [c |-> c, out |-> out]

\* transmit: what takes sequence numbers waits for its ACK with a timer.
Transmit(w, s) ==
    Work([w.c EXCEPT !.nxt = @ + Consumes(s), !.sent = @ + DataLen(s),
                     !.unacked = IF Consumes(s) = 0 THEN @
                                 ELSE @ \cup {[seg |-> s, retries |-> 0]}],
         w.out \cup {s})

SendAck(e, w)     == Transmit(w, Segment(e, w.c, "none"))
SendData(e, w, d) == Transmit(w, Segment(e, w.c, d))
SendFin(e, w)     == Transmit(w, [Segment(e, w.c, "none") EXCEPT !.fin = TRUE])

\* cancelAll, with the state the connection ends in.
Finish(c, st) == [c EXCEPT !.st = st, !.unacked = {}, !.read = -1]

-----------------------------------------------------------------------------
(* The applications.                                                       *)

\* Mutant: the read timer is never set.
ArmReadNever(w) == w

ArmRead(w) == [w EXCEPT !.c.read = 0]

SendRequest(e, w) == ArmRead(SendData(e, w, "request"))

TlsHello(e, w) == ArmRead(SendData(e, [w EXCEPT !.c.tls = "wait"], "client-hello"))

\* respond: the segments of the answer one after the other, then FIN.
Answer(e, c) ==
    LET s == Segment(e, c, "response")
    IN  {[s EXCEPT !.seq = @ + k] : k \in 0 .. Segments - 1}
          \cup {[s EXCEPT !.seq = @ + Segments, !.data = "none", !.fin = TRUE]}

Respond(e, w) ==
    IF w.c.st # "ESTABLISHED" THEN w
    ELSE Work([w.c EXCEPT !.st = "FIN_WAIT_1", !.nxt = @ + Segments + 1, !.sent = @ + Segments,
                          !.unacked = @ \cup {[seg |-> s, retries |-> 0] : s \in Answer(e, w.c)}],
              w.out \cup Answer(e, w.c))

\* Even steps are the client's.
StepOwner(n) == IF n % 2 = 0 THEN "client" ELSE "server"

\* Mutant: the client takes the session for open when it has spoken last.
SshNextTooSoon(e, w0) ==
    LET n == w0.c.ssh
        w == [w0 EXCEPT !.c.read = -1]
        sent == [w EXCEPT !.c.ssh = n + 1, !.c.open = @ \/ n + 2 >= Steps]
    IN  IF n >= Steps THEN SendAck(e, [w EXCEPT !.c.open = TRUE])
        ELSE IF StepOwner(n) # e THEN SendAck(e, w)
        ELSE SendData(e, sent, "ssh")

\* sshNext: my turn, send the next message; the last one opens the session.
SshNext(e, w0) ==
    LET w == [w0 EXCEPT !.c.read = -1]
        n == w.c.ssh
        sent == [w EXCEPT !.c.ssh = n + 1,
                          !.c.open = @ \/ (n + 1 = Steps /\ e = "server"),
                          !.c.read = IF e = "client" THEN n + 1 ELSE -1]
    IN  IF n >= Steps THEN SendAck(e, [w EXCEPT !.c.open = TRUE])
        ELSE IF StepOwner(n) # e THEN SendAck(e, w)
        ELSE SendData(e, sent, "ssh")

\* handshake: the messages of TLS before the request.
Handshake(e, w, s) ==
    CASE e = "client" ->
           SendRequest(e, SendData(e, [w EXCEPT !.c.tls = "done"], "finished"))
      [] e = "server" /\ s.data = "client-hello" ->
           SendData(e, [w EXCEPT !.c.tlsSent = w.c.sent + 1], "server-hello")
      [] OTHER -> SendAck(e, [w EXCEPT !.c.tls = "done"])

\* The server has the request: the application answers, or defers.
Serve(e, w, defer) ==
    IF defer THEN SendAck(e, [w EXCEPT !.c.deferred = TRUE])
    ELSE IF app = "ssh" THEN SshNext(e, [w EXCEPT !.c.ssh = 1])
    ELSE Respond(e, w)

\* Mutant: data received before is taken again.
ReceiveDataTwice(e, w0, s, defer) ==
    IF s.seq > w0.c.rcv THEN SendAck(e, w0)
    ELSE SendAck(e, [w0 EXCEPT !.c.rcv = s.seq + 1, !.c.got = @ + 1])

\* receiveData: in sequence or not at all; then the application's turn.
ReceiveData(e, w0, s, defer) ==
    LET c == w0.c
        w == [w0 EXCEPT !.c.rcv = s.seq + 1, !.c.got = @ + 1,
                        !.c.read = IF e = "client" /\ c.ssh = -1 /\ c.st = "ESTABLISHED" THEN 0
                                   ELSE IF e = "client" THEN -1 ELSE @]
        up == c.st = "ESTABLISHED"
    IN  CASE s.seq # c.rcv -> SendAck(e, w0)
          [] s.seq = c.rcv /\ up /\ c.ssh >= 0 -> SshNext(e, [w EXCEPT !.c.ssh = @ + 1])
          [] s.seq = c.rcv /\ up /\ c.ssh < 0 /\ c.tls = "wait" -> Handshake(e, w, s)
          [] s.seq = c.rcv /\ up /\ c.ssh < 0 /\ c.tls # "wait" /\ e = "server"
               /\ c.sent = c.tlsSent /\ ~ c.deferred -> Serve(e, w, defer)
          [] OTHER -> SendAck(e, w)

\* Mutant: a FIN is taken although data before it is missing.
ReceiveFinEarly(e, w0, s) ==
    LET w == [w0 EXCEPT !.c.rcv = s.seq + 1, !.c.fin = TRUE, !.c.read = -1]
    IN  IF w.c.st = "ESTABLISHED"
          THEN SendFin(e, [SendAck(e, w) EXCEPT !.c.st = "LAST_ACK"])
          ELSE SendAck(e, w)

\* receiveFin: acknowledge it, and close this side too.
ReceiveFin(e, w0, s) ==
    LET w == [w0 EXCEPT !.c.rcv = s.seq + 1, !.c.fin = TRUE, !.c.read = -1]
        acked == SendAck(e, w)
    IN  IF s.seq # w0.c.rcv THEN SendAck(e, w0)
        ELSE IF w.c.st = "ESTABLISHED" THEN SendFin(e, [acked EXCEPT !.c.st = "LAST_ACK"])
        ELSE IF acked.c.unacked = {} THEN [acked EXCEPT !.c = Finish(@, "CLOSED")]
        ELSE acked

\* After a segment on a flowing connection: has my FIN been acknowledged?
Settle(c) ==
    IF c.st = "FIN_WAIT_1" /\ c.unacked = {}
      THEN IF c.fin THEN Finish(c, "CLOSED") ELSE [c EXCEPT !.st = "FIN_WAIT_2"]
    ELSE IF c.st = "LAST_ACK" /\ c.unacked = {} THEN Finish(c, "CLOSED")
    ELSE c

-----------------------------------------------------------------------------
(* Receiving a segment (handle).                                           *)

\* The stack of e has worked: its record is w.c, it has sent w.out, of which
\* the network loses some.
Worked(e, w, used) ==
    /\ conn' = [conn EXCEPT ![e] = w.c]
    /\ \E arriving \in SUBSET w.out :
          /\ net' = (net \ used) \cup arriving
          /\ Cardinality(net') <= MaxFlight
    /\ accepts' = IF w.c.st = "SYN_RCVD" /\ conn[e].st # "SYN_RCVD" THEN accepts + 1 ELSE accepts
    /\ UNCHANGED app

Acked(c, s) ==
    IF s.isack /\ s.ack > c.una
      THEN [c EXCEPT !.una = s.ack, !.unacked = {u \in @ : EndOf(u.seg) > s.ack}]
      ELSE c

PureSyn(s) == s.syn /\ ~ s.isack

\* A SYN that finds no connection, or a finished one, is a new connection.
Accept(s) ==
    LET e == s.to
        c == [Record("SYN_RCVD", s.seq + 1) EXCEPT !.tls = IF app = "https" THEN "wait" ELSE "no"]
    IN  /\ PureSyn(s) /\ conn[e].st \in Done \cup {"NONE"}
        /\ IF app = "closed"
             THEN Worked(e, Work(NoConn, {Rst(e)}), {s})
             ELSE Worked(e, Transmit(Work(c, {}), [Segment(e, c, "none") EXCEPT !.syn = TRUE]), {s})

\* Anything else that finds no connection is refused.
Refuse(s) ==
    /\ ~ PureSyn(s) /\ conn[s.to].st = "NONE"
    /\ Worked(s.to, Work(NoConn, IF s.rst THEN {} ELSE {Rst(s.to)}), {s})

\* A client cut off before the end of the answer has failed.
ReceiveRst(s) ==
    LET c   == conn[s.to]
        cut == s.to = "client" /\ c.ssh = -1 /\ ~ c.fin
    IN  /\ s.rst /\ c.st # "NONE"
        /\ Worked(s.to, Work(Finish(c, IF c.st = "SYN_SENT" \/ cut THEN "FAILED" ELSE "CLOSED"), {}), {s})

\* The record a segment that is neither RST nor a new SYN works on.
Known(s) ==
    conn[s.to].st # "NONE" /\ ~ s.rst /\ ~ (PureSyn(s) /\ conn[s.to].st \in Done)
Updated(s) == Acked(conn[s.to], s)

\* The client's connection is up: it speaks first.
Connected(s) ==
    LET e == s.to
        w == Work([Updated(s) EXCEPT !.rcv = s.seq + 1, !.st = "ESTABLISHED"], {})
        a == SendAck(e, w)
    IN  /\ Known(s) /\ conn[e].st = "SYN_SENT" /\ s.syn /\ s.isack /\ s.ack = 1
        /\ Worked(e, CASE app = "ssh"   -> SshNext(e, [a EXCEPT !.c.ssh = 0])
                       [] app = "https" -> TlsHello(e, a)
                       [] OTHER         -> SendRequest(e, a), {s})

\* The server's is: a lost ACK is made up for by the data that follows it.
Established(s, defer) ==
    LET e == s.to
        w == Work([Updated(s) EXCEPT !.st = "ESTABLISHED"], {})
    IN  /\ Known(s) /\ conn[e].st = "SYN_RCVD" /\ s.isack /\ s.ack = 1
        /\ Worked(e, IF DataLen(s) > 0 THEN ReceiveData(e, w, s, defer) ELSE w, {s})

\* The client repeats its SYN: repeat the SYN-ACK.
SynAgain(s) ==
    LET c == Updated(s)
    IN  /\ Known(s) /\ c.st = "SYN_RCVD" /\ PureSyn(s)
        /\ Worked(s.to, Work(c, {[u.seg EXCEPT !.copy = u.retries] : u \in {x \in c.unacked : x.seg.syn}}), {s})

Receive(s, defer) ==
    LET e    == s.to
        w    == Work(Updated(s), {})
        data == IF DataLen(s) > 0 THEN ReceiveData(e, w, s, defer) ELSE w
        fin  == IF s.fin THEN ReceiveFin(e, data, s) ELSE data
    IN  /\ Known(s) /\ conn[e].st \in Flowing
        /\ Worked(e, [fin EXCEPT !.c = Settle(@)], {s})

\* TIME_WAIT: the peer repeats what I acknowledged, my ACK was lost.
AckAgain(s) ==
    LET c == Updated(s)
    IN  /\ Known(s) /\ c.st = "CLOSED"
        /\ Worked(s.to, Work(c, IF s.fin \/ DataLen(s) > 0 THEN {Segment(s.to, c, "none")} ELSE {}), {s})

\* What the state does not expect only has its ACK taken.
Ignore(s) ==
    LET c == Updated(s)
    IN  /\ Known(s)
        /\ \/ c.st = "FAILED"
           \/ c.st = "SYN_SENT" /\ ~ (s.syn /\ s.isack /\ s.ack = 1)
           \/ c.st = "SYN_RCVD" /\ ~ (s.isack /\ s.ack = 1) /\ ~ PureSyn(s)
        /\ Worked(s.to, Work(c, {}), {s})

Deliver(s) ==
    \/ Accept(s) \/ Refuse(s) \/ ReceiveRst(s) \/ Connected(s) \/ SynAgain(s)
    \/ AckAgain(s) \/ Ignore(s)
    \/ \E defer \in {FALSE, Deferring /\ app # "ssh"} : Established(s, defer) \/ Receive(s, defer)

-----------------------------------------------------------------------------
(* Timers and users.                                                       *)

\* Mutants: one retransmission too many; retransmissions not counted.
RtoTimerOnceMore(e, u) ==
    LET more == [u EXCEPT !.retries = @ + 1]
    IN  /\ u \in conn[e].unacked
        /\ IF u.retries > MaxRetries
             THEN Worked(e, Work(Finish(conn[e], "FAILED"), {}), {})
             ELSE Worked(e, Work([conn[e] EXCEPT !.unacked = (@ \ {u}) \cup {more}],
                                 {[u.seg EXCEPT !.copy = more.retries]}), {})
RtoTimerUncounted(e, u) ==
    /\ u \in conn[e].unacked
    /\ Worked(e, Work(conn[e], {[u.seg EXCEPT !.copy = 1]}), {})

\* A retransmission timer: send the segment again, or give the peer up.
RtoTimer(e, u) ==
    LET c    == conn[e]
        more == [u EXCEPT !.retries = @ + 1]
    IN  /\ u \in c.unacked
        /\ IF u.retries >= MaxRetries
             THEN Worked(e, Work(Finish(c, "FAILED"), {}), {})
             ELSE Worked(e, Work([c EXCEPT !.unacked = (@ \ {u}) \cup {more}],
                                 {[u.seg EXCEPT !.copy = more.retries]}), {})

\* The read timer: the answer, or the next SSH message, did not come.
ReadTimer(e) ==
    LET c    == conn[e]
        late == c.st = "ESTABLISHED" /\ (c.ssh = -1 \/ (~ c.open /\ c.ssh = c.read))
    IN  /\ c.read >= 0
        /\ IF late THEN Worked(e, Work(Finish(c, "FAILED"), {Rst(e)}), {})
                   ELSE Worked(e, Work([c EXCEPT !.read = -1], {}), {})

Connect(a) ==
    LET c == Record("SYN_SENT", 0)
        w == Transmit(Work(c, {}), [Segment("client", c, "none") EXCEPT !.syn = TRUE, !.isack = FALSE])
    IN  /\ app = "none"
        /\ app' = a
        /\ conn' = [conn EXCEPT !["client"] = w.c]
        /\ net' \in SUBSET w.out
        /\ UNCHANGED accepts

\* The answer that was deferred.
AnswerLater ==
    LET c == conn["server"]
    IN  /\ c.deferred /\ c.st = "ESTABLISHED" /\ c.sent = c.tlsSent
        /\ Worked("server", Respond("server", Work(c, {})), {})

\* The user closes an SSH session, open or still being opened.
Disconnect ==
    LET c == conn["client"]
    IN  /\ c.st = "ESTABLISHED" /\ c.ssh >= 0
        /\ Worked("client", SendFin("client", Work([c EXCEPT !.st = "FIN_WAIT_1", !.read = -1], {})), {})

Alive(e) == conn[e].st \notin Done \cup {"NONE"}

\* onUnreachable: an ICMP error about the SYN.
Unreachable ==
    /\ conn["client"].st = "SYN_SENT"
    /\ Worked("client", Work(Finish(conn["client"], "FAILED"), {}), {})

\* reset: the service is switched off.
Reset ==
    /\ Alive("server")
    /\ Worked("server", Work(Finish(conn["server"], "FAILED"), {Rst("server")}), {})

\* abortAll: the host loses its address, and tells nobody.
Abort(e) == Alive(e) /\ Worked(e, Work(Finish(conn[e], "FAILED"), {}), {})

\* prune: twelve connections that ended later push this one out.
Prune(e) == conn[e].st \in Done /\ Worked(e, Work(NoConn, {}), {})

-----------------------------------------------------------------------------
Init ==
    /\ app = "none"
    /\ conn = [e \in Ends |-> NoConn]
    /\ net = {} /\ accepts = 0

Timers(e) == ReadTimer(e) \/ \E u \in conn[e].unacked : RtoTimer(e, u)

Next ==
    \/ \E a \in Apps : Connect(a)
    \/ \E s \in net : Deliver(s)
    \/ \E e \in Ends : Timers(e) \/ Abort(e) \/ Prune(e)
    \/ AnswerLater \/ Disconnect \/ Unreachable \/ Reset

Spec == Init /\ [][Next]_vars

\* The scheduler fires every timer that is not cancelled.
FairSpec == Spec /\ \A e \in Ends : WF_vars(Timers(e))

-----------------------------------------------------------------------------
(* Properties.                                                             *)

SegmentType ==
    [to : Ends, seq : Nat, ack : Nat, isack : BOOLEAN, syn : BOOLEAN, fin : BOOLEAN, rst : BOOLEAN,
     data : {"none", "request", "response", "client-hello", "server-hello", "finished", "ssh"},
     copy : 0 .. MaxRetries]
States == {"NONE", "SYN_SENT", "SYN_RCVD"} \cup Flowing \cup Done

\* TypeOK: at most MaxRetries copies of a segment are sent after the first.
TypeOK ==
    /\ app \in Apps \cup {"none"} /\ net \subseteq SegmentType /\ accepts \in Nat
    /\ \A e \in Ends :
          /\ conn[e].st \in States
          /\ \A k \in {"nxt", "una", "rcv", "got", "sent"} : conn[e][k] \in Nat
          /\ \A u \in conn[e].unacked : u.seg \in SegmentType /\ u.retries \in 0 .. MaxRetries

\* Everything sent and not acknowledged will be sent again: in a connection
\* that is alive no sequence number above una is without its retransmission
\* timer, whatever ACKs come back in whatever order.
NoHoleInFlight ==
    \A e \in Ends :
       Alive(e) /\ accepts <= 1 =>
         \A n \in conn[e].una .. conn[e].nxt - 1 :
            \E u \in conn[e].unacked : u.seg.seq = n

\* What the client shows as a normal end is one: it has every segment of the
\* answer, whatever was lost, repeated, reordered, cut off by an RST or
\* switched off on the way.
ClosedMeansComplete ==
    conn["client"].st = "CLOSED" /\ app \in {"http", "https"} =>
       conn["client"].fin /\ conn["client"].got = Segments + Num(app = "https")

\* Nothing counts as acknowledged that the other end has not received (once
\* a late SYN has made the server accept again, its numbers start over and
\* nothing of the kind is claimed).
AckedWasReceived ==
    \A e \in Ends :
       accepts = 1 /\ conn[e].st # "NONE" /\ conn[Peer(e)].st # "NONE" =>
          conn[e].una <= conn[Peer(e)].rcv

\* Every number sent is accounted for: acknowledged and received, or kept to
\* be sent again.
NothingUnaccounted == NoHoleInFlight /\ AckedWasReceived

\* A client that shows its SSH session as open has one at the server, or the
\* server's end of it is over.  (What a server accepted again by a late SYN is another
\* connection: nothing is claimed of it.)
SessionAgreed ==
    conn["client"].open /\ accepts = 1 =>
       conn["server"].open \/ conn["server"].st \in Done \cup {"NONE"}

\* A connection attempt comes to an end the user sees, whatever the network
\* and the server do: closed, failed, or an open SSH session.  Only a session
\* the user is closing may hang: nothing times FIN_WAIT_2 out.
ClientEnds ==
    conn["client"].st = "SYN_SENT" ~>
       \/ conn["client"].st \in Done \cup {"NONE", "FIN_WAIT_2"}
       \/ conn["client"].open

\* No segment is retransmitted for ever, so the simulation comes to rest.
EverythingSettles ==
    \A e \in Ends : conn[e].unacked # {} ~> conn[e].unacked = {}
=============================================================================
