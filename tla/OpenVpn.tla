------------------------------- MODULE OpenVpn ---------------------------------
(***************************************************************************)
(* OpenVPN over UDP (src/src/core/nodes/openvpn.ts): clients that hold     *)
(* certificates of one CA, and a server that gives each certificate an     *)
(* address of its pool.  Four requests are answered in turn, each sent     *)
(* again until its answer comes; a tunnel that hears nothing begins anew,  *)
(* and a server that starts again, or throws a client out, says so.        *)
(*                                                                         *)
(* TLS is three messages in the code too.  Session numbers are drawn from  *)
(* those in no use; messages are faster than timers.                       *)
(***************************************************************************)
EXTENDS Naturals, Sequences, FiniteSets, FiniteSetsExt

CONSTANTS
  OvpnClients,   \* devices with a client
  Certs,         \* possible ways to hand out certificates: functions from devices to names
  VpnPool,       \* addresses of the tunnel's subnet
  OvpnTries,     \* sendings of a request, and of a name query (3)
  MaxOvpnFaults  \* bound: messages lost, moves, restarts of the server, users' doings

VARIABLES
  ovpn,       \* ovpn[c]: what the client's device keeps
  ovpnServer, \* [on, revoked, sessions (device, place) -> session, leases name -> address]
  cnOf,       \* cnOf[c]: the name on its certificate
  place,      \* place[c]: the device's address
  asks, tells, \* asks[c], tells[c]: messages to and from the server under way
  ovpnFaults
ovpnVars == <<ovpn, ovpnServer, cnOf, place, asks, tells, ovpnFaults>>

Empty == <<>>
Answer == [reset |-> "reset-server", tls |-> "tls-server", auth |-> "tls-ok", push |-> "push-reply"]
NotUp == "none"
Off == [phase |-> NotUp, sid |-> 0, pending |-> "none", tries |-> 0, vip |-> 0, heard |-> FALSE]
Idle == [s |-> Off, enabled |-> TRUE, failed |-> "no", resolving |-> FALSE, resolveTries |-> 0,
         reconnect |-> FALSE, retry |-> FALSE]

\* A message, and a client's next state with the messages it sends
Msg(op, sid, at, v) == <<[op |-> op, sid |-> sid, at |-> at, v |-> v]>>
Still(x) == [x |-> x, out |-> <<>>]

\* the numbers c has given its sessions that are still in use, and a number that is not
UsedSids(c) ==
  {ovpn[c].s.sid} \cup {asks[c][i].sid : i \in DOMAIN asks[c]} \cup {tells[c][i].sid : i \in DOMAIN tells[c]}
  \cup {ovpnServer.sessions[k].sid : k \in {k \in DOMAIN ovpnServer.sessions : k[1] = c}}
NewSid(c) == CHOOSE n \in 1 .. Cardinality(UsedSids(c)) + 1 : n \notin UsedSids(c)

Request(c, x, phase, op) ==
  LET s == [x.s EXCEPT !.phase = phase, !.pending = op, !.tries = 1]
  IN  [x |-> [x EXCEPT !.s = s], out |-> Msg(op, s.sid, place[c], 0)]

Start(c, x) == Request(c, [x EXCEPT !.s = [Off EXCEPT !.sid = NewSid(c)]], "reset", "reset")

\* the server is looked up by name first; nothing is done while one attempt is running or after a failure
Connect(x) ==
  LET y == IF x.failed = "name" /\ ~x.resolving THEN [x EXCEPT !.failed = "no", !.resolveTries = 0] ELSE x
  IN  IF y.enabled /\ y.s = Off /\ ~y.resolving /\ y.failed = "no" THEN [y EXCEPT !.resolving = TRUE] ELSE y

ScheduleReconnect(x) == [x EXCEPT !.reconnect = TRUE]
ScheduleRetry(x) == [x EXCEPT !.retry = TRUE]
StopRetry(x) == [x EXCEPT !.retry = FALSE]
Forget(x) == [x EXCEPT !.s = Off]
Fail(x, why) == LET y == [Forget(x) EXCEPT !.failed = why] IN IF why = "transient" THEN ScheduleRetry(y) ELSE y
Close(c, x) == [x |-> Forget(x), out |-> IF x.s.phase = "up" THEN Msg("exit", x.s.sid, place[c], 0) ELSE <<>>]

Init ==
  /\ cnOf \in Certs
  /\ ovpn = [c \in OvpnClients |-> Connect(Idle)]
  /\ ovpnServer = [on |-> TRUE, revoked |-> {}, sessions |-> Empty, leases |-> Empty]
  /\ place = [c \in OvpnClients |-> 1]
  /\ asks = [c \in OvpnClients |-> <<>>] /\ tells = [c \in OvpnClients |-> <<>>] /\ ovpnFaults = 0

Become(c, step) == ovpn' = [ovpn EXCEPT ![c] = step.x] /\ asks' = [asks EXCEPT ![c] = @ \o step.out]

-------------------------------------------------------------------------------
\* The client.  An answer counts only if it is the one it waits for, in this session
Heard(c, m) ==
  LET x == [ovpn[c] EXCEPT !.s.heard = TRUE]
      s == x.s
      awaited == s.pending # "none" /\ m.op \in {Answer[s.pending]} \cup (IF s.pending = "auth" THEN {"tls-fail"} ELSE {})
      y == [x EXCEPT !.s.pending = "none"]
  IN  IF m.op = "kicked" THEN Still([x EXCEPT !.s = Off, !.failed = "kicked"])
      ELSE IF m.op = "restart" THEN Still(ScheduleReconnect(Forget(x)))
      ELSE IF ~awaited THEN Still(x)
      ELSE IF m.op = "reset-server" THEN Request(c, y, "tls", "tls")
      ELSE IF m.op = "tls-server" THEN Request(c, y, "auth", "auth")
      ELSE IF m.op = "tls-fail" THEN Still([Forget(y) EXCEPT !.failed = "refused"])
      ELSE IF m.op = "tls-ok" THEN Request(c, y, "auth", "push")
      ELSE Still(StopRetry([y EXCEPT !.s.vip = m.v, !.s.phase = "up"]))

ClientHandle(c) ==
  /\ tells[c] # <<>>
  /\ tells' = [tells EXCEPT ![c] = Tail(@)]
  /\ LET m == Head(tells[c])
         mine == m.at = place[c] /\ ovpn[c].s # Off /\ m.sid = ovpn[c].s.sid
     IN  Become(c, IF mine THEN Heard(c, m) ELSE Still(ovpn[c]))
  /\ UNCHANGED <<ovpnServer, cnOf, place, ovpnFaults>>

\* nothing is under way between this client and the server: timers are slower than messages
Quiet(c) == asks[c] = <<>> /\ tells[c] = <<>>

Resolved(c, ok) ==
  /\ ovpn[c].resolving
  /\ LET x == [ovpn[c] EXCEPT !.resolving = FALSE]
         tried == [x EXCEPT !.resolveTries = @ + 1]
     IN  Become(c, IF ~x.enabled \/ x.s # Off THEN Still(x)
                   ELSE IF ok THEN Start(c, [x EXCEPT !.resolveTries = 0])
                   ELSE IF tried.resolveTries < OvpnTries THEN Still(ScheduleReconnect(tried))
                   ELSE Still(Fail(tried, "name")))
  /\ ok \/ ovpnFaults < MaxOvpnFaults
  /\ ovpnFaults' = IF ok THEN ovpnFaults ELSE ovpnFaults + 1
  /\ UNCHANGED <<ovpnServer, cnOf, place, tells>>

\* no answer within a second: sent again, or given up for now
Retry(c) ==
  /\ ovpn[c].s.pending # "none" /\ Quiet(c)
  /\ LET x == ovpn[c] IN
       Become(c, IF x.s.tries >= OvpnTries THEN Still(Fail(x, "transient"))
                 ELSE [x |-> [x EXCEPT !.s.tries = @ + 1], out |-> Msg(x.s.pending, x.s.sid, place[c], 0)])
  /\ UNCHANGED <<ovpnServer, cnOf, place, tells, ovpnFaults>>

ConnectRetry(c) ==
  /\ ovpn[c].retry /\ Quiet(c)
  /\ LET x == [ovpn[c] EXCEPT !.retry = FALSE] IN
       Become(c, Still(IF x.s # Off \/ x.resolving \/ ~x.enabled \/ x.failed = "no" THEN x
                       ELSE Connect([x EXCEPT !.failed = "no"])))
  /\ UNCHANGED <<ovpnServer, cnOf, place, tells, ovpnFaults>>

Reconnect(c) ==
  /\ ovpn[c].reconnect /\ Quiet(c)
  /\ LET x == [ovpn[c] EXCEPT !.reconnect = FALSE] IN
       Become(c, Still(IF x.s # Off \/ ~x.enabled THEN x ELSE Connect([x EXCEPT !.failed = "no"])))
  /\ UNCHANGED <<ovpnServer, cnOf, place, tells, ovpnFaults>>

\* 10 s without sending: a ping.  60 s without hearing anything: the tunnel is set up anew
Ping(c) ==
  /\ ovpn[c].s.phase = "up" /\ ovpn[c].s.heard /\ Quiet(c)
  /\ Become(c, [x |-> [ovpn[c] EXCEPT !.s.heard = FALSE], out |-> Msg("ping", ovpn[c].s.sid, place[c], 0)])
  /\ UNCHANGED <<ovpnServer, cnOf, place, tells, ovpnFaults>>

PingRestart(c) ==
  /\ ovpn[c].s.phase = "up" /\ ~ovpn[c].s.heard /\ Quiet(c)
  /\ Become(c, Still(Connect(Forget(ovpn[c]))))
  /\ UNCHANGED <<ovpnServer, cnOf, place, tells, ovpnFaults>>

-------------------------------------------------------------------------------
\* The server.  Sessions are known by where they come from
Up(srv) == {k \in DOMAIN srv.sessions : srv.sessions[k].phase = "up"}
Without(f, k) == [x \in DOMAIN f \ {k} |-> f[x]]
Put(f, k, v) == [x \in DOMAIN f \cup {k} |-> IF x = k THEN v ELSE f[x]]

\* the address a name had; else one never given; else one whose holder is not connected
Allocate(srv, cn) ==
  LET used == {srv.leases[n] : n \in DOMAIN srv.leases}
      away == {n \in DOMAIN srv.leases : \A k \in Up(srv) : srv.sessions[k].cn # n}
  IN  IF cn \in DOMAIN srv.leases THEN {srv.leases}
      ELSE IF VpnPool \ used # {} THEN {Put(srv.leases, cn, Min(VpnPool \ used))}
      ELSE {Put(Without(srv.leases, n), cn, srv.leases[n]) : n \in away}

\* messages for each client: those of key k are at its place, and those of b come after those of a
Nobody == [c \in OvpnClients |-> <<>>]
Note(k, op, s) == [Nobody EXCEPT ![k[1]] = Msg(op, s.sid, k[2], s.vip)]
Tell(a, b) == [c \in OvpnClients |-> a[c] \o b[c]]

ServerKnows(srv, k, m) == k \in DOMAIN srv.sessions /\ srv.sessions[k].sid = m.sid

\* what the server becomes, and what it tells whom
Grant(srv, k, leases) ==
  LET s == [srv.sessions[k] EXCEPT !.phase = "up", !.replies = @ \cup {"push"}, !.vip = leases[srv.sessions[k].cn]]
      out == {o \in Up(srv) \ {k} : srv.sessions[o].cn = s.cn}
      kept == [x \in DOMAIN srv.sessions \ out |-> IF x = k THEN s ELSE srv.sessions[x]]
      told == IF out = {} THEN Nobody ELSE LET o == CHOOSE o \in out : TRUE IN Note(o, "kicked", srv.sessions[o])
  IN  [srv |-> [srv EXCEPT !.leases = leases, !.sessions = kept], out |-> Tell(told, Note(k, "push-reply", s))]

HandleMessage(srv, k, m) ==
  LET s == srv.sessions[k]
      keep == [srv |-> srv, out |-> Nobody]
      say(op, t) == [srv |-> [srv EXCEPT !.sessions = Put(@, k, t)], out |-> Note(k, op, t)]
      fresh == [sid |-> m.sid, phase |-> "reset", cn |-> cnOf[k[1]], vip |-> 0, replies |-> {"reset"}, refused |-> FALSE]
      again == [srv |-> srv, out |-> Note(k, IF m.op = "auth" /\ s.refused THEN "tls-fail" ELSE Answer[m.op], s)]
  IN  IF m.op \in {"data", "ping", "exit"}
      THEN IF ~ServerKnows(srv, k, m) \/ s.phase # "up" \/ m.op = "data" THEN {keep}
           ELSE IF m.op = "ping" THEN {[srv |-> srv, out |-> Note(k, "ping", s)]}
           ELSE {[srv |-> [srv EXCEPT !.sessions = Without(@, k)], out |-> Nobody]}
      ELSE IF ServerKnows(srv, k, m) /\ m.op \in s.replies THEN {again}
      ELSE IF m.op = "reset" THEN {say("reset-server", fresh)}
      ELSE IF ~ServerKnows(srv, k, m) THEN {keep}
      ELSE IF m.op = "tls" THEN {say("tls-server", [s EXCEPT !.phase = "tls", !.replies = @ \cup {"tls"}])}
      ELSE IF m.op = "auth"
      THEN {IF s.cn \in srv.revoked
            THEN say("tls-fail", [s EXCEPT !.phase = "failed", !.refused = TRUE, !.replies = @ \cup {"auth"}])
            ELSE say("tls-ok", [s EXCEPT !.phase = "auth", !.replies = @ \cup {"auth"}])}
      ELSE IF s.phase # "auth" \/ Allocate(srv, s.cn) = {} THEN {keep}
      ELSE {Grant(srv, k, leases) : leases \in Allocate(srv, s.cn)}

ServerHandle(c) ==
  /\ asks[c] # <<>>
  /\ asks' = [asks EXCEPT ![c] = Tail(@)]
  /\ LET m == Head(asks[c]) IN
       \E r \in IF ovpnServer.on THEN HandleMessage(ovpnServer, <<c, m.at>>, m) ELSE {[srv |-> ovpnServer, out |-> Nobody]} :
         ovpnServer' = r.srv /\ tells' = Tell(tells, r.out)
  /\ UNCHANGED <<ovpn, cnOf, place, ovpnFaults>>

-------------------------------------------------------------------------------
Fault == ovpnFaults < MaxOvpnFaults /\ ovpnFaults' = ovpnFaults + 1

\* A new configuration (names revoked, on or off) starts the server again: every session is told and dropped
SetServer(on, revoked) ==
  /\ Fault /\ <<on, revoked>> # <<ovpnServer.on, ovpnServer.revoked>>
  /\ ovpnServer' = [ovpnServer EXCEPT !.on = on, !.revoked = revoked, !.sessions = Empty]
  /\ LET bye(k) == IF k \in DOMAIN ovpnServer.sessions THEN Note(k, "restart", ovpnServer.sessions[k]) ELSE Nobody
     IN  tells' = [c \in OvpnClients |-> tells[c] \o bye(<<c, 1>>)[c] \o bye(<<c, 2>>)[c]]
  /\ UNCHANGED <<ovpn, cnOf, place, asks>>

\* the server loses its own address: the sessions are dropped without a word
ForgetAll == /\ Fault /\ ovpnServer.sessions # Empty /\ ovpnServer' = [ovpnServer EXCEPT !.sessions = Empty]
             /\ UNCHANGED <<ovpn, cnOf, place, asks, tells>>

\* the device gets another address: the session is lost, and it connects
Move(c) ==
  /\ Fault /\ place' = [place EXCEPT ![c] = 3 - @]
  /\ ovpn' = [ovpn EXCEPT ![c] = Connect(Forget(@))]
  /\ UNCHANGED <<ovpnServer, cnOf, asks, tells>>

\* the user: switches the client off or on, or presses "connect again"
Switch(c) ==
  /\ Fault
  /\ LET z == Close(c, ovpn[c])
         y == StopRetry([z.x EXCEPT !.failed = "no", !.resolveTries = 0, !.enabled = ~@])
     IN  Become(c, [x |-> Connect(y), out |-> z.out])
  /\ UNCHANGED <<ovpnServer, cnOf, place, tells>>
Redial(c) ==
  /\ Fault /\ ovpn[c].enabled
  /\ LET z == Close(c, ovpn[c])
     IN  Become(c, [x |-> Connect(StopRetry([z.x EXCEPT !.failed = "no", !.resolveTries = 0])), out |-> z.out])
  /\ UNCHANGED <<ovpnServer, cnOf, place, tells>>

Lose(c) == \/ /\ Fault /\ asks[c] # <<>> /\ asks' = [asks EXCEPT ![c] = Tail(@)]
              /\ UNCHANGED <<ovpn, ovpnServer, cnOf, place, tells>>
           \/ /\ Fault /\ tells[c] # <<>> /\ tells' = [tells EXCEPT ![c] = Tail(@)]
              /\ UNCHANGED <<ovpn, ovpnServer, cnOf, place, asks>>

Work(c) == ClientHandle(c) \/ ServerHandle(c) \/ Resolved(c, TRUE) \/ Retry(c) \/ ConnectRetry(c) \/ Reconnect(c)

Next ==
  \/ \E c \in OvpnClients : Work(c) \/ Resolved(c, FALSE) \/ Ping(c) \/ PingRestart(c)
                            \/ Move(c) \/ Switch(c) \/ Redial(c) \/ Lose(c)
  \/ \E on \in BOOLEAN, revoked \in SUBSET {cnOf[c] : c \in OvpnClients} : SetServer(on, revoked)
  \/ ForgetAll

-------------------------------------------------------------------------------
TypeOK ==
  /\ \A c \in OvpnClients : ovpn[c].s.tries <= OvpnTries /\ ovpn[c].resolveTries <= OvpnTries
  /\ \A n \in DOMAIN ovpnServer.leases : ovpnServer.leases[n] \in VpnPool

\* One address, one certificate: no two live sessions of the server share either, however
\* clients come back, move, crowd each other out or take over an address left behind
OneHolder ==
  \A j, k \in Up(ovpnServer) : LET a == ovpnServer.sessions[j] b == ovpnServer.sessions[k]
                               IN  j # k => a.vip # b.vip /\ a.cn # b.cn

\* A tunnel that both ends count as up carries the same address at both
SameAddress ==
  \A c \in OvpnClients : \A k \in Up(ovpnServer) :
    k = <<c, place[c]>> /\ ovpn[c].s.phase = "up" /\ ovpn[c].s.sid = ovpnServer.sessions[k].sid
      => ovpn[c].s.vip = ovpnServer.sessions[k].vip

\* A client thrown out stays out until its user acts, as the comment at openvpn.ts:296 has it
NotByItself == \A c \in OvpnClients : ovpn[c].failed = "kicked" /\ ovpn'[c].failed # "kicked"
                                      => ovpnFaults' # ovpnFaults

\* A client that is on, not refused and not thrown out comes again to a tunnel that the server
\* knows (it may have forgotten the last one without a word), or the server is off or has no
\* address for it
Known(c) == /\ ovpn[c].s.phase = "up" /\ <<c, place[c]>> \in Up(ovpnServer)
            /\ ovpnServer.sessions[<<c, place[c]>>].sid = ovpn[c].s.sid
Settled(c) == \/ ~ovpn[c].enabled \/ ovpn[c].failed \in {"refused", "kicked", "name"} \/ ~ovpnServer.on
              \/ Known(c) \/ Allocate(ovpnServer, cnOf[c]) = {}
ComesBack == \A c \in OvpnClients : []<>Settled(c)
===============================================================================
