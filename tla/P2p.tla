---------------------------------- MODULE P2p ----------------------------------
(***************************************************************************)
(* Peer-to-peer connections (src/src/core/nodes/p2p.ts): programs behind   *)
(* address translators that exchange candidates over a signalling server,  *)
(* punch holes, and fall back to a relay; with the public servers of       *)
(* src/src/core/nodes/internet.ts.  Each agent is behind a translator of   *)
(* its own (or none), so that every candidate of the other side is outside *)
(* or the relay; what the two STUN servers see is the kind of translator,  *)
(* and both are one question here.  Messages between the same two points   *)
(* keep their order, and are faster than any timer.                        *)
(***************************************************************************)
EXTENDS Naturals, Sequences

CONSTANTS
  Agents,      \* their names: positive numbers, as names are compared
  NatKinds,    \* the behaviours of the translators: functions of the agents
  PunchTries,  \* punches before the relay (6)
  P2pRetries,  \* times a request is sent again (2)
  RegTries,    \* registrations before the slow ones (3)
  Wait,        \* the wait for an answer, a little more than all punches take
  MaxConnects, \* bound: connections the users ask for
  MaxP2pFaults \* bound: messages lost, programs switched, addresses changed

VARIABLES
  nat,      \* nat[i]: the behaviour of i's translator
  ag,       \* ag[i]: on, reg (registered), tries, wait and left of the registration, pending (whom to connect to then)
  sess,     \* sess[i]: peer, role, phase, step and left (what the timer is for, and its time), tries, retries, relay, theirs, via, reason (of the failure)
  hole,     \* pairs <<i, j>>: i has sent to the outer address of j
  registry, \* the names the signalling server knows
  server,   \* server[i]: what i asks of the public servers
  net,      \* net[i, j]: messages from i to j, [op, way]: by the signalling server, direct, or the relay
  connects, p2pFaults
p2pVars == <<nat, ag, sess, hole, registry, server, net, connects, p2pFaults>>

Nobody == 0
NoSession == [peer |-> Nobody, role |-> "none", phase |-> "none", step |-> "none", left |-> 0, tries |-> 0,
              retries |-> 0, relay |-> FALSE, theirs |-> "none", via |-> "none", reason |-> "none"]
NewSession(j, role, theirs) == [NoSession EXCEPT !.peer = j, !.role = role, !.phase = "stun",
                                                 !.theirs = theirs, !.step = "stun", !.left = Wait]
Pairs == {p \in Agents \X Agents : p[1] # p[2]}
Registering == [on |-> TRUE, reg |-> FALSE, tries |-> 1, wait |-> "short", left |-> Wait, pending |-> Nobody]
Gone(on) == [on |-> on, reg |-> FALSE, tries |-> 0, wait |-> "none", left |-> 0, pending |-> Nobody]

Init ==
  /\ nat \in NatKinds
  /\ ag = [i \in Agents |-> Registering]
  /\ sess = [i \in Agents |-> NoSession]
  /\ hole = {} /\ registry = {}
  /\ server = [i \in Agents |-> <<"register">>]
  /\ net = [p \in Pairs |-> <<>>]
  /\ connects = 0 /\ p2pFaults = 0

Arm(s, step, time) == [s EXCEPT !.step = step, !.left = time]
Stop(s) == Arm(s, "none", 0)

Quiet == /\ \A i \in Agents : server[i] = <<>>
         /\ \A p \in Pairs : net[p] = <<>>

-------------------------------------------------------------------------------
(* What a step of i does to its session s, and what it sends: to the       *)
(* servers (asks) and to its peer (sends), by the signalling server (Says) *)
(* or not.                                                                 *)
Only(s) == [s |-> s, asks |-> <<>>, sends |-> <<>>]
Asks(s, what) == [Only(s) EXCEPT !.asks = <<what>>]
Msg(op, way) == [op |-> op, way |-> way]
Says(s, what) == [Only(s) EXCEPT !.sends = <<Msg(what, "signal")>>]
Way(relay) == IF relay THEN "relay" ELSE "direct"

Fail(s, why) == Stop([s EXCEPT !.phase = "failed", !.reason = why])
SendCandidates(s) == Says(s, s.role)
Punch(s) == [Only(Arm([s EXCEPT !.tries = @ + 1], "punch", 1)) EXCEPT
              !.sends = <<Msg("punch", Way(s.theirs = "relay"))>>]
StartPunch(s) == Punch([s EXCEPT !.phase = "punch", !.tries = 0])
PunchExhausted(s) ==
  IF s.phase # "turn" /\ s.role = "offer"
  THEN Asks(Arm([s EXCEPT !.phase = "turn", !.retries = 0], "turn", Wait), "allocate")
  ELSE Only(Arm(s, "wait-relay", IF s.phase = "turn" THEN 2 * Wait ELSE 3 * Wait))

StunDone(s) ==
  IF s.role = "offer"
  THEN SendCandidates(Arm([s EXCEPT !.phase = "signal", !.retries = 0], "signal", Wait))
  ELSE [StartPunch(s) EXCEPT !.sends = SendCandidates(s).sends \o @]

\* i's session and what i sends to its peer; asked, carried: the queues without the message i takes
Do(i, d, asked, carried) ==
  LET p == <<i, d.s.peer>> IN
  /\ sess' = [sess EXCEPT ![i] = d.s]
  /\ server' = [asked EXCEPT ![i] = @ \o d.asks]
  /\ net' = IF p \in Pairs THEN [carried EXCEPT ![p] = @ \o d.sends] ELSE carried
  /\ hole' = IF \E k \in DOMAIN d.sends : d.sends[k].way = "direct" THEN hole \cup {p} ELSE hole

-------------------------------------------------------------------------------
(* The user and the configuration *)

Begin(i, j) == Asks(NewSession(j, "offer", "none"), "stun")

Connect(i, j) ==
  /\ connects < MaxConnects /\ ag[i].on /\ i # j
  /\ connects' = connects + 1
  /\ IF ag[i].reg
     THEN Do(i, Begin(i, j), server, net) /\ ag' = [ag EXCEPT ![i].pending = Nobody]
     ELSE /\ Do(i, Asks(NoSession, "register"), server, net)
          /\ ag' = [ag EXCEPT ![i] = [Registering EXCEPT !.pending = j]]
  /\ UNCHANGED <<nat, registry, p2pFaults>>

\* the program is switched off (and its name given up) or on
SetConfig(i) ==
  /\ p2pFaults < MaxP2pFaults
  /\ p2pFaults' = p2pFaults + 1
  /\ ag' = [ag EXCEPT ![i] = IF @.on THEN Gone(FALSE) ELSE Registering]
  /\ Do(i, Asks(NoSession, IF ag[i].on THEN "unregister" ELSE "register"), server, net)
  /\ UNCHANGED <<nat, registry, connects>>

\* the address changes: every connection ends, and i registers again
Move(i) ==
  /\ p2pFaults < MaxP2pFaults /\ ag[i].on
  /\ p2pFaults' = p2pFaults + 1
  /\ ag' = [ag EXCEPT ![i] = Registering]
  /\ Do(i, Asks(NoSession, "register"), server, net)
  /\ UNCHANGED <<nat, registry, connects>>

-------------------------------------------------------------------------------
(* Answers of the public servers *)

Answer(i, what) ==
  LET s == sess[i] IN
  CASE what = "register" /\ ag[i].on /\ ag[i].pending # Nobody -> Begin(i, ag[i].pending)
    [] what = "stun" /\ s.phase = "stun" -> StunDone(s)
    [] what = "allocate" /\ s.phase = "turn" /\ ~s.relay ->
         Says(Arm([s EXCEPT !.relay = TRUE, !.retries = 0], "turn", Wait), "relay")
    [] OTHER -> Only(s)

ServerAnswers(i) ==
  /\ server[i] # <<>>
  /\ LET what == Head(server[i])
         srv == [server EXCEPT ![i] = Tail(@)] IN
     /\ registry' = CASE what = "register" -> registry \cup {i}
                      [] what = "unregister" -> registry \ {i}
                      [] OTHER -> registry
     /\ ag' = IF what = "register" /\ ag[i].on
              THEN [ag EXCEPT ![i].reg = TRUE, ![i].wait = "none", ![i].left = 0, ![i].pending = Nobody] ELSE ag
     /\ Do(i, Answer(i, what), srv, net)
  /\ UNCHANGED <<nat, connects, p2pFaults>>

-------------------------------------------------------------------------------
(* Messages by way of the signalling server: p is <<from, to>> *)

Busy(j, i) == sess[j].phase \notin {"none", "failed"} /\ sess[j].peer # i
\* both offered at once, and j keeps its offer: its name comes first
KeepsOffer(j, i) == sess[j].role = "offer" /\ sess[j].phase \in {"stun", "signal"} /\ j < i

OnOffer(j, i) ==
  LET s == sess[j] IN
  CASE s.phase \notin {"none", "failed"} /\ KeepsOffer(j, i) -> Only(s)
    [] s.role = "answer" /\ s.phase \in {"stun", "punch", "turn"} ->
         IF s.phase = "stun" THEN Only(s) ELSE SendCandidates(s)
    [] OTHER -> Asks(NewSession(i, "answer", "outside"), "stun")

OnSignal(j, i, m) ==
  LET s == sess[j] IN
  CASE ~ag[j].on -> Only(s)
    [] m = "offer" -> OnOffer(j, i)
    [] m = "busy" /\ s.peer = i /\ s.role = "offer" /\ s.phase \notin {"connected", "failed"} -> Only(Fail(s, "busy"))
    [] m = "answer" /\ s.peer = i /\ s.role = "offer" /\ s.phase = "signal" ->
         StartPunch([s EXCEPT !.theirs = "outside"])
    [] m = "relay" /\ s.peer = i /\ s.phase # "connected" ->
         Punch([s EXCEPT !.theirs = "relay", !.phase = "turn", !.tries = 0, !.reason = "none"])
    [] OTHER -> Only(s)

HandleSignal(p) ==
  /\ net[p] # <<>> /\ Head(net[p]).way = "signal"
  /\ LET i == p[1]
         j == p[2]
         m == Head(net[p]).op
         rest == [net EXCEPT ![p] = Tail(@)] IN
     CASE j \notin registry ->
            Do(i, Only(IF sess[i].peer = j /\ sess[i].phase \notin {"connected", "failed"}
                       THEN Fail(sess[i], "unregistered") ELSE sess[i]), server, rest)
       [] j \in registry /\ m = "offer" /\ ag[j].on /\ Busy(j, i) ->
            /\ net' = [rest EXCEPT ![<<j, i>>] = Append(@, Msg("busy", "signal"))]
            /\ UNCHANGED <<sess, server, hole>>
       [] OTHER -> Do(j, OnSignal(j, i, m), server, rest)
  /\ UNCHANGED <<nat, ag, registry, connects, p2pFaults>>

-------------------------------------------------------------------------------
(* Messages between the two *)

\* does a packet i sends to the address it was told of j get through j's translator?
Passes(i, j) ==
  CASE nat[j] \in {"none", "full-cone"} -> TRUE
    [] nat[j] = "restricted" -> <<j, i>> \in hole
    [] nat[j] = "port-restricted" -> <<j, i>> \in hole /\ nat[i] # "symmetric"
    [] OTHER -> FALSE

OnPeer(j, i, m) ==
  LET s == sess[j]
      t == IF s.phase = "connected" THEN s
           ELSE Stop([s EXCEPT !.phase = "connected", !.via = m.way]) IN
  IF ~ag[j].on \/ s.peer # i \/ s.phase = "failed" THEN Only(s)
  ELSE [Only(t) EXCEPT !.sends = IF m.op = "punch" THEN <<Msg("ack", m.way)>> ELSE <<>>]

HandlePeer(p) ==
  /\ net[p] # <<>> /\ Head(net[p]).way # "signal"
  /\ LET i == p[1]
         j == p[2]
         m == Head(net[p])
         rest == [net EXCEPT ![p] = Tail(@)] IN
     \* an acknowledgement goes where the punch came from, which lets it in; so does the relay
     IF m.op = "ack" \/ m.way = "relay" \/ Passes(i, j)
     THEN Do(j, OnPeer(j, i, m), server, rest)
     ELSE net' = rest /\ UNCHANGED <<sess, server, hole>>
  /\ UNCHANGED <<nat, ag, registry, connects, p2pFaults>>

-------------------------------------------------------------------------------
(* Timers *)

Again(s, d) == IF s.retries < P2pRetries THEN d ELSE Only(Fail(s, "silence"))

Timeout(s) ==
  LET t == [s EXCEPT !.retries = @ + 1, !.left = Wait] IN
  CASE s.step = "stun" -> Again(s, Asks(t, "stun"))
    [] s.step = "signal" -> Again(s, SendCandidates(t))
    [] s.step = "turn" -> Again(s, IF s.relay THEN Says(t, "relay") ELSE Asks(t, "allocate"))
    [] s.step = "punch" -> IF s.tries < PunchTries THEN Punch(s) ELSE PunchExhausted(s)
    [] OTHER -> Only(Fail(s, "silence"))

OnTimer(i) ==
  /\ sess[i].step # "none" /\ sess[i].left = 0 /\ Quiet
  /\ Do(i, Timeout(sess[i]), server, net)
  /\ UNCHANGED <<nat, ag, registry, connects, p2pFaults>>

OnRegisterTimer(i) ==
  /\ ag[i].wait # "none" /\ ag[i].left = 0 /\ Quiet
  /\ IF ag[i].wait = "short" /\ ag[i].tries >= RegTries
     THEN /\ ag' = [ag EXCEPT ![i].wait = "long", ![i].pending = Nobody]
          /\ UNCHANGED <<sess, server, net, hole>>
     ELSE /\ ag' = [ag EXCEPT ![i].tries = IF ag[i].wait = "long" THEN 1 ELSE @ + 1, ![i].wait = "short", ![i].left = Wait]
          /\ Do(i, Asks(sess[i], "register"), server, net)
  /\ UNCHANGED <<nat, registry, connects, p2pFaults>>

\* the retry of a failed registration may come at any time: it is a background timer
Tick ==
  LET on == {i \in Agents : sess[i].step # "none"}
      registering == {i \in Agents : ag[i].wait = "short"} IN
  /\ Quiet /\ on \cup registering # {}
  /\ \A i \in on : sess[i].left > 0
  /\ \A i \in registering : ag[i].left > 0
  /\ sess' = [i \in Agents |-> IF i \in on THEN [sess[i] EXCEPT !.left = @ - 1] ELSE sess[i]]
  /\ ag' = [i \in Agents |-> IF i \in registering THEN [ag[i] EXCEPT !.left = @ - 1] ELSE ag[i]]
  /\ UNCHANGED <<nat, hole, registry, server, net, connects, p2pFaults>>

Lose ==
  /\ p2pFaults < MaxP2pFaults
  /\ p2pFaults' = p2pFaults + 1
  /\ \/ \E i \in Agents : server[i] # <<>> /\ server' = [server EXCEPT ![i] = Tail(@)] /\ UNCHANGED net
     \/ \E p \in Pairs : net[p] # <<>> /\ net' = [net EXCEPT ![p] = Tail(@)] /\ UNCHANGED server
  /\ UNCHANGED <<nat, ag, sess, hole, registry, connects>>

Work(i) == \/ ServerAnswers(i) \/ OnTimer(i) \/ OnRegisterTimer(i)
           \/ \E p \in Pairs : p[1] = i /\ (HandleSignal(p) \/ HandlePeer(p))

Next == \/ \E i, j \in Agents : Connect(i, j)
        \/ \E i \in Agents : SetConfig(i) \/ Move(i) \/ Work(i)
        \/ Tick \/ Lose

-------------------------------------------------------------------------------
TypeOK ==
  \A i \in Agents :
    /\ ag[i].pending # Nobody => ag[i].on /\ ~ag[i].reg /\ ag[i].wait = "short"
    /\ sess[i].left \in 0 .. 3 * Wait /\ sess[i].tries \in 0 .. PunchTries /\ sess[i].retries \in 0 .. P2pRetries
    /\ sess[i].phase \in {"none", "connected", "failed"} <=> sess[i].step = "none"
    /\ sess[i].phase = "connected" <=> sess[i].via # "none"

\* an attempt is under way
Open(i) == sess[i].step # "none"
Together(i, j) == sess[i].peer = j /\ sess[j].peer = i

\* Two programs that connect to each other, each user pressing once, are never both the one that
\* answers while they punch: neither would open the relay (p2p.ts:343).
OneOffers ==
  p2pFaults = 0 => \A p \in Pairs :
    Together(p[1], p[2]) /\ sess[p[1]].phase \in {"punch", "turn"} /\ sess[p[2]].phase \in {"punch", "turn"}
      => "offer" \in {sess[p[1]].role, sess[p[2]].role}

\* With nothing lost or switched and no third party, two programs that are registered get together
\* however their translators behave and however their users press: one of them is connected if
\* the other one gives up (for an offer that overtook nothing but came to a connection just made).
NoNeedToFail ==
  p2pFaults = 0 => \A i \in Agents : sess[i].reason = "silence" =>
    \/ LET j == sess[i].peer IN sess[j].peer = i /\ (sess[j].phase = "connected" \/ sess[j].reason = "unregistered")
    \/ \E k \in Agents \ {i, sess[i].peer} : sess[k].peer # Nobody

\* A direct connection crosses the translators of both; only behind a translator that takes new
\* ports for every peer is the relay in use, with one that minds the port on the other side.
RelayOnlyIfNeeded ==
  p2pFaults = 0 => \A i \in Agents : sess[i].via = "relay" =>
    LET j == sess[i].peer IN "symmetric" \in {nat[i], nat[j]} /\ {nat[i], nat[j]} \subseteq {"symmetric", "port-restricted"}

===============================================================================
