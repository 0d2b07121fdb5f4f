---------------------------------- MODULE Lb ----------------------------------
(***************************************************************************)
(* The load balancer (src/src/core/nodes/lb.ts).  L7: a client's request   *)
(* is passed on over a connection of the balancer's own, and goes to the   *)
(* next backend when one refuses or does not answer; when the connection   *)
(* is broken off otherwise the request fails at once.  L4: a client's      *)
(* connection is passed through to a backend by changing addresses.        *)
(* Backends are taken out by failures (for a while) and by health checks.  *)
(* Times are counted down in rounds of the health check (2 s).             *)
(***************************************************************************)
EXTENDS Naturals, Sequences, FiniteSets, FiniteSetsExt

CONSTANTS
  LbClients, Servers,
  V6Clients,   \* the clients over IPv6: their connections outlive the balancer's IPv4 address
  Pools,       \* the backend lists a user may set: sequences without duplicates
  FailRounds,  \* rounds a failed backend is left out (10 s)
  WaitRounds,  \* rounds a finished flow is kept (2 s)
  Fall, Rise,  \* failed checks until DOWN (3), answered ones until UP (2)
  FlowLimit,   \* flows kept (256)
  MaxLbEdits   \* bound: settings, servers that change, and losses of the address

VARIABLES
  lb,       \* mode, algorithm, sticky, check, pool, rr, and out, down, streak of each server
  affinity, \* affinity[c]: the backend c is bound to, or "none"
  flows,    \* L4, in the order they began: [client, to, fins, seen, young, closed (rounds left or 0)]
  req,      \* L7, req[c]: state, the backend asked and those tried
  ends,     \* L4, the connections <<c, s>> that client and server take for open
  givenUp,  \* those of ends the balancer had to give up (history)
  serving,  \* the servers that answer
  gone,     \* of the others, those whose loss is told: connections reset, or unreachable
  home,     \* "up": the balancer has its IPv4 address; "v6": only IPv6; "down": no link
  lbEdits
lbVars == <<lb, affinity, flows, req, ends, givenUp, serving, gone, home, lbEdits>>
world == <<serving, gone, home>>

PoolOf(b) == {b.pool[i] : i \in DOMAIN b.pool}
IsUp(b, s) == b.out[s] = 0 /\ ~b.down[s]
Idle == [state |-> "none", at |-> "none", tried |-> {}]

Init ==
  /\ \E mode \in {"l7", "l4"}, alg \in {"round-robin", "least-conn"}, sticky, check \in BOOLEAN, p \in Pools :
       lb = [mode |-> mode, alg |-> alg, sticky |-> sticky, check |-> check, pool |-> p, rr |-> 0,
             out |-> [s \in Servers |-> 0], down |-> [s \in Servers |-> FALSE],
             streak |-> [s \in Servers |-> 0]]
  /\ affinity = [c \in LbClients |-> "none"] /\ flows = <<>>
  /\ req = [c \in LbClients |-> Idle] /\ ends = {} /\ givenUp = {}
  /\ serving = Servers /\ gone = {} /\ home = "up" /\ lbEdits = 0

-------------------------------------------------------------------------------
Active(s) == Cardinality({c \in LbClients : req[c].state = "asked" /\ req[c].at = s})
             + Cardinality({i \in DOMAIN flows : flows[i].to = s /\ flows[i].closed = 0})

\* (mutant) a client bound to a backend that is out gets no other
PickBoundOnly(b, aff, c, tried) ==
  LET alive == {s \in PoolOf(b) \ tried : IsUp(b, s)}
      to == b.pool[Min({i \in DOMAIN b.pool : b.pool[i] \in alive})]
  IN  IF alive = {} \/ (b.sticky /\ aff[c] \in Servers \ alive)
      THEN [to |-> "none", lb |-> b, affinity |-> aff]
      ELSE [to |-> to, lb |-> b, affinity |-> [aff EXCEPT ![c] = to]]

\* the backend the rules choose for c among those alive and not tried: [to, lb, affinity]
Pick(b, aff, c, tried) ==
  LET n == Len(b.pool)
      alive == {s \in PoolOf(b) \ tried : IsUp(b, s)}
      at(k) == b.pool[((b.rr + k) % n) + 1]
      turn == Min({k \in 0 .. n - 1 : at(k) \in alive})
      fewest == {s \in alive : \A t \in alive : Active(s) <= Active(t)}
      first == b.pool[Min({i \in 1 .. n : b.pool[i] \in fewest})]
      to == IF b.alg = "least-conn" THEN first ELSE at(turn)
  IN  IF alive = {} THEN [to |-> "none", lb |-> b, affinity |-> aff]
      ELSE IF b.sticky /\ aff[c] \in alive THEN [to |-> aff[c], lb |-> b, affinity |-> aff]
      ELSE [to |-> to, lb |-> IF b.alg = "least-conn" THEN b ELSE [b EXCEPT !.rr = (@ + turn + 1) % n],
            affinity |-> IF b.sticky THEN [aff EXCEPT ![c] = to] ELSE aff]

LeftOut(b, s) == [b EXCEPT !.out[s] = FailRounds]
Unbound(aff, s) == [c \in LbClients |-> IF aff[c] = s THEN "none" ELSE aff[c]]

-------------------------------------------------------------------------------
(* L7 *)
\* to a backend, or 502 when none is left or the balancer has no address to ask from
Forward(b, aff, c, tried) ==
  LET p == IF home = "up" THEN Pick(b, aff, c, tried) ELSE [to |-> "none", lb |-> b, affinity |-> aff]
  IN  /\ lb' = p.lb /\ affinity' = p.affinity
      /\ req' = [req EXCEPT ![c] = [state |-> IF p.to = "none" THEN "502" ELSE "asked",
                                    at |-> p.to, tried |-> tried]]

OnRequest(c) ==
  /\ lb.mode = "l7" /\ req[c].state = "none" /\ (home = "up" \/ (home = "v6" /\ c \in V6Clients))
  /\ Forward(lb, affinity, c, {})
  /\ UNCHANGED <<flows, ends, givenUp, world, lbEdits>>

Served(c) ==
  /\ req[c].state = "asked" /\ req[c].at \in serving
  /\ req' = [req EXCEPT ![c] = [Idle EXCEPT !.state = "200"]]
  /\ UNCHANGED <<lb, affinity, flows, ends, givenUp, world, lbEdits>>

\* the backend refused, or did not answer in time
Failed(c) ==
  /\ req[c].state = "asked" /\ req[c].at \notin serving \cup gone
  /\ Forward(LeftOut(lb, req[c].at), affinity, c, req[c].tried \cup {req[c].at})
  /\ UNCHANGED <<flows, ends, givenUp, world, lbEdits>>

\* (mutant) when the connection is broken off the client is not told
InterruptedUntold(c) == req[c].state = "asked" /\ req[c].at \in gone /\ UNCHANGED lbVars

\* the connection was broken off in another way: no fault of the backend's to the balancer,
\* which leaves it in and asks no other
Interrupted(c) ==
  /\ req[c].state = "asked" /\ req[c].at \in gone
  /\ req' = [req EXCEPT ![c].state = "502", ![c].at = "none"]
  /\ UNCHANGED <<lb, affinity, flows, ends, givenUp, world, lbEdits>>

\* the client has its answer, or gave up
Done(c) ==
  /\ req[c].state \in {"200", "502"}
  /\ req' = [req EXCEPT ![c] = Idle]
  /\ UNCHANGED <<lb, affinity, flows, ends, givenUp, world, lbEdits>>

-------------------------------------------------------------------------------
(* L4 *)
Ends(es) == ends' = es /\ givenUp' = givenUp \cap es
FlowAt(c) == {i \in DOMAIN flows : flows[i].client = c}
Drop(fs, i) == [j \in 1 .. Len(fs) - 1 |-> IF j < i THEN fs[j] ELSE fs[j + 1]]
Among(fs, S) == [k \in 1 .. Cardinality(S) |-> fs[CHOOSE i \in S : Cardinality({j \in S : j <= i}) = k]]
Expired == Among(flows, {i \in DOMAIN flows : flows[i].closed # 1})

\* room for one more: the oldest finished flow goes first, else the oldest of all
MakeRoom(fs) ==
  LET closed == {i \in DOMAIN fs : fs[i].closed > 0}
  IN  IF Len(fs) < FlowLimit THEN fs ELSE Drop(fs, IF closed # {} THEN Min(closed) ELSE 1)
\* the one connection that may go for it: the oldest, when not one flow is finished
Crowded(fs) == IF Len(fs) = FlowLimit /\ \A i \in DOMAIN fs : fs[i].closed = 0
               THEN {<<fs[1].client, fs[1].to>>} ELSE {}

\* A SYN of c: again for a flow under way, or the flow is given up (it had ended, its
\* backend never answered, or is out) and a backend chosen
Syn(c) ==
  /\ lb.mode = "l4" /\ home = "up" /\ c \notin V6Clients /\ ~\E e \in ends : e[1] = c
  /\ LET mine == FlowAt(c)
         i == CHOOSE k \in mine : TRUE
         f == flows[i]
         silent == mine # {} /\ f.closed = 0 /\ f.fins = {} /\ ~f.seen /\ ~f.young
         giveUp == mine # {} /\ (f.closed > 0 \/ f.fins # {} \/ silent \/ ~IsUp(lb, f.to))
         b == IF silent THEN LeftOut(lb, f.to) ELSE lb
         aff == IF silent THEN Unbound(affinity, f.to) ELSE affinity
         rest == IF mine # {} THEN Drop(flows, i) ELSE flows
         p == Pick(b, aff, c, {})
     IN  IF mine # {} /\ ~giveUp THEN UNCHANGED <<lb, affinity, flows, givenUp>>
         ELSE /\ lb' = p.lb /\ affinity' = p.affinity
              /\ flows' = IF p.to = "none" THEN rest
                          ELSE Append(MakeRoom(rest), [client |-> c, to |-> p.to, fins |-> {}, seen |-> FALSE,
                                                       young |-> TRUE, closed |-> 0])
              /\ givenUp' = IF p.to = "none" THEN givenUp ELSE givenUp \cup (Crowded(rest) \cap ends)
  /\ UNCHANGED <<req, ends, world, lbEdits>>

Note(f, flag, side) ==
  LET g == [f EXCEPT !.fins = IF flag = "fin" THEN @ \cup {side} ELSE @]
  IN  IF f.closed = 0 /\ (flag = "rst" \/ (flag = "ack" /\ Cardinality(g.fins) = 2))
      THEN [g EXCEPT !.closed = WaitRounds + 1] ELSE g
StillOpen(e, f, flag) == e # <<f.client, f.to>> \/ (flag # "rst" /\ ~(flag = "fin" /\ f.fins # {}))

\* later segments of the connection; a segment of no flow is dropped
FromClient(c, flag) ==
  /\ lb.mode = "l4" /\ home = "up" /\ \E e \in ends : e[1] = c
  /\ \E i \in FlowAt(c) : /\ flows' = [flows EXCEPT ![i] = Note(@, flag, "client")]
                          /\ Ends({e \in ends : StillOpen(e, flows[i], flag)})
  /\ UNCHANGED <<lb, affinity, req, world, lbEdits>>

\* the answer to a SYN, the flow's first or one that went the way of an earlier connection
SynAck(i) ==
  /\ home = "up" /\ flows[i].closed = 0 /\ flows[i].fins = {} /\ flows[i].to \in serving
  /\ ~\E e \in ends : e[1] = flows[i].client
  /\ flows[i].seen => IsUp(lb, flows[i].to)
  /\ flows' = [flows EXCEPT ![i].seen = TRUE]
  /\ ends' = ends \cup {<<flows[i].client, flows[i].to>>}
  /\ UNCHANGED <<lb, affinity, req, givenUp, world, lbEdits>>

\* a refusal takes the backend out; the client has to begin again
FromServer(i, flag) ==
  /\ home = "up"
  /\ IF flag = "rst" THEN flows[i].to \notin serving \/ flows[i].seen
     ELSE flows[i].seen /\ flows[i].to \in serving
  /\ LET f == flows[i]
         refused == flag = "rst" /\ ~f.seen /\ "client" \notin f.fins
     IN  /\ lb' = IF refused THEN LeftOut(lb, f.to) ELSE lb
         /\ affinity' = IF refused THEN Unbound(affinity, f.to) ELSE affinity
         /\ flows' = [flows EXCEPT ![i] = Note(@, flag, "server")]
         /\ Ends({e \in ends : StillOpen(e, f, flag)})
  /\ UNCHANGED <<req, world, lbEdits>>

\* one end learns that its segments are not passed on: a reset, or a timeout
GivesUp(e) ==
  /\ home # "up" \/ FlowAt(e[1]) = {}
  /\ Ends(ends \ {e})
  /\ UNCHANGED <<lb, affinity, flows, req, world, lbEdits>>

-------------------------------------------------------------------------------
\* The result of a check of s
Result(b, s, bad) ==
  LET streak == b.streak[s] + 1
  IN  IF ~b.check \/ s \notin PoolOf(b) THEN [down |-> b.down[s], streak |-> b.streak[s]]
      ELSE IF bad = b.down[s] THEN [down |-> b.down[s], streak |-> 0]
      ELSE IF streak < (IF bad THEN Fall ELSE Rise) THEN [down |-> b.down[s], streak |-> streak]
      ELSE [down |-> bad, streak |-> 0]

\* the checks of S have ended, well for those in ok; a backend that is out now binds nobody
Checked(S, ok) ==
  LET r == [s \in Servers |-> IF s \in S THEN Result(lb, s, s \notin ok)
                             ELSE [down |-> lb.down[s], streak |-> lb.streak[s]]]
  IN  [lb EXCEPT !.down = [s \in Servers |-> r[s].down], !.streak = [s \in Servers |-> r[s].streak]]
StillBound(b) == [c \in LbClients |-> IF affinity[c] # "none" /\ b.down[affinity[c]] /\ ~lb.down[affinity[c]]
                                     THEN "none" ELSE affinity[c]]

\* A round: the health checks' results, and the time of what is left out or finished.  Without
\* an address nothing is checked; with one, and no link, every check fails
Round ==
  \E S \in {{}, Servers} :
    LET b == Checked(S, IF home = "up" THEN serving ELSE {})
    IN  /\ home = "up" => S = Servers
        /\ home = "v6" => S = {}
        /\ lb' = [b EXCEPT !.out = [s \in Servers |-> IF @[s] = 0 THEN 0 ELSE @[s] - 1]]
        /\ affinity' = StillBound(b)
        /\ flows' = [i \in DOMAIN Expired |->
                       [Expired[i] EXCEPT !.young = FALSE, !.closed = IF @ = 0 THEN 0 ELSE @ - 1]]
        /\ UNCHANGED <<req, ends, givenUp, world, lbEdits>>

\* The balancer's IPv4 address, or its link, is lost, and with it the connections over it: the
\* checks under way (S) fail, a client over IPv6 is told 502, the others are cut off
AddressLost(to, S) ==
  /\ lbEdits < MaxLbEdits /\ lbEdits' = lbEdits + 1
  /\ home = "up" /\ home' = to
  /\ lb' = Checked(S, {}) /\ affinity' = StillBound(lb')
  /\ req' = [c \in LbClients |-> IF to = "down" \/ c \notin V6Clients THEN Idle
                                 ELSE IF req[c].state # "asked" THEN req[c]
                                 ELSE [req[c] EXCEPT !.state = "502", !.at = "none"]]
  /\ UNCHANGED <<flows, ends, givenUp, serving, gone>>

\* the address again, or another one, to which no connection leads yet
AddressBack(same) ==
  /\ home # "up" /\ home' = "up"
  /\ Ends(IF same THEN ends ELSE {})
  /\ UNCHANGED <<lb, affinity, flows, req, serving, gone, lbEdits>>

\* What stays in the new settings keeps its state: open connections to it go on
SetConfig(p, check, sticky) ==
  /\ lbEdits < MaxLbEdits /\ lbEdits' = lbEdits + 1
  /\ <<p, check, sticky>> # <<lb.pool, lb.check, lb.sticky>>
  /\ LET b == [lb EXCEPT !.pool = p, !.check = check, !.sticky = sticky]
         Kept(s) == s \in PoolOf(b)
     IN  /\ lb' = [b EXCEPT !.out = [s \in Servers |-> IF Kept(s) THEN @[s] ELSE 0],
                            !.down = [s \in Servers |-> Kept(s) /\ check /\ @[s]],
                            !.streak = [s \in Servers |-> IF Kept(s) /\ check THEN @[s] ELSE 0]]
         /\ affinity' = [c \in LbClients |-> IF sticky /\ affinity[c] \in PoolOf(b) THEN affinity[c] ELSE "none"]
         /\ flows' = Among(flows, {i \in DOMAIN flows : Kept(flows[i].to)})
         /\ givenUp' = givenUp \cup {e \in ends : ~Kept(e[2])}
  /\ UNCHANGED <<req, ends, world>>

\* s stops, and that is told or not, or starts again
Server(s, told) ==
  /\ lbEdits < MaxLbEdits /\ lbEdits' = lbEdits + 1
  /\ IF s \in serving
     THEN /\ serving' = serving \ {s} /\ gone' = IF told THEN gone \cup {s} ELSE gone
          /\ Ends({e \in ends : e[2] # s})
     ELSE serving' = serving \cup {s} /\ gone' = gone \ {s} /\ UNCHANGED <<ends, givenUp>>
  /\ UNCHANGED <<lb, affinity, flows, req, home>>

Next ==
  \/ \E c \in LbClients : \/ OnRequest(c) \/ Served(c) \/ Failed(c) \/ Interrupted(c) \/ Done(c) \/ Syn(c)
                          \/ \E flag \in {"ack", "fin", "rst"} : FromClient(c, flag)
  \/ \E i \in DOMAIN flows : SynAck(i) \/ \E flag \in {"ack", "fin", "rst"} : FromServer(i, flag)
  \/ \E e \in ends : GivesUp(e)
  \/ Round
  \/ \E to \in {"v6", "down"}, S \in SUBSET Servers : AddressLost(to, S)
  \/ \E same \in BOOLEAN : AddressBack(same)
  \/ \E p \in Pools, check, sticky \in BOOLEAN : SetConfig(p, check, sticky)
  \/ \E s \in Servers, told \in BOOLEAN : Server(s, told)

-------------------------------------------------------------------------------
TypeOK ==
  /\ Len(flows) <= FlowLimit
  /\ \A i, j \in DOMAIN flows : flows[i].client = flows[j].client => i = j
  /\ \A c \in LbClients : req[c].state = "asked" => req[c].at \in Servers \ req[c].tried

\* A connection that client and server take for open is passed between the two by its flow, unless
\* the balancer had to give it up: its backend left the list, or it was the oldest of a full table
\* in which not one flow was finished (setConfig and makeRoom)
OpenPassed == \A e \in ends \ givenUp : \E i \in DOMAIN flows :
  flows[i].client = e[1] /\ flows[i].to = e[2] /\ flows[i].closed = 0

\* A request is answered 502 only when the balancer has no address, when the connection to the
\* backend was broken off (not refused, not unanswered), or when no backend is left that the request
\* was not asked of and that is in (forward and onFinish)
Refused502 == \A c \in LbClients : req'[c].state = "502" /\ req[c].state # "502" =>
  \/ home' # "up"
  \/ req[c].state = "asked" /\ req[c].at \in gone
  \/ \A s \in PoolOf(lb') : s \in req'[c].tried \/ ~IsUp(lb', s)

\* A request is answered in the end, unless the balancer loses the client with its address
Answered(c) == req[c].state \in {"200", "502"} \/ home # "up"
===============================================================================
