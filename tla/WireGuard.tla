------------------------------- MODULE WireGuard -------------------------------
(***************************************************************************)
(* A WireGuard tunnel (src/src/core/nodes/wg.ts, routerwgc.ts): a client   *)
(* that knows its server by name and a server that learns where its client *)
(* is.  There is no connection: a packet to send starts a handshake, both  *)
(* ends keep the session and the one before, the endpoint follows whoever  *)
(* sent last, and what stays unanswered starts a handshake anew.           *)
(*                                                                         *)
(* Session numbers are drawn from those in no use anywhere; in the code    *)
(* they count up.  A message arrives well before any timer fires.          *)
(***************************************************************************)
EXTENDS Naturals, Sequences, FiniteSets, FiniteSetsExt

CONSTANTS
  Tries,       \* handshakes tried (3)
  MaxWgFaults, \* bound: messages lost, moves, restarts, failed resolutions
  MaxWgWire    \* bound: messages under way in one direction

VARIABLES
  wg,       \* wg[p]: session, prev, pending, queue, endpoint, resolving, before, unanswered, owes, failed
  wgAddr,   \* wgAddr[p]: where p is
  wgWire,   \* wgWire[p]: messages on their way to p
  owed,     \* owed[p]: p's host waits for a packet of its own to arrive
  wgFaults
wgVars == <<wg, wgAddr, wgWire, owed, wgFaults>>

Peers == {"c", "s"}
Far(p) == IF p = "c" THEN "s" ELSE "c"
NoSession == [local |-> 0, remote |-> 0]
NotPending == [local |-> 0, tries |-> 0]
Nowhere == 0

\* a peer as it is after its device started: the client has a name to resolve
Cleared(p) == [session |-> NoSession, prev |-> NoSession, pending |-> NotPending, queue |-> FALSE,
               endpoint |-> Nowhere, resolving |-> IF p = "c" THEN "first" ELSE "no", before |-> Nowhere,
               unanswered |-> FALSE, owes |-> FALSE, failed |-> FALSE]

Init ==
  /\ wg = [p \in Peers |-> Cleared(p)]
  /\ wgAddr = [p \in Peers |-> 1] /\ wgWire = [p \in Peers |-> <<>>]
  /\ owed = [p \in Peers |-> FALSE] /\ wgFaults = 0

\* a session number of p that nobody uses
NewIndex(p) ==
  LET mine == {wg[p].session.local, wg[p].prev.local, wg[p].pending.local}
      far  == {wg[Far(p)].session.remote, wg[Far(p)].prev.remote}
      sent == {wgWire[Far(p)][i].sender : i \in DOMAIN wgWire[Far(p)]}
      back == {wgWire[p][i].receiver : i \in DOMAIN wgWire[p]}
  IN  Min((1 .. 20) \ (mine \cup far \cup sent \cup back))

Message(p, x, type, sender, receiver, inner) ==
  <<[type |-> type, sender |-> sender, receiver |-> receiver, inner |-> inner,
     from |-> wgAddr[p], to |-> x.endpoint]>>

\* Steps of one peer: its new state and the messages it sends
Initiate(p, x, tries) ==
  LET n == NewIndex(p)
  IN  [x |-> [x EXCEPT !.pending = [local |-> n, tries |-> tries]],
       out |-> Message(p, x, "initiation", n, 0, FALSE)]

Transmit(p, x, inner) ==
  [x |-> [x EXCEPT !.owes = FALSE, !.unanswered = @ \/ inner],
   out |-> Message(p, x, "data", 0, x.session.remote, inner)]

Quiet(x) == [x |-> x, out |-> <<>>]
Then(a, b) == [x |-> b.x, out |-> a.out \o b.out]
Flush(p, x) == IF x.queue THEN Transmit(p, [x EXCEPT !.queue = FALSE], TRUE) ELSE Quiet(x)

\* the client looks the server up again: the old address is not used meanwhile
Resolving(x, how) == [x EXCEPT !.resolving = how, !.before = IF x.endpoint # Nowhere THEN x.endpoint ELSE @,
                               !.endpoint = Nowhere, !.session = NoSession, !.prev = NoSession, !.pending = NotPending]

Fail(p, x) ==
  LET y == [x EXCEPT !.queue = FALSE, !.pending = NotPending, !.session = NoSession, !.prev = NoSession, !.failed = TRUE]
  IN  IF p = "c" THEN Resolving(y, "again") ELSE y

Do(p, step) ==
  /\ Len(wgWire[Far(p)]) + Len(step.out) <= MaxWgWire
  /\ wg' = [wg EXCEPT ![p] = step.x]
  /\ wgWire' = [wgWire EXCEPT ![Far(p)] = @ \o step.out]

-------------------------------------------------------------------------------
Known(p, n) == n \in {wg[p].session.local, wg[p].prev.local} \ {0}

\* something that p will act upon is on its way to it: timers are slower than that
Coming(p) == \E i \in DOMAIN wgWire[p] : LET m == wgWire[p][i] IN
  m.to = wgAddr[p] /\ CASE m.type = "initiation" -> TRUE
                         [] m.type = "response" -> m.receiver = wg[p].pending.local
                         [] m.type = "data" -> Known(p, m.receiver)
Still == \A p \in Peers : ~Coming(p)

\* A packet of p's host, when none of its is under way.  Without an endpoint the client keeps it and resolves the name,
\* the server drops it; without a session it is kept and a handshake begins
Send(p) ==
  LET x == wg[p]
  IN  /\ \A i \in DOMAIN wgWire[Far(p)] : ~wgWire[Far(p)][i].inner
      /\ Do(p, IF x.endpoint = Nowhere
               THEN Quiet(IF p = "s" THEN x
                          ELSE IF x.resolving # "no" THEN [x EXCEPT !.queue = TRUE]
                          ELSE Resolving([x EXCEPT !.queue = TRUE], "first"))
               ELSE IF x.session # NoSession THEN Transmit(p, x, TRUE)
               ELSE IF x.pending = NotPending THEN Initiate(p, [x EXCEPT !.queue = TRUE], 1)
               ELSE Quiet([x EXCEPT !.queue = TRUE]))
      /\ owed' = [owed EXCEPT ![p] = @ \/ p = "c" \/ x.endpoint # Nowhere]
      /\ UNCHANGED <<wgAddr, wgFaults>>

Install(x, local, remote) ==
  [x EXCEPT !.prev = IF x.session # NoSession THEN x.session ELSE @,
            !.session = [local |-> local, remote |-> remote], !.unanswered = FALSE, !.failed = FALSE]
Roam(x, m) == [x EXCEPT !.endpoint = m.from]

Handle(p) ==
  LET m == Head(wgWire[p])
      x == Roam(wg[p], m)
      known == m.type = "data" /\ Known(p, m.receiver)
      n == NewIndex(p)
      y == Install(x, n, m.sender)
      z == [Install(x, m.receiver, m.sender) EXCEPT !.pending = NotPending]
      answered == [x EXCEPT !.unanswered = FALSE]
      step == CASE m.to # wgAddr[p] -> Quiet(wg[p])
                [] m.to = wgAddr[p] /\ m.type = "initiation" ->
                     Then([x |-> y, out |-> Message(p, y, "response", n, m.sender, FALSE)], Flush(p, y))
                [] m.to = wgAddr[p] /\ m.type = "response" ->
                     IF x.pending.local # m.receiver THEN Quiet(wg[p])
                     ELSE IF z.queue THEN Flush(p, z) ELSE Transmit(p, z, FALSE)
                [] m.to = wgAddr[p] /\ m.type = "data" ->
                     Quiet(IF ~known THEN wg[p] ELSE [answered EXCEPT !.owes = @ \/ m.inner])
  IN  /\ wgWire[p] # <<>>
      /\ Len(wgWire[Far(p)]) + Len(step.out) <= MaxWgWire
      /\ wg' = [wg EXCEPT ![p] = step.x]
      /\ wgWire' = [wgWire EXCEPT ![p] = Tail(@), ![Far(p)] = @ \o step.out]
      /\ owed' = [owed EXCEPT ![Far(p)] = @ /\ ~(m.to = wgAddr[p] /\ known /\ m.inner)]
      /\ UNCHANGED <<wgAddr, wgFaults>>

-------------------------------------------------------------------------------
\* no response within 5 s: again with a new number, or given up
Rekey(p) ==
  /\ wg[p].pending # NotPending /\ Still
  /\ Do(p, IF wg[p].pending.tries < Tries THEN Initiate(p, wg[p], wg[p].pending.tries + 1)
           ELSE Quiet(Fail(p, wg[p])))
  /\ UNCHANGED <<wgAddr, owed, wgFaults>>

\* 10 s after data, unless something was sent since or the session is forgotten
Keepalive(p) ==
  /\ wg[p].owes /\ Still
  /\ Do(p, IF wg[p].session = NoSession THEN Quiet([wg[p] EXCEPT !.owes = FALSE])
           ELSE Transmit(p, wg[p], FALSE))
  /\ UNCHANGED <<wgAddr, owed, wgFaults>>

\* 15 s of silence after data: perhaps the other end forgot the session
Dead(p) ==
  /\ wg[p].unanswered /\ Still /\ ~wg[Far(p)].owes
  /\ LET x == [wg[p] EXCEPT !.unanswered = FALSE]
     IN  Do(p, IF x.pending # NotPending \/ x.endpoint = Nowhere THEN Quiet(x) ELSE Initiate(p, x, 1))
  /\ UNCHANGED <<wgAddr, owed, wgFaults>>

\* The name is resolved: a first time, or to another address than before, the handshake
\* follows; to the same one only if packets wait.  Unresolved, the old address is tried
Resolved(ok) ==
  LET x == wg["c"]
      before == IF x.endpoint # Nowhere THEN x.endpoint ELSE x.before
      done == [x EXCEPT !.resolving = "no", !.before = Nowhere]
      y == IF x.endpoint = wgAddr["s"] THEN done
           ELSE [done EXCEPT !.endpoint = wgAddr["s"], !.session = NoSession, !.prev = NoSession, !.pending = NotPending]
  IN  /\ x.resolving # "no"
      /\ Do("c", IF ~ok THEN Quiet([done EXCEPT !.queue = FALSE, !.failed = TRUE,
                                       !.endpoint = IF x.before # Nowhere THEN x.before ELSE @])
                 ELSE IF /\ y.pending = NotPending /\ y.session = NoSession
                         /\ x.queue \/ x.resolving = "first" \/ before # wgAddr["s"]
                 THEN Initiate("c", y, 1) ELSE Quiet(y))
      /\ wgFaults' = IF ok THEN wgFaults ELSE wgFaults + 1
      /\ ok \/ wgFaults < MaxWgFaults
      /\ UNCHANGED <<wgAddr, owed>>

Fault == wgFaults < MaxWgFaults /\ wgFaults' = wgFaults + 1

Lose(p) == /\ Fault /\ wgWire[p] # <<>> /\ wgWire' = [wgWire EXCEPT ![p] = Tail(@)]
           /\ UNCHANGED <<wg, wgAddr, owed>>
Move(p) == Fault /\ wgAddr' = [wgAddr EXCEPT ![p] = 3 - @] /\ UNCHANGED <<wg, wgWire, owed>>
Restart(p) == /\ Fault /\ wg' = [wg EXCEPT ![p] = Cleared(p)] /\ owed' = [owed EXCEPT ![p] = FALSE]
              /\ UNCHANGED <<wgAddr, wgWire>>

Next == \/ \E p \in Peers : Send(p) \/ Handle(p) \/ Rekey(p) \/ Keepalive(p) \/ Dead(p)
                            \/ Lose(p) \/ Move(p) \/ Restart(p)
        \/ \E ok \in BOOLEAN : Resolved(ok)

\* Messages arrive, timers fire, names resolve, and a host that waits sends again
Fairness == /\ \A p \in Peers : WF_wgVars(Handle(p)) /\ WF_wgVars(Rekey(p)) /\ WF_wgVars(Dead(p))
                                /\ WF_wgVars(Keepalive(p))
            /\ WF_wgVars(Send("c")) /\ WF_wgVars(Resolved(TRUE))

-------------------------------------------------------------------------------
TypeOK == \A p \in Peers :
  /\ wg[p].pending.tries \in 0 .. Tries
  /\ wg[p].endpoint = Nowhere => wg[p].pending = NotPending

\* While nothing was lost, moved or restarted, each end knows the session that data on
\* its way to it was sent in, however their handshakes crossed
InStep == wgFaults = 0 => \A p \in Peers : \A i \in DOMAIN wgWire[p] :
  i = 1 /\ wgWire[p][i].type = "data" => Known(p, wgWire[p][i].receiver)

\* What the client's host sends, again if need be, arrives in the end: after losses,
\* moves of either end and restarts
Arrives == owed["c"] ~> ~owed["c"]
===============================================================================
