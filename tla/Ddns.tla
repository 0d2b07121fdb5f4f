---------------------------------- MODULE Ddns ----------------------------------
(***************************************************************************)
(* Dynamic DNS (src/src/core/nodes/ddns.ts): routers that tell a server    *)
(* under which name they are found, and the server that keeps the address  *)
(* each request came from.  A router behind another one does not see its   *)
(* outer address change.  Messages of a router keep their order.           *)
(***************************************************************************)
EXTENDS Naturals, Sequences, FiniteSetsExt

CONSTANTS
  DdnsDevices,
  DdnsNames,     \* names under the service's zone
  Behind,        \* the routers behind another one
  DdnsTries,     \* times a request is sent (3)
  MaxDdnsEdits,  \* bound: settings, addresses that change
  MaxDdnsLosses  \* bound: messages lost

VARIABLES
  dd,       \* dd[d]: name ("off" when disabled), state, ip, sentFrom, id and tries of the open request
  ddWan,    \* ddWan[d]: the address of the WAN port, 0 without one
  ddFront,  \* ddFront[d]: the outer address of the router in front of d
  records,  \* records[n]: address and device registered for n
  updates,  \* updates[d]: messages from d to the server
  results,  \* results[d]: answers to d
  ddEdits, ddLosses
ddnsVars == <<dd, ddWan, ddFront, records, updates, results, ddEdits, ddLosses>>

NoRecord == [ip |-> 0, device |-> "none"]
Off == [name |-> "off", state |-> "off", ip |-> 0, sentFrom |-> 0, id |-> 0, tries |-> 0]
Pending(c) == c.tries > 0

Init ==
  /\ dd = [d \in DdnsDevices |-> Off]
  /\ ddWan \in [DdnsDevices -> {0, 1}] /\ ddFront = [d \in DdnsDevices |-> 3]
  /\ records = [n \in DdnsNames |-> NoRecord]
  /\ updates = [d \in DdnsDevices |-> <<>>] /\ results = [d \in DdnsDevices |-> <<>>]
  /\ ddEdits = 0 /\ ddLosses = 0

\* the address the server sees a message come from
Seen(d) == IF d \in Behind THEN ddFront[d] ELSE ddWan[d]
Msg(d, c, op) == [op |-> op, id |-> c.id, name |-> c.name, from |-> Seen(d)]

\* every request has a number of its own
NewId(d) ==
  Min((1 .. 4 * (DdnsTries + 1)) \ ({updates[d][i].id : i \in DOMAIN updates[d]}
                           \cup {results[d][i].id : i \in DOMAIN results[d]} \cup {dd[d].id}))

ClearPending(c) == [c EXCEPT !.tries = 0]

\* a request to register the address it comes from, new or once more: the state of the client, what is sent
Update(d, c, again) ==
  LET s == IF c.state = "ok" THEN "ok" ELSE "updating"
      n == [c EXCEPT !.id = IF again THEN @ ELSE NewId(d), !.tries = IF again THEN @ + 1 ELSE 1,
                     !.sentFrom = ddWan[d], !.state = s]
  IN  IF ddWan[d] = 0 THEN [c |-> [ClearPending(c) EXCEPT !.state = s], out |-> <<>>]
      ELSE [c |-> n, out |-> <<Msg(d, n, "update")>>]

\* only a name known to be registered is given back, and the answer is not waited for
Release(d, c) ==
  IF c.name # "off" /\ ddWan[d] # 0 /\ c.state = "ok"
  THEN <<Msg(d, [c EXCEPT !.id = NewId(d)], "release")>> ELSE <<>>

-------------------------------------------------------------------------------
Edit == ddEdits < MaxDdnsEdits /\ ddEdits' = ddEdits + 1
Send(d, r) == dd' = [dd EXCEPT ![d] = r.c] /\ updates' = [updates EXCEPT ![d] = @ \o r.out]
Quiet(d) == updates[d] = <<>> /\ results[d] = <<>>

SetConfig(d, name) ==
  LET released == Release(d, dd[d])
      c == [Off EXCEPT !.name = name, !.state = "updating", !.id = IF released = <<>> THEN dd[d].id ELSE NewId(d)]
      r == Update(d, c, FALSE)
  IN  /\ Edit /\ name # dd[d].name
      /\ dd' = [dd EXCEPT ![d] = IF name = "off" THEN Off ELSE r.c]
      /\ updates' = [updates EXCEPT ![d] = @ \o released \o (IF name = "off" THEN <<>> ELSE r.out)]
      /\ UNCHANGED <<ddWan, ddFront, records, results, ddLosses>>

\* the WAN port has no address any more: the client is not told
WanLost(d) ==
  /\ Edit /\ ddWan[d] # 0 /\ ddWan' = [ddWan EXCEPT ![d] = 0]
  /\ UNCHANGED <<dd, ddFront, records, updates, results, ddLosses>>

\* it has one, the same or another
OnWanAddress(d, ip) ==
  LET c == dd[d]
      known == ip = c.sentFrom /\ (c.state = "ok" \/ Pending(c))
      n == [c EXCEPT !.id = NewId(d), !.tries = 1, !.sentFrom = ip, !.state = IF @ = "ok" THEN "ok" ELSE "updating"]
      from == IF d \in Behind THEN ddFront[d] ELSE ip
  IN  /\ Edit /\ ip # ddWan[d] /\ ddWan' = [ddWan EXCEPT ![d] = ip]
      /\ IF c.name = "off" \/ known THEN UNCHANGED <<dd, updates>>
         ELSE Send(d, [c |-> n, out |-> <<[op |-> "update", id |-> n.id, name |-> n.name, from |-> from]>>])
      /\ UNCHANGED <<ddFront, records, results, ddLosses>>

\* the outer address of the router in front changes: nobody is told
FrontChanges(d) ==
  /\ Edit /\ d \in Behind /\ ddFront' = [ddFront EXCEPT ![d] = 7 - @]
  /\ UNCHANGED <<dd, ddWan, records, updates, results, ddLosses>>

OnTimer(d) ==
  LET c == dd[d] IN
  /\ Pending(c) /\ Quiet(d)
  /\ Send(d, IF c.tries < DdnsTries THEN Update(d, c, TRUE)
             ELSE [c |-> [ClearPending(c) EXCEPT !.state = "failed"], out |-> <<>>])
  /\ UNCHANGED <<ddWan, ddFront, records, results, ddEdits, ddLosses>>

\* every ten minutes
Periodic(d) ==
  /\ dd[d].name # "off" /\ ~Pending(dd[d]) /\ Quiet(d)
  /\ Send(d, Update(d, dd[d], FALSE))
  /\ UNCHANGED <<ddWan, ddFront, records, results, ddEdits, ddLosses>>

ClientHandle(d) ==
  LET c == dd[d]
      m == Head(results[d])
  IN  /\ results[d] # <<>> /\ results' = [results EXCEPT ![d] = Tail(@)]
      /\ dd' = IF ~Pending(c) \/ m.id # c.id THEN dd
               ELSE [dd EXCEPT ![d] = IF m.result \in {"good", "nochg"}
                                      THEN [ClearPending(c) EXCEPT !.state = "ok", !.ip = m.ip]
                                      ELSE [ClearPending(c) EXCEPT !.state = "failed"]]
      /\ UNCHANGED <<ddWan, ddFront, records, updates, ddEdits, ddLosses>>

\* a name belongs to the device that registered it, until that one gives it back
Registrable(d, n) == records[n].device \in {d, "none"}

ServerHandle(d) ==
  LET m == Head(updates[d])
      reply(result, ip) == results' = [results EXCEPT ![d] = Append(@, [id |-> m.id, result |-> result, ip |-> ip])]
  IN  /\ updates[d] # <<>> /\ updates' = [updates EXCEPT ![d] = Tail(@)]
      /\ \/ /\ m.op = "release" /\ UNCHANGED results
            /\ records' = IF records[m.name].device = d THEN [records EXCEPT ![m.name] = NoRecord] ELSE records
         \/ m.op = "update" /\ ~Registrable(d, m.name) /\ reply("badauth", 0) /\ UNCHANGED records
         \/ /\ m.op = "update" /\ Registrable(d, m.name)
            /\ reply(IF records[m.name].ip = m.from THEN "nochg" ELSE "good", m.from)
            /\ records' = [records EXCEPT ![m.name] = [ip |-> m.from, device |-> d]]
      /\ UNCHANGED <<dd, ddWan, ddFront, ddEdits, ddLosses>>

Lose(d) ==
  /\ ddLosses < MaxDdnsLosses /\ ddLosses' = ddLosses + 1
  /\ \/ updates[d] # <<>> /\ updates' = [updates EXCEPT ![d] = Tail(@)] /\ UNCHANGED results
     \/ results[d] # <<>> /\ results' = [results EXCEPT ![d] = Tail(@)] /\ UNCHANGED updates
  /\ UNCHANGED <<dd, ddWan, ddFront, records, ddEdits>>

\* what the network and the timers do for d
Work(d) == OnTimer(d) \/ Periodic(d) \/ ClientHandle(d) \/ ServerHandle(d)

Next == \E d \in DdnsDevices :
  \/ Work(d) \/ WanLost(d) \/ FrontChanges(d) \/ Lose(d)
  \/ \E n \in DdnsNames \cup {"off"} : SetConfig(d, n)
  \/ \E ip \in {1, 2} : OnWanAddress(d, ip)

-------------------------------------------------------------------------------
TypeOK ==
  /\ \A d \in DdnsDevices : /\ dd[d].name \in DdnsNames \cup {"off"} /\ dd[d].tries \in 0 .. DdnsTries
                            /\ dd[d].state \in {"off", "updating", "ok", "failed"}
  /\ \A n \in DdnsNames : records[n].device \in DdnsDevices \cup {"none"}

\* What a router shows as registered is registered, once nothing of it is under way; at the address it
\* shows, if no message was lost (a router that loses its address with a request open forgets the request).
TellsTheTruth ==
  \A d \in DdnsDevices : dd[d].state = "ok" /\ ~Pending(dd[d]) /\ Quiet(d) =>
    records[dd[d].name].device = d /\ (ddLosses = 0 => records[dd[d].name].ip = dd[d].ip)

\* The name of a router with an address leads to it in the end, although addresses change unseen and
\* messages are lost, unless another router has the name.
Astray(d) ==
  LET n == dd[d].name IN n # "off" /\ ddWan[d] # 0 /\ records[n].device \in {d, "none"} /\ records[n].ip # Seen(d)
===============================================================================
