---------------------------------- MODULE Dns ----------------------------------
(***************************************************************************)
(* Name resolution (src/src/core/nodes/dns.ts): the resolver of a host,    *)
(* servers that ask another server for what they do not know, and the one  *)
(* that owns the name.  Times are counted in units that keep only their    *)
(* order; a message crosses the network within a unit.                     *)
(* One name and one kind of record; address families are left out.         *)
(***************************************************************************)
EXTENDS Naturals, FiniteSets, FiniteSetsExt

CONSTANTS
  Forwarders,    \* servers without the name
  Upstreams,     \* the upstream settings a user may choose: functions of the forwarders
  Queries,       \* numbers of the resolver's queries
  DnsWait,       \* how long the resolver waits (2 s)
  UpstreamWait,  \* how long a server waits for its upstream (1.5 s), less than DnsWait
  Ttl,           \* how long the owner lets its answer be kept (30 s)
  MaxHops,       \* servers a question may go through (4)
  MaxDnsFaults   \* bound: messages lost, servers switched, settings changed

VARIABLES
  zone,      \* the name's address at its owner: a number, 0 when it has none
  servers,   \* servers[f]: on, upstream, cache, pending (questions passed on)
  host,      \* dns: the server in use, cache
  query,     \* query[i]: state, server, attempts, left, and the answer's age
  dnsNet,    \* messages under way
  lostOne,   \* a message was lost
  dnsFaults
dnsVars == <<zone, servers, host, query, dnsNet, lostOne, dnsFaults>>

Owner == "owner"

\* an entry of a cache: the address, for how long it is kept, and (history) how long ago the owner gave it
NoEntry == [ip |-> 0, left |-> 0, age |-> 0]
Fresh(e) == e # NoEntry
\* a kept entry counts down and is still used in its last moment
Older(e) == IF e.ip = 0 THEN e ELSE IF e.left = 0 THEN NoEntry ELSE [e EXCEPT !.left = @ - 1, !.age = @ + 1]

NoQuery == [state |-> "free", server |-> "none", attempts |-> 0, left |-> 0]
Ask(from, to, id, hops) == [op |-> "query", from |-> from, to |-> to, id |-> id, hops |-> hops]
Tell(from, to, id, what, e) == [op |-> "response", from |-> from, to |-> to, id |-> id, what |-> what, entry |-> e]

Init ==
  /\ zone \in {0, 1}
  /\ \E up \in Upstreams :
       servers = [f \in Forwarders |-> [on |-> TRUE, up |-> up[f], cache |-> NoEntry, pending |-> {}]]
  /\ \E f \in Forwarders : host = [dns |-> f, cache |-> NoEntry]
  /\ query = [i \in Queries |-> NoQuery]
  /\ dnsNet = {} /\ lostOne = FALSE /\ dnsFaults = 0

-------------------------------------------------------------------------------
(* The resolver of the host *)
Finish(q, how) == [q EXCEPT !.state = how, !.left = 0]

\* every question has a number of its own: nothing of an earlier one is under way
Unused(i) == /\ \A m \in dnsNet : "host" \in {m.from, m.to} => m.id # i
             /\ \A f \in Forwarders : \A p \in servers[f].pending : p.client = "host" => p.clientId # i

\* a program asks for the name: from the cache, or the server in use is asked
Resolve(i) ==
  /\ query[i].state # "wait" /\ Unused(i)
  /\ \/ /\ Fresh(host.cache)
        /\ query' = [query EXCEPT ![i] = Finish(NoQuery, "cached")] /\ UNCHANGED dnsNet
     \/ /\ ~Fresh(host.cache) /\ host.dns = "none"
        /\ query' = [query EXCEPT ![i] = Finish(NoQuery, "failed")] /\ UNCHANGED dnsNet
     \/ /\ ~Fresh(host.cache) /\ host.dns # "none"
        /\ query' = [query EXCEPT ![i] = [state |-> "wait", server |-> host.dns, attempts |-> 1, left |-> DnsWait]]
        /\ dnsNet' = dnsNet \cup {Ask("host", host.dns, i, 0)}
  /\ UNCHANGED <<zone, servers, host, lostOne, dnsFaults>>

\* the answer to a question still open, from the server that was asked last
Handle(m) ==
  LET q == query[m.id]
      mine == q.state = "wait" /\ m.from = q.server
  IN  /\ m.to = "host" /\ m.op = "response"
      /\ dnsNet' = dnsNet \ {m}
      /\ query' = IF mine THEN [query EXCEPT ![m.id] = Finish(q, m.what)] ELSE query
      /\ host' = IF mine /\ m.what = "answer" THEN [host EXCEPT !.cache = m.entry] ELSE host
      /\ UNCHANGED <<zone, servers, lostOne, dnsFaults>>

\* no answer: asked again once, at the server in use now
OnTimeout(i) ==
  LET q == query[i] IN
  /\ q.state = "wait" /\ q.left = 0
  /\ IF q.attempts = 2 \/ host.dns = "none"
     THEN query' = [query EXCEPT ![i] = Finish(q, "failed")] /\ UNCHANGED dnsNet
     ELSE /\ query' = [query EXCEPT ![i] = [q EXCEPT !.attempts = 2, !.server = host.dns, !.left = DnsWait]]
          /\ dnsNet' = dnsNet \cup {Ask("host", host.dns, i, 0)}
  /\ UNCHANGED <<zone, servers, host, lostOne, dnsFaults>>

\* a message about the server that no program listens there: the questions to it have failed
OnUnreachable(m) ==
  /\ m.op = "unreachable" /\ dnsNet' = dnsNet \ {m}
  /\ query' = [i \in Queries |-> IF query[i].state = "wait" /\ query[i].server = m.from
                                 THEN Finish(query[i], "failed") ELSE query[i]]
  /\ UNCHANGED <<zone, servers, host, lostOne, dnsFaults>>

-------------------------------------------------------------------------------
(* The servers *)
Ids == 0 .. Cardinality(Queries) * (MaxHops + 2)
InUse(f) == {p.id : p \in servers[f].pending} \cup {m.id : m \in {x \in dnsNet : f \in {x.from, x.to}}}
Answer(f, m, what, e) == dnsNet' = (dnsNet \ {m}) \cup {Tell(f, m.from, m.id, what, e)}

\* an answer kept here tells how much longer it may be kept, a second at least
FromCache(e) == [e EXCEPT !.left = IF @ = 0 THEN 1 ELSE @]

LoopSeen(m) == m.hops >= MaxHops

ServerHandle(f, m) ==
  LET s == servers[f]
      id == Min(Ids \ InUse(f))
  IN  /\ m.to = f /\ m.op = "query"
      /\ \/ /\ ~s.on /\ UNCHANGED servers
            /\ dnsNet' = (dnsNet \ {m}) \cup
                 IF m.from = "host" THEN {[op |-> "unreachable", from |-> f, to |-> "host", id |-> m.id]} ELSE {}
         \/ s.on /\ Fresh(s.cache) /\ Answer(f, m, "answer", FromCache(s.cache)) /\ UNCHANGED servers
         \/ s.on /\ ~Fresh(s.cache) /\ s.up = "none" /\ Answer(f, m, "nxdomain", NoEntry) /\ UNCHANGED servers
         \/ s.on /\ ~Fresh(s.cache) /\ s.up # "none" /\ LoopSeen(m) /\ Answer(f, m, "servfail", NoEntry)
            /\ UNCHANGED servers
         \/ /\ s.on /\ ~Fresh(s.cache) /\ s.up # "none" /\ ~LoopSeen(m)
            /\ servers' = [servers EXCEPT ![f].pending = @ \cup
                             {[id |-> id, client |-> m.from, clientId |-> m.id, left |-> UpstreamWait]}]
            /\ dnsNet' = (dnsNet \ {m}) \cup {Ask(f, s.up, id, m.hops + 1)}
      /\ UNCHANGED <<zone, host, query, lostOne, dnsFaults>>

\* the upstream's answer is kept and passed on; one that comes too late is not
HandleUpstreamResponse(f, m) ==
  LET open == {p \in servers[f].pending : p.id = m.id}
  IN  /\ m.to = f /\ m.op = "response"
      /\ servers' = [servers EXCEPT ![f].pending = @ \ open,
                                    ![f].cache = IF open # {} /\ m.what = "answer" THEN m.entry ELSE @]
      /\ dnsNet' = (dnsNet \ {m}) \cup {Tell(f, p.client, p.clientId, m.what, m.entry) : p \in open}
      /\ UNCHANGED <<zone, host, query, lostOne, dnsFaults>>

ServerTimeout(f) ==
  \E p \in servers[f].pending :
    /\ p.left = 0
    /\ servers' = [servers EXCEPT ![f].pending = @ \ {p}]
    /\ dnsNet' = dnsNet \cup {Tell(f, p.client, p.clientId, "servfail", NoEntry)}
    /\ UNCHANGED <<zone, host, query, lostOne, dnsFaults>>

\* the server that owns the name knows its address now
OwnerHandle(m) ==
  /\ m.to = Owner /\ m.op = "query"
  /\ dnsNet' = (dnsNet \ {m}) \cup
       {IF zone = 0 THEN Tell(Owner, m.from, m.id, "nxdomain", NoEntry)
        ELSE Tell(Owner, m.from, m.id, "answer", [ip |-> zone, left |-> Ttl, age |-> 0])}
  /\ UNCHANGED <<zone, servers, host, query, lostOne, dnsFaults>>

-------------------------------------------------------------------------------
(* Time, faults and settings *)
Due == \/ \E i \in Queries : query[i].state = "wait" /\ query[i].left = 0
       \/ \E f \in Forwarders : \E p \in servers[f].pending : p.left = 0

Tick ==
  /\ dnsNet = {} /\ ~Due
  /\ query' = [i \in Queries |-> IF query[i].state = "wait" THEN [query[i] EXCEPT !.left = @ - 1] ELSE query[i]]
  /\ servers' = [f \in Forwarders |-> [servers[f] EXCEPT !.cache = Older(@),
                   !.pending = {[p EXCEPT !.left = @ - 1] : p \in servers[f].pending}]]
  /\ host' = [host EXCEPT !.cache = Older(@)]
  /\ UNCHANGED <<zone, dnsNet, lostOne, dnsFaults>>

Fault == dnsFaults < MaxDnsFaults /\ dnsFaults' = dnsFaults + 1

Lose(m) ==
  /\ Fault /\ dnsNet' = dnsNet \ {m} /\ lostOne' = TRUE
  /\ UNCHANGED <<zone, servers, host, query>>

SwitchServer(f) ==
  /\ Fault /\ servers' = [servers EXCEPT ![f].on = ~@]
  /\ UNCHANGED <<zone, host, query, dnsNet, lostOne>>

\* another server in the settings, or the link is gone: open questions end and the cache is emptied
Clear(dns) ==
  /\ Fault /\ dns # host.dns
  /\ host' = [dns |-> dns, cache |-> NoEntry]
  /\ query' = [i \in Queries |-> IF query[i].state = "wait" THEN Finish(query[i], "failed") ELSE query[i]]
  /\ UNCHANGED <<zone, servers, dnsNet, lostOne>>

\* a program that wants the address of now forgets the one kept
Forget ==
  /\ Fault /\ host' = [host EXCEPT !.cache = NoEntry]
  /\ UNCHANGED <<zone, servers, query, dnsNet, lostOne>>

\* what the network and the timers do
Work ==
  \/ \E m \in dnsNet : \/ Handle(m) \/ OnUnreachable(m) \/ OwnerHandle(m)
                       \/ \E f \in Forwarders : ServerHandle(f, m) \/ HandleUpstreamResponse(f, m)
  \/ (\E i \in Queries : OnTimeout(i)) \/ (\E f \in Forwarders : ServerTimeout(f)) \/ Tick

Next ==
  \/ Work \/ Forget
  \/ \E i \in Queries : Resolve(i)
  \/ \E m \in dnsNet : Lose(m)
  \/ \E f \in Forwarders : SwitchServer(f)
  \/ \E dns \in Forwarders \cup {"none"} : Clear(dns)

-------------------------------------------------------------------------------
TypeOK ==
  /\ \A i \in Queries : query[i].left \in 0 .. DnsWait /\ query[i].attempts \in 0 .. 2
  /\ \A f \in Forwarders : \A p, r \in servers[f].pending : p.id = r.id => p = r
  /\ host.cache.left \in 0 .. Ttl

\* An address kept by the host is not older than what its owner allowed and a second for each
\* server that passed it on (cacheLife, the rest of the time in the answers from a cache), although
\* every one of them kept it for a while.
NotStale ==
  host.cache.ip # 0 => host.cache.age + host.cache.left <= Ttl + Cardinality(Forwarders)

\* A server that is on answers before the resolver asks again, whatever is the matter behind it:
\* an upstream that does not answer, or servers that ask each other in a circle (DNS_MAX_HOPS).
AnswersInTime ==
  \A i \in Queries : query[i].state = "wait" /\ query[i].left = 0 =>
    lostOne \/ \E f \in Forwarders : ~servers[f].on
===============================================================================
