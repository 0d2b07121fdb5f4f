------------------------------- MODULE Gateways -------------------------------
(***************************************************************************)
(* What a gateway does to the packets that cross it, alone or as one of a  *)
(* redundant pair: the packet filter, the translation table, and the copy  *)
(* of both that a master keeps at its backup (src/src/core/nodes/l3.ts,    *)
(* nat.ts, firewall.ts, hasync.ts).  Which box is master is the subject of *)
(* Ha; here a box takes over and steps down as that module allows.         *)
(***************************************************************************)
EXTENDS NatTable, Firewall

CONSTANTS
  Boxes,         \* the two gateways
  OutPackets,    \* packets of the inside hosts, before translation
  InPackets,     \* packets of the outside, to public ids in use, forwarded or unknown
  Types,         \* the kinds of NAT a user may choose
  ForwardLists,  \* the port forwarding lists a user may set
  Filters,       \* the filter configurations a user may set
  HoleEnds,      \* inside ends a call may open a hole for
  MaxRuleFlows,  \* rule flows remembered (256 in the code)
  MaxPackets,    \* bound: packets
  MaxEdits,      \* bound: changes of the user and failures
  MaxNow         \* bound: the clock

VARIABLES
  gw,       \* gw[b]: nat, fw, role, what is queued for the backup, when all was last copied
  pair,     \* whether the boxes are a pair that synchronises sessions
  wire,     \* wire[b]: session messages on their way to b
  cut,      \* whether the two boxes cannot hear each other
  now,      \* the clock, in Ticks of a second
  sessions, \* what was let out: the packet and the public id it left with
  safe,     \* the sessions of these made, and copied, in an earlier instant
  packets, edits

vars == <<gw, pair, wire, cut, now, sessions, safe, packets, edits>>

NewBox(role, filter, forwards) ==
  [nat |-> NewTable("full-cone", forwards),
   fw |-> NewFirewall(filter.on, filter.stateful, filter.default, filter.rules),
   role |-> role, pending |-> None, bulkAt |-> None]

Other(b) == CHOOSE c \in Boxes : c # b

First == CHOOSE b \in Boxes : TRUE

\* the two boxes are configured alike
Init ==
  /\ pair \in BOOLEAN
  /\ \E f \in Filters, l \in ForwardLists :
       gw = [b \in Boxes |-> NewBox(IF b = First THEN "master" ELSE "backup", f, l)]
  /\ wire = [b \in Boxes |-> <<>>]
  /\ cut = FALSE /\ now = 0 /\ sessions = {} /\ safe = {} /\ packets = 0 /\ edits = 0

-------------------------------------------------------------------------------
(* Session synchronisation *)
Syncing(b) == pair /\ gw[b].role = "master"

Queue(g, b, entries, flows) ==
  IF ~Syncing(b) \/ (entries = {} /\ flows = {}) THEN g
  ELSE LET q == IF g.pending = None THEN [nat |-> {}, flows |-> {}] ELSE g.pending
       IN  [g EXCEPT !.pending = [nat |-> q.nat \cup entries, flows |-> q.flows \cup flows]]

Sent(b, m) == IF cut \/ (m.nat = {} /\ m.flows = {}) THEN wire
              ELSE [wire EXCEPT ![Other(b)] = Append(@, m)]

Everything(b, handover) ==
  [nat |-> {gw[b].nat.entries[k] : k \in DOMAIN gw[b].nat.entries},
   flows |-> {gw[b].fw.flows[i] : i \in DOMAIN gw[b].fw.flows}, handover |-> handover]

\* the copy of everything, once an instant
BulkSent(b, handover) ==
  IF Syncing(b) /\ gw[b].bulkAt # now THEN Sent(b, Everything(b, handover)) ELSE wire
Bulked(b) == [gw[b] EXCEPT !.bulkAt = IF Syncing(b) THEN now ELSE @]

Flush(b) ==
  /\ gw[b].pending # None
  /\ gw' = [gw EXCEPT ![b].pending = None]
  /\ wire' = IF Syncing(b)
             THEN Sent(b, [nat |-> gw[b].pending.nat, flows |-> gw[b].pending.flows, handover |-> FALSE])
             ELSE wire
  /\ UNCHANGED <<pair, cut, now, sessions, safe, packets, edits>>

\* a master takes nothing from another, except what one that gives way hands over
ImportAll(g, m) ==
  [g EXCEPT !.nat = FoldSet(LAMBDA e, t : ImportEntry(t, e), @, m.nat),
            !.fw = FoldSet(LAMBDA f, w : ImportFlow(w, f), @, m.flows)]

Receive(b) ==
  /\ wire[b] # <<>>
  /\ wire' = [wire EXCEPT ![b] = Tail(@)]
  /\ gw' = IF gw[b].role = "master" /\ ~Head(wire[b]).handover THEN gw
           ELSE [gw EXCEPT ![b] = ImportAll(@, Head(wire[b]))]
  /\ UNCHANGED <<pair, cut, now, sessions, safe, packets, edits>>

-------------------------------------------------------------------------------
(* Packets *)
Answer(s) == [proto |-> s.p.proto, src |-> s.p.dst, sport |-> s.p.dport, dst |-> "public",
              dport |-> s.pub, flag |-> "data"]

Inside(p, to) == [p EXCEPT !.dst = to[1], !.dport = to[2]]

\* the filter sees the inside addresses both ways
Out(b, p) ==
  /\ packets < MaxPackets /\ packets' = packets + 1
  /\ gw[b].role = "master"
  /\ LET g == gw[b]
         t == Translate(g.nat, p, now, {})
     IN  IF ~Passes(g.fw, p, "out") THEN UNCHANGED <<gw, sessions>>
         ELSE /\ gw' = [gw EXCEPT ![b] =
                   Queue([g EXCEPT !.nat = t.table, !.fw = Checked(@, p, "out")], b,
                         t.fresh, NewFlow(g.fw, p, "out"))]
              /\ sessions' = {s \in sessions : Flow(s.p) # Flow(p)} \cup {[p |-> p, pub |-> t.pub]}
  \* a connection that ends, or begins again, is not one to keep alive
  /\ safe' = {s \in safe : Flow(s.p) # Flow(p)}
  /\ UNCHANGED <<pair, wire, cut, now, edits>>

In(b, p) ==
  /\ packets < MaxPackets /\ packets' = packets + 1
  /\ gw[b].role = "master"
  /\ LET g == gw[b]
         r == Restore(g.nat, p, now, MaxRuleFlows)
         i == Inside(p, r.to)
     IN  IF r.to = None THEN gw' = gw
         ELSE gw' = [gw EXCEPT ![b] =
                Queue([g EXCEPT !.nat = r.table, !.fw = IF Passes(@, i, "in") THEN Checked(@, i, "in") ELSE @],
                      b, {}, IF Passes(g.fw, i, "in") THEN NewFlow(g.fw, i, "in") ELSE {})]
  /\ safe' = {s \in safe : s.pub # p.dport}
  /\ UNCHANGED <<pair, wire, cut, now, sessions, edits>>

-------------------------------------------------------------------------------
(* The user, the clock and the failures *)
Edit == edits < MaxEdits /\ edits' = edits + 1

\* both boxes of a pair are given the same settings
ChangeType(type) ==
  /\ Edit /\ gw' = [b \in Boxes |-> [gw[b] EXCEPT !.nat = SetType(@, type)]]
  /\ UNCHANGED <<pair, wire, cut, now, sessions, safe, packets>>

ChangeForwards(rules) ==
  /\ Edit /\ gw' = [b \in Boxes |-> [gw[b] EXCEPT !.nat = SetForwards(@, rules)]]
  /\ UNCHANGED <<pair, wire, cut, now, sessions, safe, packets>>

\* a filter that forgot its flows lets nothing old through
ChangeFilter(cfg) ==
  /\ Edit /\ gw' = [b \in Boxes |-> [gw[b] EXCEPT !.fw = SetConfig(@, cfg)]]
  /\ safe' = {}
  /\ UNCHANGED <<pair, wire, cut, now, sessions, packets>>

OpenHole(b, end) ==
  /\ Edit /\ gw[b].role = "master"
  /\ LET o == OpenPinhole(gw[b].nat, "udp", end[1], end[2], {})
     IN  gw' = [gw EXCEPT ![b].nat = o.table,
                          ![b].fw.expects = @ \cup {<<"udp", end[1], end[2]>>}]
  /\ UNCHANGED <<pair, wire, cut, now, sessions, safe, packets>>

CloseHole(b, id) ==
  /\ <<"udp", id>> \in DOMAIN gw[b].nat.entries
  /\ LET e == gw[b].nat.entries[<<"udp", id>>]
     IN  gw' = [gw EXCEPT ![b].nat = ClosePinhole(@, "udp", id),
                          ![b].fw.expects = @ \ {<<"udp", e.lan, e.inner>>}]
  /\ UNCHANGED <<pair, wire, cut, now, sessions, safe, packets, edits>>

\* The backup asks for the place, or only shows that it is there: the master that
\* hears it copies everything, and gives way if the other outranks it
Candidate(b, outranks) ==
  /\ pair /\ ~cut /\ gw[b].role = "master" /\ gw[Other(b)].role = "backup" /\ Edit
  /\ wire' = BulkSent(b, FALSE)
  /\ gw' = [gw EXCEPT ![b] = [Bulked(b) EXCEPT !.role = IF outranks THEN "backup" ELSE @]]
  /\ UNCHANGED <<pair, cut, now, sessions, safe, packets>>

\* Two masters that hear each other again: the lower one hands over and gives way
GiveWay(b) ==
  /\ pair /\ ~cut /\ \A c \in Boxes : gw[c].role = "master"
  /\ wire' = BulkSent(b, TRUE)
  /\ gw' = [gw EXCEPT ![b] = [Bulked(b) EXCEPT !.role = "backup"]]
  /\ UNCHANGED <<pair, cut, now, sessions, safe, packets, edits>>

\* A tracked link goes down, or the box is switched off in order.  What is still
\* queued for the backup is then dropped: the sessions of this instant are lost
Resign(b) ==
  /\ pair /\ gw[b].role = "master" /\ Edit
  /\ gw' = [gw EXCEPT ![b].role = "backup"]
  /\ sessions' = IF gw[b].pending = None THEN sessions ELSE safe
  /\ UNCHANGED <<pair, wire, cut, now, safe, packets>>

\* the timer of a backup that hears no master; what was sent before has arrived
TakeOver(b) ==
  /\ pair /\ gw[b].role = "backup" /\ wire[b] = <<>>
  /\ cut \/ gw[Other(b)].role # "master"
  /\ gw' = [gw EXCEPT ![b].role = "master"]
  /\ UNCHANGED <<pair, wire, cut, now, sessions, safe, packets, edits>>

\* The box loses power and starts empty.  One failure at a time: the other one works
\* and has all there is to have; it copies it back when it hears the box again
Crash(b) ==
  /\ pair /\ ~cut /\ Edit /\ wire = [c \in Boxes |-> <<>>] /\ gw[Other(b)].pending = None
  /\ gw' = [gw EXCEPT
       ![b] = [NewBox("backup", [on |-> @.fw.on, stateful |-> @.fw.stateful, default |-> @.fw.default,
                                 rules |-> @.fw.rules], @.nat.forwards)
               EXCEPT !.nat = SetType(@, gw[b].nat.type)],
       ![Other(b)] = [@ EXCEPT !.role = "master", !.bulkAt = now]]
  /\ wire' = [wire EXCEPT ![b] =
       LET m == Everything(Other(b), FALSE) IN IF m.nat = {} /\ m.flows = {} THEN <<>> ELSE <<m>>]
  /\ sessions' = safe
  /\ UNCHANGED <<pair, cut, now, safe, packets>>

Cut == /\ pair /\ ~cut /\ Edit /\ cut' = TRUE /\ wire' = [b \in Boxes |-> <<>>]
       /\ UNCHANGED <<gw, pair, now, sessions, safe, packets>>
\* what the winner made while they were apart is not copied to the other one
Heal == /\ cut /\ cut' = FALSE /\ sessions' = safe
        /\ UNCHANGED <<gw, pair, wire, now, safe, packets, edits>>

\* An instant ends once its timers have fired.  What was made in it by the only
\* master is now at both boxes, unless they are apart
Held(s, b) ==
  LET e == Lookup(gw[b].nat.entries, <<"tcp", s.pub>>)
  IN  e # None /\ e.lan = s.p.src /\ e.inner = s.p.sport /\ e.closed = None
Tick ==
  /\ now < MaxNow /\ \A b \in Boxes : gw[b].pending = None /\ wire[b] = <<>>
  /\ now' = now + 1
  /\ safe' = IF cut \/ ~pair \/ \A b \in Boxes : gw[b].role = "master" THEN safe
             ELSE safe \cup {s \in sessions : s.p.flag = "syn" /\ s.p.proto = "tcp"
                                              /\ \E b \in Boxes : gw[b].role = "master" /\ Held(s, b)}
  /\ UNCHANGED <<gw, pair, wire, cut, sessions, packets, edits>>

Next ==
  \/ \E b \in Boxes : \/ \E p \in OutPackets : Out(b, p)
                      \/ \E p \in InPackets : In(b, p)
                      \/ \E e \in HoleEnds : OpenHole(b, e)
                      \/ \E i \in 1 .. FirstId + MaxPackets : CloseHole(b, i)
                      \/ Flush(b) \/ Receive(b) \/ GiveWay(b) \/ Resign(b) \/ TakeOver(b) \/ Crash(b)
                      \/ \E o \in BOOLEAN : Candidate(b, o)
  \/ \E type \in Types : ChangeType(type)
  \/ \E l \in ForwardLists : ChangeForwards(l)
  \/ \E c \in Filters : ChangeFilter(c)
  \/ Cut \/ Heal \/ Tick

Spec == Init /\ [][Next]_vars

-------------------------------------------------------------------------------
TypeOK ==
  \A b \in Boxes :
    /\ TableOK(gw[b].nat)
    /\ gw[b].role \in {"master", "backup"}
    /\ Len(gw[b].fw.flows) <= MaxFlows

Answerable(b, s) ==
  LET r == Restore(gw[b].nat, Answer(s), now, MaxRuleFlows)
      arrived == Inside(Answer(s), r.to)
  IN  /\ r.to = <<s.p.src, s.p.sport>>
      /\ Passes(gw[b].fw, arrived, "in")
      /\ TranslateError(gw[b].nat, arrived) = s.pub
      /\ gw[b].nat.type = "full-cone" => Carries(gw[b].nat, s.p)

\* Whoever is master answers for the sessions made before: the outside end of a
\* connection that was copied reaches the same inside end through the same public port,
\* and an error about what it sent quotes that port; a cone knows the flow as its own
SessionsSurvive == \A b \in Boxes, s \in safe : gw[b].role = "master" => Answerable(b, s)

\* On one gateway, whatever the user changes, what answers a packet that went out, and
\* an error about it, comes back to who sent it or to nobody
NoStranger ==
  ~pair => \A b \in Boxes, s \in sessions :
    gw[b].role = "master" =>
      /\ Restore(gw[b].nat, Answer(s), now, MaxRuleFlows).to \in {None, <<s.p.src, s.p.sport>>}
      /\ RestoreError(gw[b].nat, [s.p EXCEPT !.sport = s.pub]) \in {None, <<s.p.src, s.p.sport>>}
===============================================================================
