------------------------------- MODULE NatTable -------------------------------
(***************************************************************************)
(* The translation table of a router or NAT box (src/src/core/nodes/nat.ts)*)
(* as operations on a value: the gateways and the SIP helper each keep one.*)
(*                                                                         *)
(* A packet is [proto, src, sport, dst, dport, flag]; an ICMP echo carries *)
(* its id in both port fields.  A table holds the mappings by public id    *)
(* (entries) and, the other way round, by what is behind them (byInner).   *)
(***************************************************************************)
EXTENDS Naturals, Sequences, FiniteSets, FiniteSetsExt, TLC

CONSTANTS
  None,       \* nothing
  FirstId,    \* the first public id given out (40000 in the code)
  TimeWait    \* Ticks a finished TCP mapping stays (2 s in the code)

ASSUME NatAssumption == FirstId \in Nat /\ TimeWait \in Nat /\ None \notin Nat

Put(f, k, v) == (k :> v) @@ f
Without(f, ks) == [x \in DOMAIN f \ ks |-> f[x]]
Lookup(f, k) == IF k \in DOMAIN f THEN f[k] ELSE None

\* the first element of a sequence that passes the test
FirstOf(s, Test(_)) ==
  LET found == {i \in DOMAIN s : Test(s[i])} IN IF found = {} THEN None ELSE s[Min(found)]

NoMapping == [x \in {} |-> None]

\* An empty table with the given list of rules [proto, public, lan, port]; ruleFlows
\* lists the flows [flow, public] that came in by a rule, the oldest first
NewTable(type, forwards) ==
  [entries |-> NoMapping, byInner |-> NoMapping, seq |-> FirstId, type |-> type,
   forwards |-> forwards, ruleFlows |-> <<>>]

NatKey(e) == <<e.proto, e.pub>>
InnerKey(e) == <<e.proto, e.lan, e.inner, e.dest>>

\* the other end of a packet going out, and of one coming in
To(p) == <<p.dst, IF p.proto = "icmp" THEN 0 ELSE p.dport>>
From(p) == <<p.src, IF p.proto = "icmp" THEN 0 ELSE p.sport>>

\* (mutant) the inside that held the id is not forgotten
ImportKeepingOld(t, e) ==
  LET prev == Lookup(t.byInner, InnerKey(e))
      kept == IF prev = None THEN t.entries ELSE Without(t.entries, {prev})
      new  == [proto |-> e.proto, lan |-> e.lan, inner |-> e.inner, dest |-> e.dest, pub |-> e.pub,
               peers |-> None, fin |-> {}, closed |-> None, pinhole |-> FALSE]
  IN  [t EXCEPT !.entries = Put(kept, NatKey(e), new), !.byInner = Put(@, InnerKey(e), NatKey(e)),
                !.seq = IF e.pub >= @ THEN e.pub + 1 ELSE @]

\* A mapping another box made, or one opened ahead: taken over under its public id.
\* Whoever held that id, and the old mapping of the same inside, give way.
ImportEntry(t, e) ==
  LET old  == Lookup(t.entries, NatKey(e))
      by   == IF old = None THEN t.byInner ELSE Without(t.byInner, {InnerKey(old)})
      prev == Lookup(by, InnerKey(e))
      kept == IF prev = None THEN t.entries ELSE Without(t.entries, {prev})
      new  == [proto |-> e.proto, lan |-> e.lan, inner |-> e.inner, dest |-> e.dest, pub |-> e.pub,
               peers |-> None, fin |-> {}, closed |-> None, pinhole |-> FALSE]
  IN  [t EXCEPT !.entries = Put(kept, NatKey(e), new), !.byInner = Put(by, InnerKey(e), NatKey(e)),
                !.seq = IF e.pub >= @ THEN e.pub + 1 ELSE @]

Forwarded(t, id) == \E i \in DOMAIN t.forwards : t.forwards[i].public = id
InRule(t, proto, id) == FirstOf(t.forwards, LAMBDA r : r.proto = proto /\ r.public = id)
ServerRule(t, proto, lan, port) ==
  FirstOf(t.forwards, LAMBDA r : r.proto = proto /\ r.lan = lan /\ r.port = port)

\* The next public id: ids of rules, of the box's own ports and of mappings are skipped
FreeFrom(t, proto, reserved) ==
  Min({i \in t.seq .. t.seq + Len(t.forwards) + Cardinality(reserved) + Cardinality(DOMAIN t.entries) :
         /\ proto = "icmp" \/ (~Forwarded(t, i) /\ i \notin reserved)
         /\ <<proto, i>> \notin DOMAIN t.entries})

\* A hole opened ahead, for anybody to come in: keeps the inside port as its number if it can
OpenPinhole(t, proto, lan, inner, reserved) ==
  LET have == Lookup(t.byInner, <<proto, lan, inner, None>>)
      free == <<proto, inner>> \notin DOMAIN t.entries /\ ~Forwarded(t, inner) /\ inner \notin reserved
      id   == IF free THEN inner ELSE FreeFrom(t, proto, reserved)
      made == ImportEntry(IF free THEN t ELSE [t EXCEPT !.seq = id + 1],
                          [proto |-> proto, lan |-> lan, inner |-> inner, dest |-> None, pub |-> id])
  IN  IF have # None
      THEN [table |-> [t EXCEPT !.entries[have].peers = None], id |-> have[2]]
      ELSE [table |-> [made EXCEPT !.seq = IF free THEN t.seq ELSE @,
                                   !.entries[<<proto, id>>].pinhole = TRUE],
            id |-> id]

ClosePinhole(t, proto, id) ==
  LET e == Lookup(t.entries, <<proto, id>>)
  IN  IF e = None \/ ~e.pinhole THEN t
      ELSE [t EXCEPT !.entries = Without(@, {NatKey(e)}), !.byInner = Without(@, {InnerKey(e)})]

SetForwards(t, rules) == [t EXCEPT !.forwards = rules]
SetType(t, type) == [t EXCEPT !.type = type]

\* Mappings of TCP connections that finished long enough ago are swept on the way out
Expire(t, now) ==
  LET gone == {k \in DOMAIN t.entries :
                 t.entries[k].closed # None /\ now - t.entries[k].closed >= TimeWait}
  IN  [t EXCEPT !.entries = Without(@, gone),
                !.byInner = Without(@, {i \in DOMAIN @ : @[i] \in gone})]

\* The end of a TCP connection as the table sees it pass
NoteTcp(e, p, dir, now) ==
  IF p.proto # "tcp" THEN e
  ELSE IF p.flag = "syn" THEN [e EXCEPT !.fin = {}, !.closed = None]
  ELSE IF e.closed # None THEN e
  ELSE CASE p.flag = "rst" -> [e EXCEPT !.closed = now]
         [] p.flag = "fin" -> [e EXCEPT !.fin = @ \cup {dir}]
         [] p.flag = "ack" /\ e.fin = {"in", "out"} -> [e EXCEPT !.closed = now]
         [] OTHER -> e

\* The key a packet going out is looked up by: a symmetric NAT maps each other end apart
KeyOf(t, p) == <<p.proto, p.src, p.sport, IF t.type = "symmetric" THEN To(p) ELSE None>>

RuleFlow(p) == <<p.proto, p.src, p.sport, p.dst, p.dport>>

KnownFlow(t, flow) == FirstOf(t.ruleFlows, LAMBDA f : f.flow = flow)

Carries(t, p) == KnownFlow(t, RuleFlow(p)) # None \/ KeyOf(t, p) \in DOMAIN t.byInner

\* the rule a packet going out answers: that of its own flow, else one naming its sender
ReplyRule(t, p) ==
  LET flow == KnownFlow(t, RuleFlow(p))
  IN  IF flow # None THEN InRule(t, p.proto, flow.public) ELSE ServerRule(t, p.proto, p.src, p.sport)

\* a flow that came in by a rule is remembered, at most maxRuleFlows of them
NoteRuleFlow(t, flow, public, maxRuleFlows) ==
  LET all == IF KnownFlow(t, flow) # None
             THEN [i \in DOMAIN t.ruleFlows |->
                     IF t.ruleFlows[i].flow = flow THEN [flow |-> flow, public |-> public]
                     ELSE t.ruleFlows[i]]
             ELSE Append(t.ruleFlows, [flow |-> flow, public |-> public])
  IN  [t EXCEPT !.ruleFlows = IF Len(all) > maxRuleFlows THEN Tail(all) ELSE all]

\* Inside to outside: the table after it, the public id it leaves with, and whether
\* the mapping is new (a backup is then told of it)
Translate(t, p, now, reserved) ==
  IF ReplyRule(t, p) # None
  THEN [table |-> t, pub |-> ReplyRule(t, p).public, fresh |-> {}]
  ELSE
  LET s    == Expire(t, now)
      key  == KeyOf(t, p)
      have == Lookup(s.byInner, key)
      id   == IF have = None THEN FreeFrom(s, p.proto, reserved) ELSE have[2]
      nk   == <<p.proto, id>>
      made == [proto |-> p.proto, lan |-> p.src, inner |-> p.sport, dest |-> key[4], pub |-> id,
               peers |-> {}, fin |-> {}, closed |-> None, pinhole |-> FALSE]
      e    == IF have = None THEN made ELSE s.entries[nk]
      seen == [e EXCEPT !.peers = IF @ = None THEN None ELSE @ \cup {To(p)}]
  IN  [table |-> [s EXCEPT !.entries = Put(@, nk, NoteTcp(seen, p, "out", now)),
                           !.byInner = Put(@, key, nk),
                           !.seq = IF have = None THEN id + 1 ELSE @],
       pub   |-> id,
       fresh |-> IF have = None THEN {made} ELSE {}]

\* What may come in through a mapping under the table's kind of filtering
Admits(t, e, p) ==
  \/ t.type = "full-cone" \/ e.peers = None
  \/ t.type = "restricted" /\ \E q \in e.peers : q[1] = p.src
  \/ t.type = "symmetric" /\ e.dest # None /\ e.dest = From(p)
  \/ (t.type = "port-restricted" \/ (t.type = "symmetric" /\ e.dest = None)) /\ From(p) \in e.peers

\* Outside to inside: the table after it and the inside end it goes to, or None
Restore(t, p, now, maxRuleFlows) ==
  LET e    == Lookup(t.entries, <<p.proto, p.dport>>)
      rule == InRule(t, p.proto, p.dport)
  IN  IF e # None
      THEN IF Admits(t, e, p)
           THEN [table |-> [t EXCEPT !.entries[<<p.proto, p.dport>>] = NoteTcp(e, p, "in", now)],
                 to |-> <<e.lan, e.inner>>]
           ELSE [table |-> t, to |-> None]
      ELSE IF rule = None THEN [table |-> t, to |-> None]
      ELSE [table |-> NoteRuleFlow(t, <<p.proto, rule.lan, rule.port, p.src, p.sport>>, rule.public, maxRuleFlows),
            to |-> <<rule.lan, rule.port>>]

\* The inside end an error quoting packet o (as it left, with its public id) is for
RestoreError(t, o) ==
  LET e    == Lookup(t.entries, <<o.proto, o.sport>>)
      rule == InRule(t, o.proto, o.sport)
  IN  IF e # None THEN <<e.lan, e.inner>>
      ELSE IF rule = None THEN None ELSE <<rule.lan, rule.port>>

\* The public id an error about packet o (as it reached the inside) quotes on its way out
TranslateError(t, o) ==
  LET key(d) == <<o.proto, o.dst, o.dport, d>>
      have   == IF key(From(o)) \in DOMAIN t.byInner THEN t.byInner[key(From(o))]
                ELSE Lookup(t.byInner, key(None))
      rule   == ServerRule(t, o.proto, o.dst, o.dport)
  IN  IF have # None THEN have[2] ELSE IF rule = None THEN None ELSE rule.public

-------------------------------------------------------------------------------
\* The two directions of the table describe the same mappings, one for each public
\* id, under a key of its own; the ids still to be given out are new ones
TableOK(t) ==
  /\ \A k \in DOMAIN t.entries : NatKey(t.entries[k]) = k
                                 /\ Lookup(t.byInner, InnerKey(t.entries[k])) = k
  /\ \A i \in DOMAIN t.byInner : /\ t.byInner[i] \in DOMAIN t.entries
                                 /\ InnerKey(t.entries[t.byInner[i]]) = i
===============================================================================
