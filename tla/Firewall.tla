------------------------------- MODULE Firewall -------------------------------
(***************************************************************************)
(* The packet filter of a router, a NAT box or a firewall bridge           *)
(* (src/src/core/nodes/firewall.ts) as operations on a value:              *)
(* [on, stateful, default, rules, flows, expects].  A rule is              *)
(* [action, dir, proto, port]; addresses in rules are left out, as they    *)
(* select packets the way ports do.  Packets are those of NatTable.        *)
(***************************************************************************)
EXTENDS Naturals, Sequences, FiniteSets, FiniteSetsExt

CONSTANTS Wild,       \* a field of a rule that matches everything
          MaxFlows   \* flows remembered (512 in the code)

ASSUME FirewallAssumption == MaxFlows \in Nat \ {0}

NewFirewall(on, stateful, default, rules) ==
  [on |-> on, stateful |-> stateful, default |-> default, rules |-> rules,
   flows |-> <<>>, expects |-> {}]

\* only the packet that opens a connection makes a flow
IsInitiator(p) == p.flag = "syn" \/ p.proto = "udp" \/ (p.proto = "icmp" /\ p.flag = "request")

Flow(p) == <<p.proto, p.src, p.sport, p.dst, p.dport>>
\* an error answers the packet it quotes: it passes as that packet's answer
Answered(p) == IF p.flag = "error" THEN <<p.proto, p.src, p.sport, p.dst, p.dport>>
               ELSE <<p.proto, p.dst, p.dport, p.src, p.sport>>

Has(fw, flow) == \E i \in DOMAIN fw.flows : fw.flows[i] = flow

\* the oldest flow goes when there are too many
ImportFlow(fw, flow) ==
  LET all == IF Has(fw, flow) THEN fw.flows ELSE Append(fw.flows, flow)
  IN  [fw EXCEPT !.flows = IF Len(all) > MaxFlows THEN Tail(all) ELSE all]

\* Switching the filter off forgets its flows; any other change keeps them
SetConfig(fw, cfg) ==
  [fw EXCEPT !.on = cfg.on, !.stateful = cfg.stateful, !.default = cfg.default, !.rules = cfg.rules,
             !.flows = IF cfg.on THEN @ ELSE <<>>]

Matches(r, p, dir) ==
  /\ r.dir \in {Wild, dir}
  /\ r.proto \in {Wild, p.proto}
  /\ r.port = Wild \/ (p.proto # "icmp" /\ r.port = p.dport)

FirstRule(fw, p, dir) == {i \in DOMAIN fw.rules : Matches(fw.rules[i], p, dir)}

Verdict(fw, p, dir) ==
  LET m == FirstRule(fw, p, dir) IN IF m = {} THEN fw.default ELSE fw.rules[Min(m)].action

Expected(fw, p, dir) == dir = "in" /\ p.proto # "icmp" /\ <<p.proto, p.dst, p.dport>> \in fw.expects
Established(fw, p) == fw.stateful /\ Has(fw, Answered(p))

\* What passes, and the flow it leaves behind
Passes(fw, p, dir) ==
  ~fw.on \/ Expected(fw, p, dir) \/ Established(fw, p) \/ Verdict(fw, p, dir) = "allow"

NewFlow(fw, p, dir) ==
  IF /\ fw.on /\ fw.stateful
     /\ ~Expected(fw, p, dir) /\ ~Established(fw, p)
     /\ Verdict(fw, p, dir) = "allow" /\ IsInitiator(p)
  THEN {Flow(p)} ELSE {}

Checked(fw, p, dir) == IF NewFlow(fw, p, dir) = {} THEN fw ELSE ImportFlow(fw, Flow(p))
===============================================================================
