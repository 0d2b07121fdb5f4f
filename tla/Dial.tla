--------------------------------- MODULE Dial ---------------------------------
(***************************************************************************)
(* How a host comes to a connection (nodes/host.ts: connect, its proxy,    *)
(* jump host, resolveName and happyEyeballs; hostdiag.ts: lookup).         *)
(* A dial is a user's wish to connect; its callbacks are questions out and *)
(* connections under way, and addresses, filter and cable change between   *)
(* them.  The resolver is in Dns and TCP in Tcp: here a question is        *)
(* answered, or not, and a connection comes up, fails, or ends.            *)
(***************************************************************************)
EXTENDS Naturals, Sequences, FiniteSets

CONSTANTS
  None,
  Hosts4,      \* what a host may start with: its settings, and what the name it looks up is
  Wishes,      \* targets: kind of address, port, jump host
  MaxDials,    \* bound
  MaxDialEdits \* bound

VARIABLES
  me,        \* the host: link, IPv4 (and whether by hand), IPv6, IPv6 router, proxy; zone, blocked: what its DNS answers
  dials,     \* dials and lookups, in order: what was wished, under which proxy, and whether it failed
  questions, \* out: of which dial, for A or AAAA, and what is done with the answer
  conns,     \* of which dial, family, to whom, state, whether it has a fallback, and what made it end
  noted,     \* dials under way when IPv4 went, or the filter changed, and those with an unanswered AAAA
  dialEdits
dialVars == <<me, dials, questions, conns, noted, dialEdits>>

IsName(kind) == kind \in {"name", "magic"}
HasV6Global == me.link /\ me.v6
Question(d, qtype, then) == [dial |-> d, qtype |-> qtype, then |-> then]
Conn(d, fam, to, fallback) == [dial |-> d, fam |-> fam, to |-> to, fallback |-> fallback, state |-> "SYN_SENT"]

\* what a callback does: questions it asks, connections it opens, the dial's failure it records
Nothing == [ask |-> {}, open |-> {}, fail |-> {}]
Asks(d, qtype, then) == [Nothing EXCEPT !.ask = {Question(d, qtype, then)}]
Opens(d, fam, to, fallback) == [Nothing EXCEPT !.open = {Conn(d, fam, to, fallback)}]
Fails(d) == [Nothing EXCEPT !.fail = {d}]

-------------------------------------------------------------------------------
(* Names *)
\* connect's and connectViaJump's callbacks; ip is the family of the address, None, or that of a name the
\* filter answered with the unspecified address
ConnectTo(d, ip) ==
  CASE ip \notin {4, 6} -> Fails(d)
    [] ip = 6 -> IF HasV6Global THEN Opens(d, 6, "target", me.v4)
                 ELSE IF me.v4 THEN Asks(d, "A", "vanished") ELSE Fails(d)
    [] ip = 4 -> IF me.v4 THEN Opens(d, 4, "target", FALSE) ELSE Nothing
JumpTo(d, ip) == IF ip # 4 THEN Fails(d) ELSE IF me.v4 THEN Opens(d, 4, "jump", FALSE) ELSE Nothing
\* a peer's name is known without asking while one is in the mesh, which needs an IPv4 address
InMesh(kind) == kind = "magic" /\ me.v4 /\ me.link
\* resolveName: AAAA first where it can be used, A only where it cannot or is not wanted
ResolveName(d, kind, v4Only) ==
  IF InMesh(kind) THEN IF v4Only THEN JumpTo(d, 4) ELSE ConnectTo(d, 4)
  ELSE IF v4Only \/ ~HasV6Global THEN Asks(d, "A", IF v4Only THEN "jump" ELSE "connect") ELSE Asks(d, "AAAA", "connect")
\* the answer to AAAA: no way to the address, or nothing that could be had, is a reason to ask for A
Answered6(d, r) ==
  IF r = "blocked" THEN ConnectTo(d, None)
  ELSE IF r = "ok" THEN IF me.v4 /\ ~me.router6 THEN Asks(d, "A", "connect") ELSE ConnectTo(d, 6)
  ELSE IF me.v4 /\ r \in {"nodata", "retry"} THEN Asks(d, "A", "connect") ELSE ConnectTo(d, None)
\* an address of no one is an address to those that did not ask by way of resolveName
Address(r) == IF r = "ok" THEN "target" ELSE IF r = "blocked" THEN "nobody" ELSE None
AnsweredLate(q, r) ==
  IF Address(r) # None /\ me.v4 THEN Opens(q.dial, 4, Address(r), FALSE)
  ELSE IF q.then = "vanished" THEN Fails(q.dial) ELSE Nothing
Answered(q, r) ==
  CASE q.then = "lookup" -> IF Address(r) = None THEN Fails(q.dial) ELSE Nothing
    [] q.then = "jump" -> JumpTo(q.dial, IF r = "ok" THEN 4 ELSE None)
    [] q.then = "connect" -> IF q.qtype = "AAAA" THEN Answered6(q.dial, r) ELSE ConnectTo(q.dial, IF r = "ok" THEN 4 ELSE None)
    [] q.then \in {"vanished", "fallback"} -> AnsweredLate(q, r)

\* the dial's callback has run, after the questions and connections that are over are taken away
Runs(left, kept, e) ==
  /\ questions' = left \cup e.ask /\ conns' = kept \cup e.open
  /\ dials' = [d \in DOMAIN dials |-> IF d \in e.fail THEN [dials[d] EXCEPT !.failed = TRUE] ELSE dials[d]]

-------------------------------------------------------------------------------
(* connect *)
ProxyFor(w) == me.proxy /\ w.port \in {80, 443} /\ me.v4 /\ w.kind # "mine"
Connect6(d, w) == IF w.kind = "multicast" \/ ~HasV6Global THEN Fails(d) ELSE Opens(d, 6, "target", FALSE)
ConnectViaJump(d, w) ==
  IF ~me.v4 \/ w.jump \notin {"v4", "name", "magic"} \/ w.kind \in {"v6", "multicast", "bad"} THEN Fails(d)
  ELSE IF w.jump = "v4" THEN JumpTo(d, 4) ELSE ResolveName(d, w.jump, TRUE)
Connected(d, w) ==
  IF w.jump # None THEN ConnectViaJump(d, w)
  ELSE IF w.kind \in {"v6", "multicast"} THEN Connect6(d, w)
  ELSE IF (~me.v4 /\ ~(IsName(w.kind) /\ HasV6Global)) \/ w.kind = "bad" THEN Fails(d)
  ELSE IF ProxyFor(w) THEN Opens(d, 4, "proxy", FALSE)
  ELSE IF ~IsName(w.kind) THEN Opens(d, 4, "target", FALSE)
  ELSE ResolveName(d, w.kind, FALSE)
Begin(w, tool, e) ==
  /\ Len(dials) < MaxDials
  /\ dials' = Append(dials, [wish |-> w, tool |-> tool, proxied |-> ProxyFor(w), failed |-> e.fail # {}])
  /\ questions' = questions \cup e.ask /\ conns' = conns \cup e.open /\ UNCHANGED <<me, noted, dialEdits>>
Connect(w) == Begin(w, "connect", Connected(Len(dials) + 1, w))
\* nslookup: one question, past the cache and whatever the host can use
Lookup(w, qtype) ==
  LET d == Len(dials) + 1
  IN Begin(w, "lookup", CASE ~IsName(w.kind) -> Fails(d)
                          [] InMesh(w.kind) /\ qtype = "A" -> Nothing
                          [] OTHER -> Asks(d, qtype, "lookup"))

(* Callbacks *)
\* what its DNS says of the name; any question may go unanswered
Says(qtype) == {IF me.blocked THEN "blocked" ELSE me.zone[qtype], "retry"}
Answer(q, r) ==
  /\ q \in questions /\ r \in Says(q.qtype)
  /\ Runs(questions \ {q}, conns, Answered(q, r)) /\ UNCHANGED <<me, dialEdits>>
  /\ noted' = IF r = "retry" /\ q.qtype = "AAAA" THEN [noted EXCEPT !.missed = @ \cup {q.dial}] ELSE noted
Becomes(c, state) == (conns \ {c}) \cup {[c EXCEPT !.state = state, !.fallback = @ /\ state = "ESTABLISHED"]}
Establish(c) ==
  c \in conns /\ c.state = "SYN_SENT" /\ me.link /\ c.to # "nobody" /\ Runs(questions, Becomes(c, "ESTABLISHED"), Nothing)
    /\ UNCHANGED <<me, noted, dialEdits>>
\* happyEyeballs: no answer, no way or a refusal of the first packet is a reason to try IPv4
HappyEyeballs(c) ==
  /\ c \in conns /\ c.state = "SYN_SENT"
  /\ Runs(questions, Becomes(c, "FAILED"), IF c.fallback /\ me.v4 THEN Asks(c.dial, "A", "fallback") ELSE Nothing)
  /\ UNCHANGED <<me, noted, dialEdits>>
Finish(c) ==
  c \in conns /\ c.state = "ESTABLISHED" /\ Runs(questions, Becomes(c, "CLOSED"), Nothing) /\ UNCHANGED <<me, noted, dialEdits>>

(* What changes under them *)
Edit == dialEdits < MaxDialEdits /\ dialEdits' = dialEdits + 1
Asking == {q.dial : q \in questions}
Dialling == Asking \cup {c.dial : c \in {k \in conns : k.state = "SYN_SENT"}}
Aborted(fams) == {IF c.state \in {"SYN_SENT", "ESTABLISHED"} /\ c.fam \in fams THEN [c EXCEPT !.state = "ABORTED", !.fallback = FALSE] ELSE c : c \in conns}
\* addressLost, of an address that is taken away or replaced: its connections end, questions stay out
AddressLost(stays) ==
  /\ Edit /\ me.v4 /\ me' = [me EXCEPT !.v4 = stays]
  /\ conns' = Aborted({4}) /\ noted' = [noted EXCEPT !.v4 = @ \cup Asking] /\ UNCHANGED <<dials, questions>>
GetV4 == Edit /\ ~me.v4 /\ (me.link \/ me.byHand) /\ me' = [me EXCEPT !.v4 = TRUE] /\ UNCHANGED <<dials, questions, conns, noted>>
\* an IPv6 address or router comes or goes, with the address its connections
SetV6(f) ==
  /\ Edit /\ me' = [me EXCEPT ![f] = ~@] /\ conns' = IF f = "v6" THEN Aborted({6}) ELSE conns
  /\ UNCHANGED <<dials, questions, noted>>
SetProxy == Edit /\ me' = [me EXCEPT !.proxy = ~@] /\ UNCHANGED <<dials, questions, conns, noted>>
SetFilter ==
  Edit /\ me' = [me EXCEPT !.blocked = ~@] /\ noted' = [noted EXCEPT !.filter = @ \cup Dialling] /\ UNCHANGED <<dials, questions, conns>>
\* the resolver's clear: every question ends, and no callback asks again
Clear ==
  /\ questions' = {}
  /\ dials' = [d \in DOMAIN dials |-> IF \E q \in questions : q.dial = d /\ q.then # "fallback" THEN [dials[d] EXCEPT !.failed = TRUE] ELSE dials[d]]
SetDns == Edit /\ Clear /\ UNCHANGED <<me, conns, noted>>
\* stackDown: every connection ends, then every question; then a leased address goes
StackDown ==
  /\ Edit /\ me.link /\ me' = [me EXCEPT !.link = FALSE, !.v4 = @ /\ me.byHand, !.v6 = FALSE]
  /\ conns' = Aborted({4, 6}) /\ Clear /\ UNCHANGED noted
StackUp == Edit /\ ~me.link /\ me' = [me EXCEPT !.link = TRUE] /\ UNCHANGED <<dials, questions, conns, noted>>

Init ==
  /\ me \in Hosts4 /\ dials = <<>> /\ questions = {} /\ conns = {} /\ noted = [v4 |-> {}, filter |-> {}, missed |-> {}] /\ dialEdits = 0
Next ==
  \/ \E w \in Wishes : Connect(w) \/ \E qtype \in {"A", "AAAA"} : w.jump = None /\ Lookup(w, qtype)
  \/ \E q \in questions : \E r \in Says(q.qtype) : Answer(q, r)
  \/ \E c \in conns : Establish(c) \/ HappyEyeballs(c) \/ Finish(c)
  \/ \E stays \in BOOLEAN : AddressLost(stays)
  \/ GetV4 \/ SetDns \/ SetProxy \/ SetFilter \/ StackDown \/ StackUp \/ \E f \in {"v6", "router6"} : SetV6(f)
Spec == Init /\ [][Next]_dialVars

-------------------------------------------------------------------------------
(* Properties *)
ConnsOf(d) == {c \in conns : c.dial = d}
\* Only a connection over IPv6 to a name has a fallback, until it is up or over; a dial asks one question at a time
TypeOK ==
  /\ \A c \in conns : c.fallback => c.fam = 6 /\ IsName(dials[c.dial].wish.kind) /\ c.state \in {"SYN_SENT", "ESTABLISHED"}
  /\ \A p, q \in questions : p.dial = q.dial => p = q

\* host.ts: a dial that is over shows its connection or its failure, and a lookup its answer, unless the
\* host's IPv4 address went while the dial's question was out
Shown ==
  \A d \in DOMAIN dials \ Dialling : dials[d].tool = "connect" => dials[d].failed \/ ConnsOf(d) # {} \/ d \in noted.v4

\* host.ts: no dial is at its target twice: IPv4 is asked for and tried only once IPv6 failed before it was up
OneAtATime ==
  /\ \A c, k \in conns : c # k /\ c.dial = k.dial => c.fam # k.fam /\ (c.fam = 4 => k.state = "FAILED")
  /\ \A q \in questions : \A c \in ConnsOf(q.dial) : c.fam = 6 /\ c.state = "FAILED"

\* host.ts: IPv6 comes first where there is a way: with nothing else changing, a name that has an IPv6 address is
\* not reached over IPv4 before IPv6 failed or its address could not be had
V6First ==
  \A c \in conns : dials[c.dial].wish.kind = "name" /\ c.fam = 4 /\ c.to = "target" /\ dialEdits = 0 =>
    \/ ~me.v6 \/ ~me.router6 \/ me.zone["AAAA"] # "ok" \/ c.dial \in noted.missed \/ \E k \in ConnsOf(c.dial) : k.fam = 6 /\ k.state = "FAILED"

\* host.ts: what is to go by the proxy or by the jump host never goes straight to its target, and nothing is
\* sent to the address a filter answers with, unless the filter changed under the dial
AsTold ==
  \A c \in conns :
    LET d == dials[c.dial]
    IN /\ d.proxied /\ d.wish.jump = None /\ d.wish.kind \notin {"v6", "multicast"} => c.to = "proxy"
       /\ d.wish.jump # None => c.to = "jump" /\ c.fam = 4
       /\ c.to = "nobody" => c.dial \in noted.filter
===============================================================================
