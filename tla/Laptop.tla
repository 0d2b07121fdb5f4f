--------------------------------- MODULE Laptop ---------------------------------
(***************************************************************************)
(* A host with two network cards and one IP stack (nodes/host.ts): the     *)
(* wired card is used when its cable is in, the wireless one otherwise,    *)
(* and every change of card, of address or of settings takes along what    *)
(* is tied to the address.  The server that gives addresses is seen from   *)
(* the host; Dhcp.tla has its side.                                        *)
(***************************************************************************)
EXTENDS Naturals, FiniteSets

CONSTANTS
  None,
  Addresses,   \* what the server may give out
  Fixed,       \* addresses a user may set
  MaxAsks,     \* DHCP_MAX_ATTEMPTS
  MaxLaptopEdits, MaxAnswers

VARIABLES
  card,     \* of each card: is its link up, and the address it had last
  ipStack,  \* [active, switching, link, mode, mac, ip, probing, refused, gone]
  dhcp,     \* the client: [state, last, tries]
  asked,    \* what is on its way to the server, by card
  answers,  \* and from it
  probes,   \* the probes of a fixed address that have not ended, by card address
  service,      \* the address an application is connected with, or None
  renewed,  \* the user renewed the address while one was in use
  granted,  \* <<card, address>>: what a server ever confirmed
  laptopEdits, given
laptopVars == <<card, ipStack, dhcp, asked, answers, probes, service, renewed, granted, laptopEdits, given>>

Wired == 0
Air == 1
Cards == {Wired, Air}

-------------------------------------------------------------------------------
(* One step, as it goes on: x *)
Now == [card |-> card, st |-> ipStack, dhcp |-> dhcp, asked |-> asked, probes |-> probes, service |-> service, answers |-> answers]
Port(x) == IF x.st.active = None THEN Wired ELSE x.st.active
\* what is sent on a card without a link is lost
Ask(x, kind, ip) ==
  IF ~x.card[Port(x)].up THEN x
  ELSE [x EXCEPT !.asked = @ \cup {[on |-> Port(x), mac |-> x.st.mac, kind |-> kind, ip |-> ip, fresh |-> TRUE]}]
MyIp(x) == IF x.st.probing \/ x.st.refused THEN None ELSE x.st.ip
\* an application that is told of an address connects, if there is a link to connect over
AppUp(x) == IF x.st.link /\ x.service = None /\ ~x.st.gone THEN [x EXCEPT !.service = MyIp(x)] ELSE x
AppLost(x) == [x EXCEPT !.service = None]
Cleared(x) == [x EXCEPT !.st.ip = None, !.st.probing = FALSE, !.st.refused = FALSE]

(* The client of DHCP: a new exchange makes all that is under way stale *)
Stale(ms) == {[m EXCEPT !.fresh = FALSE] : m \in ms}
Fresh(x) == [x EXCEPT !.asked = Stale(@), !.answers = Stale(@), !.dhcp.tries = 1]
DhcpStart(x) ==
  LET y == Fresh(Cleared(x))
  IN IF y.dhcp.last # None
       THEN Ask([y EXCEPT !.dhcp.state = "rebooting"], "reboot", y.dhcp.last)
       ELSE Ask([y EXCEPT !.dhcp.state = "discovering"], "discover", None)
DhcpRestart(x) == DhcpStart([x EXCEPT !.dhcp.last = None])
DhcpStop(x) == [x EXCEPT !.dhcp.state = "idle", !.dhcp.tries = 0]
DhcpHandle(x, m) ==
  CASE m.fresh /\ m.kind = "offer" /\ x.dhcp.state = "discovering" ->
         Ask([x EXCEPT !.dhcp.state = "requesting"], "request", m.ip)
    [] m.fresh /\ m.kind = "ack" /\ x.dhcp.state \in {"requesting", "rebooting"} ->
         [x EXCEPT !.st.ip = m.ip, !.dhcp.state = "bound", !.dhcp.last = m.ip]
    [] m.fresh /\ m.kind = "nak" /\ x.dhcp.state \in {"requesting", "rebooting"} -> DhcpRestart(x)
    [] OTHER -> x

-------------------------------------------------------------------------------
(* The stack and its cards *)
Claim(x) ==
  IF x.st.ip = None THEN x
  ELSE [x EXCEPT !.st.refused = FALSE, !.st.probing = TRUE, !.probes[x.st.mac] = @ + 1]
StackUp(x) ==
  LET y == [x EXCEPT !.st.link = TRUE]
  IN IF y.st.mode = "dhcp" THEN DhcpStart(y) ELSE Claim(y)
StackDown(x) ==
  LET y == AppLost([x EXCEPT !.st.link = FALSE])
  IN IF y.st.mode = "dhcp" THEN DhcpStop(Cleared(y)) ELSE y
Wanted(x) == IF x.card[Wired].up THEN Wired ELSE IF x.card[Air].up THEN Air ELSE None
\* the card takes its address with it, and what it was given last
UseCard(x, i) ==
  IF x.st.mac = i THEN [x EXCEPT !.st.active = i]
  ELSE [x EXCEPT !.st.active = i, !.card[x.st.mac].lease = x.dhcp.last, !.st.mac = i,
                 !.st.probing = FALSE, !.st.refused = FALSE, !.dhcp.last = x.card[i].lease]
OnLink(x0, i, up) ==
  LET x == [x0 EXCEPT !.card[i].up = up]
      want == Wanted(x)
      down == [StackDown(x) EXCEPT !.st.active = None]
  IN CASE x.st.gone -> x0
       [] ~x.st.gone /\ (x.st.switching \/ want = x.st.active) -> x
       [] ~x.st.gone /\ ~x.st.switching /\ want # x.st.active /\ x.st.active = None -> StackUp(UseCard(x, want))
       [] OTHER -> IF want = None THEN down ELSE [down EXCEPT !.st.switching = TRUE]
SwitchCard(x0) ==
  LET x == [x0 EXCEPT !.st.switching = FALSE]
      want == Wanted(x)
  IN IF want = None \/ x.st.gone THEN x ELSE StackUp(UseCard(x, want))

(* What the user does *)
Configured(x, ip) ==
  LET stopped == DhcpStop([x EXCEPT !.st.mode = "static"])
      set == AppLost([stopped EXCEPT !.st.ip = ip, !.st.probing = FALSE, !.st.refused = FALSE])
  IN IF ip = x.st.ip THEN stopped ELSE IF set.st.link THEN Claim(set) ELSE set
Automatic(x) ==
  LET y == Cleared([x EXCEPT !.st.mode = "dhcp"])
      z == IF x.st.ip # None THEN AppLost(y) ELSE y
  IN IF z.st.link THEN DhcpStart(z) ELSE DhcpStop(z)

-------------------------------------------------------------------------------
Becomes(x) ==
  /\ card' = x.card /\ ipStack' = x.st /\ dhcp' = x.dhcp /\ asked' = x.asked /\ answers' = x.answers
  /\ probes' = x.probes /\ service' = x.service
Keep == UNCHANGED <<renewed, granted, laptopEdits, given>>
Edit == laptopEdits < MaxLaptopEdits /\ laptopEdits' = laptopEdits + 1 /\ ~ipStack.gone

\* a cable is pulled or plugged: what is on it is lost
Link(i) ==
  LET cut == [Now EXCEPT !.asked = {m \in @ : m.on # i}, !.answers = {m \in @ : m.on # i}]
  IN /\ Edit
     /\ Becomes(OnLink(IF card[i].up THEN cut ELSE Now, i, ~card[i].up))
     /\ renewed' = (renewed /\ service' # None) /\ UNCHANGED <<granted, given>>
SwitchTimer == ipStack.switching /\ Becomes(SwitchCard(Now)) /\ Keep
Configure(ip) ==
  /\ Edit /\ Becomes(IF ip = None THEN Automatic(Now) ELSE Configured(Now, ip))
  /\ renewed' = (renewed /\ service' # None) /\ UNCHANGED <<granted, given>>
RenewDhcp ==
  /\ Edit /\ ipStack.mode = "dhcp" /\ ipStack.link
  /\ Becomes(DhcpStart(Now))
  /\ renewed' = (renewed \/ service # None) /\ UNCHANGED <<granted, given>>
\* the machine is removed: it gives its address back and falls silent
Remove ==
  /\ Edit
  /\ LET told == IF dhcp.state = "bound" THEN Ask(Now, "release", ipStack.ip) ELSE Now
     IN Becomes([told EXCEPT !.st.gone = TRUE])
  /\ UNCHANGED <<renewed, granted, given>>
DhcpTimeout ==
  LET again == Ask([Now EXCEPT !.dhcp.tries = @ + 1, !.dhcp.state = "discovering"], "discover", None)
      failed == Cleared([Now EXCEPT !.dhcp.state = "failed", !.dhcp.last = None])
  IN /\ dhcp.state \in {"discovering", "requesting", "rebooting"} /\ ~ipStack.gone
     /\ Becomes(CASE dhcp.state = "rebooting" -> DhcpRestart(Now)
                  [] dhcp.state # "rebooting" /\ dhcp.tries < MaxAsks -> again
                  [] OTHER -> failed)
     /\ Keep
\* the wait after a probe ends, of whatever card and address it was
ProbeTimer(mac) ==
  LET x == [Now EXCEPT !.probes[mac] = @ - 1]
  IN /\ probes[mac] > 0 /\ ~ipStack.gone
     /\ Becomes(AppUp(IF mac = x.st.mac THEN [x EXCEPT !.st.probing = FALSE] ELSE x))
     /\ Keep
\* another machine answers the probe
Refuse ==
  /\ ipStack.probing /\ ipStack.link /\ ~ipStack.gone
  /\ Becomes([Now EXCEPT !.st.probing = FALSE, !.st.refused = TRUE])
  /\ Keep

(* The server, as it is seen from here: it confirms or refuses what it likes *)
Answer(m, kind, ip) ==
  /\ m \in asked /\ given < MaxAnswers
  /\ kind \in (CASE m.kind = "discover" -> {"offer"} [] m.kind = "release" -> {} [] OTHER -> {"ack", "nak"})
  /\ ip = IF kind # "offer" THEN m.ip ELSE CHOOSE a \in Addresses : ~\E g \in granted : g[1] # m.mac /\ g[2] = a
  /\ kind = "ack" => ~\E g \in granted : g[1] # m.mac /\ g[2] = ip
  /\ asked' = asked \ {m}
  /\ answers' = answers \cup {[on |-> m.on, kind |-> kind, ip |-> ip, fresh |-> m.fresh]}
  /\ granted' = IF kind = "ack" THEN granted \cup {<<m.mac, ip>>} ELSE granted
  /\ given' = given + 1
  /\ UNCHANGED <<card, ipStack, dhcp, probes, service, renewed, laptopEdits>>
\* a card at rest leaves its frames alone; no card is used while they are being swapped
Receive(m) ==
  LET x == [Now EXCEPT !.answers = @ \ {m}]
  IN /\ m \in answers
     /\ Becomes(IF ipStack.gone \/ ipStack.active \notin {None, m.on} THEN x ELSE AppUp(DhcpHandle(x, m)))
     /\ Keep

Init ==
  /\ card = [i \in Cards |-> [up |-> FALSE, lease |-> None]]
  /\ \E ip \in Fixed \cup {None} :
       ipStack = [active |-> None, switching |-> FALSE, link |-> FALSE, mode |-> IF ip = None THEN "dhcp" ELSE "static",
                  mac |-> Wired, ip |-> ip, probing |-> FALSE, refused |-> FALSE, gone |-> FALSE]
  /\ dhcp = [state |-> "idle", last |-> None, tries |-> 0]
  /\ asked = {} /\ answers = {} /\ probes = [i \in Cards |-> 0] /\ service = None
  /\ renewed = FALSE /\ granted = {} /\ laptopEdits = 0 /\ given = 0
Next ==
  \/ \E i \in Cards : Link(i) \/ ProbeTimer(i)
  \/ \E ip \in Fixed \cup {None} : Configure(ip)
  \/ SwitchTimer \/ RenewDhcp \/ Remove \/ DhcpTimeout \/ Refuse
  \/ \E m \in asked, kind \in {"offer", "ack", "nak"}, ip \in Addresses : Answer(m, kind, ip)
  \/ \E m \in answers : Receive(m)
Spec == Init /\ [][Next]_laptopVars

-------------------------------------------------------------------------------
\* The client has an address only when it is bound or set by hand, a card is used only if its link is up, and an
\* address that is being probed has a probe to end it.
TypeOK ==
  /\ ipStack.mode = "dhcp" /\ ipStack.ip # None => dhcp.state = "bound"
  /\ ipStack.probing => probes[ipStack.mac] > 0
  /\ ipStack.switching => ipStack.active = None
  /\ ~ipStack.gone /\ ipStack.active # None => card[ipStack.active].up /\ ipStack.mac = ipStack.active

\* When it is at rest the stack uses the wired card if it can, the other one if it must, and is up exactly then.
BestCard ==
  ~ipStack.gone /\ ~ipStack.switching => ipStack.active = Wanted(Now) /\ (ipStack.link <=> ipStack.active # None)

\* An address that is given to one card is never used, nor asked for again, with the other.
OwnLease ==
  /\ ipStack.mode = "dhcp" /\ ipStack.ip # None => <<ipStack.mac, ipStack.ip>> \in granted
  /\ \A m \in asked : m.kind = "reboot" => <<m.mac, m.ip>> \in granted

\* An application is connected with the address the machine has, on a link it has, unless the user renewed it.
AppFollows == service # None /\ ~renewed /\ ~ipStack.gone => service = MyIp(Now) /\ ipStack.link
===============================================================================
