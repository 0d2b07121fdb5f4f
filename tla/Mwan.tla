--------------------------------- MODULE Mwan ---------------------------------
(***************************************************************************)
(* Two lines to the Internet (src/src/core/nodes/mwan.ts, wanline.ts and   *)
(* routerroute.ts): which line is taken for alive, which one new           *)
(* connections leave by, and how a connection keeps the line it began on.  *)
(* A line is alive by its cable and address, and, when an address to track *)
(* is set, by the answers to a ping every five seconds; a ping is answered *)
(* well within that time or not at all.                                    *)
(***************************************************************************)
EXTENDS Naturals, FiniteSets

CONSTANTS
  Flows,      \* connections of inside hosts
  RuleOf,     \* RuleOf[f]: the line of the first policy rule that matches f's source, or "none"
  MainOf,     \* MainOf[f]: the line whose own network f's destination is in, or "none"
  DownAfter,  \* unanswered pings until a line is down (3)
  UpAfter,    \* answered pings until it is up again (2)
  MaxWanEdits \* bound: cables, settings and outages of the lines

VARIABLES
  mw,       \* enabled, track, member (WAN2 may carry the default route), active
  line,     \* line[w]: online, fails, oks and the last ping: "none", "sent" or "answered"
  port,     \* port[w]: cable, mode, address, and the state of its DHCP client
  works,    \* the lines behind which the Internet answers
  carried,  \* carried[w]: the flows the translation table of line w knows
  made,     \* made[f]: the line f was made on, "broken" once it was sent over another
  wanEdits
mwanVars == <<mw, line, port, works, carried, made, wanEdits>>

Lines == {"wan", "wan2"}
OtherLine(w) == IF w = "wan" THEN "wan2" ELSE "wan"
Fresh(online) == [online |-> online, fails |-> 0, oks |-> 0, probe |-> "none"]

\* the WAN2 port is a LAN port while multi-WAN is off
Ready(p, on, w) == p[w].link /\ p[w].ip /\ (w = "wan2" => on)
Asking(p, w) == p[w].link /\ ~p[w].ip /\ p[w].mode = "dhcp" /\ p[w].client = "asking"
Usable(w) == line[w].online /\ (w = "wan2" => mw.member)

Init ==
  /\ \E t \in BOOLEAN : mw = [enabled |-> FALSE, track |-> t, member |-> TRUE, active |-> "wan"]
  /\ line = [w \in Lines |-> Fresh(FALSE)]
  /\ \E mode \in {"dhcp", "static"} :
       port = [w \in Lines |-> [link |-> w = "wan", mode |-> IF w = "wan" THEN mode ELSE "dhcp",
                                ip |-> w = "wan", client |-> "idle"]]
  /\ works = Lines
  /\ carried = [w \in Lines |-> {}] /\ made = [f \in Flows |-> "none"]
  /\ wanEdits = 0

-------------------------------------------------------------------------------
\* The first line alive; WAN1 is waited for while it is still asking for its address
Decide(m, l, p) ==
  IF ~m.enabled THEN m
  ELSE LET coming == m.active = "wan" /\ Asking(p, "wan")
       IN  [m EXCEPT !.active = IF ~l["wan"].online /\ ~coming /\ l["wan2"].online /\ m.member
                                THEN "wan2" ELSE "wan"]

\* Cable or address of a line changed: without it the line is down at once; with it a
\* line is up at once, unless the pings had found it dead
OnLine(m, l, p, w) ==
  LET ready == Ready(p, m.enabled, w)
  IN  IF ~m.enabled THEN l
      ELSE IF ~ready /\ l[w].online THEN [l EXCEPT ![w] = Fresh(FALSE)]
      ELSE IF ready /\ l[w] = Fresh(FALSE) THEN [l EXCEPT ![w] = Fresh(TRUE)]
      ELSE l

Changed(p, w) == /\ port' = p /\ line' = OnLine(mw, line, p, w)
                 /\ mw' = Decide(mw, line', p)
                 /\ UNCHANGED <<works, carried, made>>

\* setConfig: judged anew from cable and address, then `onLine` of WAN2
Configured(m, p) ==
  LET l == [w \in Lines |-> Fresh(Ready(p, m.enabled, w))]
  IN  /\ port' = p
      /\ line' = l
      /\ mw' = IF m.enabled THEN Decide(m, l, p) ELSE [m EXCEPT !.active = "wan"]
      /\ UNCHANGED <<works, carried, made>>

Started(q) == IF q.mode = "dhcp" THEN [q EXCEPT !.client = "asking"] ELSE q
Stopped(q) == [q EXCEPT !.client = "idle", !.ip = FALSE]

\* The ping of a line, and the count of the one before
Tick ==
  /\ mw.enabled /\ mw.track
  /\ \A w \in works : line[w].probe # "sent"
  /\ LET Tracked(w) == Ready(port, mw.enabled, w) /\ (w = "wan2" => mw.member)
         Count(w) ==
           LET l == line[w]
           IN  CASE l.probe = "none" -> l
                 [] l.probe = "answered" ->
                      [l EXCEPT !.fails = 0, !.oks = IF @ < UpAfter THEN @ + 1 ELSE @,
                                !.online = @ \/ l.oks + 1 >= UpAfter]
                 [] l.probe = "sent" ->
                      [l EXCEPT !.oks = 0, !.fails = IF @ < DownAfter THEN @ + 1 ELSE @,
                                !.online = @ /\ l.fails + 1 < DownAfter]
     IN  line' = [w \in Lines |-> IF Tracked(w) THEN [Count(w) EXCEPT !.probe = "sent"]
                                  ELSE [line[w] EXCEPT !.probe = "none"]]
  /\ mw' = Decide(mw, line', port)
  /\ UNCHANGED <<port, works, carried, made, wanEdits>>

Reply(w) ==
  /\ w \in works /\ Ready(port, mw.enabled, w) /\ line[w].probe = "sent"
  /\ line' = [line EXCEPT ![w].probe = "answered"]
  /\ UNCHANGED <<mw, port, works, carried, made, wanEdits>>

\* the DHCP client of a line got its address, or gave up
DhcpEnds(w, bound) ==
  /\ Asking(port, w)
  /\ Changed([port EXCEPT ![w].ip = bound, ![w].client = IF bound THEN "idle" ELSE "failed"], w)
  /\ UNCHANGED wanEdits

-------------------------------------------------------------------------------
Edit == wanEdits < MaxWanEdits /\ wanEdits' = wanEdits + 1

LinkOn(w) ==
  /\ ~port[w].link /\ Edit
  /\ LET p == [port EXCEPT ![w].link = TRUE]
     IN  IF w = "wan2" /\ ~mw.enabled THEN port' = p /\ UNCHANGED <<mw, line, works, carried, made>>
         ELSE Changed([p EXCEPT ![w] = Started(@)], w)

\* the address of a DHCP line goes with its cable
LinkOff(w) ==
  /\ port[w].link /\ Edit
  /\ LET p == [port EXCEPT ![w].link = FALSE]
     IN  IF w = "wan2" /\ ~mw.enabled THEN port' = p /\ UNCHANGED <<mw, line, works, carried, made>>
         ELSE Changed(IF port[w].mode = "dhcp" THEN [p EXCEPT ![w] = Stopped(@)] ELSE p, w)

\* Multi-WAN on or off, or other settings of it
SetWan2(on, member) ==
  /\ Edit /\ <<on, member>> # <<mw.enabled, mw.member>>
  /\ LET p == IF on /\ ~mw.enabled /\ port["wan2"].link THEN [port EXCEPT !["wan2"] = Started(@)]
              ELSE IF ~on THEN [port EXCEPT !["wan2"] = Stopped(@)] ELSE port
     IN  Configured([mw EXCEPT !.enabled = on, !.member = member], p)

\* the Internet behind a line fails or comes back, its cable stays
Outage(w) ==
  /\ Edit
  /\ works' = IF w \in works THEN works \ {w} ELSE works \cup {w}
  /\ UNCHANGED <<mw, line, port, carried, made>>

-------------------------------------------------------------------------------
\* the line whose network, or static route, a destination is on, as long as it has an address
MainLine(f) ==
  IF MainOf[f] # "none" /\ port[MainOf[f]].ip /\ (MainOf[f] = "wan2" => mw.enabled) THEN MainOf[f] ELSE "none"

\* (mutant) the line in use, whatever the flow began on
OutForActive(f) ==
  LET out == IF mw.enabled THEN mw.active ELSE "wan"
      main == MainLine(f)
  IN  IF main # "none" THEN main
      ELSE IF ~mw.enabled \/ RuleOf[f] = "none" \/ ~Usable(RuleOf[f]) THEN out ELSE RuleOf[f]

\* A flow of a line that is alive goes on there; then the main table, then the policy
\* rule if its line can be used, then the line in use
OutFor(f) ==
  LET out == IF mw.enabled THEN mw.active ELSE "wan"
      other == OtherLine(out)
      main == MainLine(f)
      Keeps(w) == mw.enabled /\ f \in carried[w] /\ Usable(w) /\ main # w
  IN  IF Keeps(out) THEN out
      ELSE IF Keeps(other) THEN other
      ELSE IF main # "none" THEN main
      ELSE IF ~mw.enabled \/ f \in carried[out] \/ RuleOf[f] = "none" \/ ~Usable(RuleOf[f]) THEN out
      ELSE RuleOf[f]

\* A packet of f leaves by a line with an address; over another line than the one it
\* was made on it comes from an address its far end does not know
Send(f) ==
  LET w == OutFor(f)
  IN  /\ port[w].ip
      /\ carried' = [carried EXCEPT ![w] = @ \cup {f}]
      /\ made' = [made EXCEPT ![f] = IF @ = "none" THEN w ELSE IF @ = w THEN w ELSE "broken"]
      /\ UNCHANGED <<mw, line, port, works, wanEdits>>

\* the connection ends and its mappings expire
Finish(f) ==
  /\ made[f] # "none"
  /\ carried' = [w \in Lines |-> carried[w] \ {f}] /\ made' = [made EXCEPT ![f] = "none"]
  /\ UNCHANGED <<mw, line, port, works, wanEdits>>

Next ==
  \/ Tick
  \/ \E w \in Lines : \/ Reply(w) \/ LinkOn(w) \/ LinkOff(w) \/ Outage(w)
                      \/ \E bound \in BOOLEAN : DhcpEnds(w, bound)
  \/ \E on, member \in BOOLEAN : SetWan2(on, member)
  \/ \E f \in Flows : Send(f) \/ Finish(f)

\* timers fire, what works answers, and a DHCP client does not ask for ever
Fairness ==
  /\ WF_mwanVars(Tick)
  /\ \A w \in Lines : WF_mwanVars(Reply(w)) /\ WF_mwanVars(\E bound \in BOOLEAN : DhcpEnds(w, bound))

-------------------------------------------------------------------------------
TypeOK ==
  /\ mw.active \in Lines /\ (~mw.enabled => mw.active = "wan")
  /\ \A w \in Lines : line[w].fails <= DownAfter /\ line[w].oks <= UpAfter

\* A connection goes on over the line it was made on for as long as this line is alive,
\* whichever line is in use and however often that changed
KeepsItsLine ==
  mw.enabled => \A f \in Flows : made[f] \in Lines /\ Usable(made[f]) => OutFor(f) = made[f]

Alive(w) == Ready(port, mw.enabled, w) /\ w \in works

\* In the end the line in use is one that works: WAN1 if it does, WAN2 if only it does
LineThatWorks ==
  /\ <>[](mw.enabled /\ mw.track /\ Alive("wan")) => <>[](mw.active = "wan")
  /\ <>[](mw.enabled /\ mw.track /\ mw.member /\ ~Alive("wan") /\ Alive("wan2")) => <>[](mw.active = "wan2")
===============================================================================
