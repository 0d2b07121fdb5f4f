---------------------------------- MODULE Arp ----------------------------------
(***************************************************************************)
(* Address resolution and address conflicts on one segment, the ARP part   *)
(* of src/src/core/nodes/iface.ts for stations with addresses set by hand: *)
(* the probe before an address is used, its defence, the cache and the     *)
(* packets that wait for an answer.  All cables of the segment are equally *)
(* long, so that frames arrive everywhere in the order in which they were  *)
(* sent.  Virtual and proxied addresses are left out.                      *)
(***************************************************************************)
EXTENDS Naturals, Sequences, FiniteSetsExt

CONSTANTS
  Stations,    \* each with a MAC of its own
  ArpAddrs,    \* addresses of the subnet
  ArpStarts,   \* for each station the address entered and whether it is plugged in and uses it
  MaxArpEdits, \* bound: addresses changed, cables pulled and plugged again, frames lost
  MaxArpSends  \* bound: packets the stations send

VARIABLES
  st,      \* st[s]: address, link, probe, conflict, cache, packets that wait, probe timers
  arpWire, \* the frames under way, oldest first
  missed,  \* stations that missed a frame
  sought,  \* <<s, a, t>>: s waits for a, which t has been using since s asked
  arpEdits, arpSends
arpVars == <<st, arpWire, missed, sought, arpEdits, arpSends>>

NoIp == 0
NoConflict == [mac |-> "none", refused |-> FALSE]
Frame(op, s, to, ip, target) == [op |-> op, mac |-> s, to |-> to, ip |-> ip, target |-> target]
Everyone == "ff"

Init ==
  /\ \E start \in ArpStarts :
       st = [s \in Stations |-> [ip |-> start[s].ip, up |-> start[s].up, probing |-> FALSE, timers |-> 0,
                                 conflict |-> NoConflict, defended |-> FALSE, pending |-> {},
                                 cache |-> [a \in ArpAddrs |-> "none"]]]
  /\ arpWire = <<>> /\ missed = {} /\ sought = {}
  /\ arpEdits = 0 /\ arpSends = 0

Usable(i) == i.ip # NoIp /\ ~i.conflict.refused
ClearPending(i) == [i EXCEPT !.pending = {}]
ResetConflict(i) == [i EXCEPT !.probing = FALSE, !.conflict = NoConflict, !.defended = FALSE]
Unlearned(i) == [i EXCEPT !.cache = [a \in ArpAddrs |-> "none"], !.pending = {}]

-------------------------------------------------------------------------------
(* What a station sends *)
Request(s, i, a) == <<Frame("request", s, Everyone, i.ip, a)>>
Announcement(s, i) == Request(s, i, i.ip)
Announce(s, i) == IF Usable(i) THEN Announcement(s, i) ELSE <<>>
Probe(s, i) == <<Frame("request", s, Everyone, NoIp, i.ip)>>
\* the probe's timer cannot be called off: it counts on when a later claim starts another
Claimed(i) == [i EXCEPT !.conflict = NoConflict, !.probing = TRUE, !.timers = @ + 1]

ClaimsMine(i, f) ==
  \/ f.ip = i.ip
  \/ i.probing /\ f.op = "request" /\ f.ip = NoIp /\ f.target = i.ip

\* another station claims the address: give it up when still asking, defend it when in use
OnConflict(s, i, f) ==
  IF i.probing
  THEN [i |-> Unlearned([i EXCEPT !.probing = FALSE, !.conflict = [mac |-> f.mac, refused |-> TRUE]]),
        out |-> <<>>]
  ELSE IF i.conflict.refused THEN [i |-> i, out |-> <<>>]
  ELSE [i |-> [i EXCEPT !.conflict = [mac |-> f.mac, refused |-> FALSE], !.defended = TRUE],
        out |-> IF i.defended THEN <<>> ELSE Announcement(s, i)]

\* what a frame teaches: a known entry is corrected; a new one is made only by what is meant for me
Learn(i, f) ==
  LET gratuitous == f.op = "request" /\ f.ip = f.target
      isTarget == f.target = i.ip /\ ~i.conflict.refused
  IN  IF f.ip # NoIp /\ (i.cache[f.ip] # "none" \/ (isTarget /\ ~gratuitous))
      THEN [i EXCEPT !.cache[f.ip] = f.mac] ELSE i

\* packets that waited for the address leave once it is known
Flushed(i, f) ==
  IF f.ip # NoIp /\ f.ip # f.target /\ i.cache[f.ip] # "none"
     /\ (f.op = "request" \/ (f.target = i.ip /\ ~i.conflict.refused))
  THEN [i EXCEPT !.pending = @ \ {f.ip}] ELSE i

Answer(s, i, f) ==
  IF f.op = "request" /\ f.target = i.ip /\ Usable(i) /\ f.ip # f.target
  THEN <<Frame("reply", s, f.mac, i.ip, f.ip)>> ELSE <<>>

\* the frame of a conflict's other side with another address ends the conflict
Ends(i, f) == i.conflict.mac = f.mac /\ f.ip # NoIp

\* what receiving f makes of s and what s sends
HandleArp(s, i, f) ==
  IF i.ip = NoIp THEN [i |-> i, out |-> <<>>]
  ELSE IF ClaimsMine(i, f) THEN OnConflict(s, i, f)
  ELSE IF Ends(i, f) /\ i.conflict.refused
       THEN LET j == Claimed(i) IN [i |-> j, out |-> Probe(s, j)]
  ELSE LET j == IF Ends(i, f) THEN [i EXCEPT !.conflict = NoConflict] ELSE i
       IN  [i |-> Flushed(Learn(j, f), f), out |-> Answer(s, j, f)]

-------------------------------------------------------------------------------
Set(s, i, out) == st' = [st EXCEPT ![s] = i] /\ arpWire' = arpWire \o out
Same == UNCHANGED <<missed, arpEdits, arpSends>>
Edit == arpEdits < MaxArpEdits /\ arpEdits' = arpEdits + 1
\* a frame crosses the segment well before any timer ends
Quiet == arpWire = <<>>

\* the user changes the address of a host
Configure(s, a) ==
  LET i == Unlearned([ResetConflict(st[s]) EXCEPT !.ip = a])
      asks == i.up /\ a # NoIp
  IN  /\ a # st[s].ip /\ Edit
      /\ Set(s, IF asks THEN Claimed(i) ELSE i, IF asks THEN Probe(s, i) ELSE <<>>)
      /\ UNCHANGED <<missed, arpSends>>

LinkUp(s) ==
  LET i == [st[s] EXCEPT !.up = TRUE]
      asks == i.ip # NoIp
  IN  /\ ~st[s].up
      /\ Set(s, IF asks THEN Claimed(i) ELSE i, IF asks THEN Probe(s, i) ELSE <<>>)
      /\ Same

LinkDown(s) ==
  /\ st[s].up /\ Edit
  /\ st' = [st EXCEPT ![s] = [ClearPending(st[s]) EXCEPT !.up = FALSE]]
  /\ UNCHANGED <<arpWire, missed, arpSends>>

\* the probe's wait is over: the one of an earlier claim may end while the later one still asks
FinishProbe(s) ==
  LET i == [st[s] EXCEPT !.timers = @ - 1]
      j == [i EXCEPT !.probing = FALSE]
  IN  /\ st[s].timers > 0
      /\ st[s].timers = 1 => Quiet
      /\ Set(s, j, IF i.probing /\ i.up THEN Announce(s, j) ELSE <<>>)
      /\ Same

\* a packet for a: from the cache, or it waits and the first that waits asks
SendIp(s, a) ==
  /\ arpSends < MaxArpSends /\ arpSends' = arpSends + 1
  /\ st[s].up /\ Usable(st[s]) /\ a # st[s].ip
  /\ \/ st[s].cache[a] # "none" /\ UNCHANGED <<st, arpWire>>
     \* an entry of more than a minute is asked for again
     \/ LET i == [st[s] EXCEPT !.cache[a] = "none", !.pending = @ \cup {a}]
        IN  /\ st[s].cache[a] = "none" \/ Quiet
            /\ Set(s, i, IF a \in st[s].pending THEN <<>> ELSE Request(s, i, a))
  /\ UNCHANGED <<missed, arpEdits>>

\* one second without an answer, or the entry was learned another way: what waits is dropped
OnArpTimeout(s, a) ==
  /\ a \in st[s].pending /\ Quiet
  /\ st' = [st EXCEPT ![s].pending = @ \ {a}]
  /\ UNCHANGED arpWire /\ Same

\* ten seconds after a defence
DefendInterval(s) ==
  /\ st[s].defended /\ Quiet
  /\ st' = [st EXCEPT ![s].defended = FALSE]
  /\ UNCHANGED arpWire /\ Same

\* what an unplugged station does not hear matters only to what it remembers
Remembers(i) == i.conflict.mac # "none" \/ \E a \in ArpAddrs : i.cache[a] # "none"

\* the oldest frame arrives, but not where a cable is unplugged or drops it
Receive(lost) ==
  LET f == Head(arpWire)
      to == IF f.to = Everyone THEN Stations \ {f.mac} ELSE {f.to}
      heard == {s \in to \ lost : st[s].up}
      r(s) == HandleArp(s, st[s], f)
  IN  /\ arpWire # <<>> /\ lost \subseteq to
      /\ IF lost = {} THEN UNCHANGED arpEdits ELSE Edit
      /\ st' = [s \in Stations |-> IF s \in heard THEN r(s).i ELSE st[s]]
      /\ arpWire' = Tail(arpWire) \o FoldSet(LAMBDA s, out : out \o r(s).out, <<>>, heard)
      /\ missed' = missed \cup {s \in to \ heard : s \in lost \/ Remembers(st[s])}
      /\ UNCHANGED arpSends

Step ==
  \/ \E s \in Stations : \/ LinkUp(s) \/ LinkDown(s) \/ FinishProbe(s) \/ DefendInterval(s)
                         \/ \E a \in ArpAddrs : SendIp(s, a) \/ OnArpTimeout(s, a)
                         \/ \E a \in ArpAddrs \cup {NoIp} : Configure(s, a)
  \/ Receive({}) \/ \E s \in Stations : Receive({s})

Using(s, a) == st[s].up /\ st[s].ip = a /\ Usable(st[s])

Next ==
  /\ Step
  /\ sought' = {x \in Stations \X ArpAddrs \X Stations :
                  /\ x[2] \in st'[x[1]].pending /\ Using(x[3], x[2])'
                  /\ x \in sought \/ x[2] \notin st[x[1]].pending}

-------------------------------------------------------------------------------
\* the state has the shape the code relies on: only a station in conflict has given its address up
TypeOK ==
  /\ \A s \in Stations : /\ st[s].ip \in ArpAddrs \cup {NoIp} /\ st[s].timers \in Nat
                         /\ st[s].conflict.mac \in (Stations \ {s}) \cup {"none"}
                         /\ st[s].conflict.refused => st[s].conflict.mac # "none" /\ ~st[s].probing
                         /\ st[s].pending \subseteq ArpAddrs
                         /\ st[s].cache \in [ArpAddrs -> Stations \cup {"none"}]
  /\ missed \subseteq Stations

AtRest == Quiet /\ \A s \in Stations : st[s].timers = 0
Informed == Stations \ missed

\* Two stations that use one address both know that it is taken (onConflict), unless one of them
\* missed a frame.
ConflictsKnown ==
  AtRest => \A s, t \in Informed, a \in ArpAddrs :
    s # t /\ Using(s, a) /\ Using(t, a) => st[s].conflict.mac # "none" /\ st[t].conflict.mac # "none"

\* A packet does not wait in vain for a station that has used its address ever since it was asked
\* for: the answer, or the other's own request that crosses it, sends it off (handleArp).
NotInVain ==
  Quiet => \A x \in sought : ~(x[1] \in Informed /\ x[3] \in Informed)

\* A station that gave its address up for one that moved to another address takes it back
\* (handleArp, conflict cleared), unless it missed a frame.
TakesBack ==
  AtRest => \A s \in Informed, a \in ArpAddrs :
    st[s].up /\ st[s].conflict.refused /\ a # st[s].ip => ~Using(st[s].conflict.mac, a)
===============================================================================
