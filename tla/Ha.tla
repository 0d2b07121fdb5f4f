---------------------------------- MODULE Ha ----------------------------------
(***************************************************************************)
(* High availability: two gateways share a virtual address per interface   *)
(* and elect a master, VRRP style (src/src/core/nodes/ha.ts).  Adverts are *)
(* sent on a change; the periodic ones are an option, and its timers are   *)
(* background timers.                                                      *)
(*                                                                         *)
(* Each interface of a box hangs on an edge switch of its own; the edge    *)
(* switches of a segment are joined by a cable that can be pulled.  An     *)
(* advert travels from edge to edge in order, in a time the model counts   *)
(* as none; the timers are counted in Ticks of a third of a second.        *)
(***************************************************************************)
EXTENDS Naturals, Sequences, FiniteSets, SequencesExt

CONSTANTS
  Boxes,        \* the gateways, named by their router id (rid)
  Ifaces,       \* the interfaces with a virtual address
  Prios,        \* the priorities a user may set
  TopPrio,      \* the highest there may be (255 in the code)
  Adverts,      \* the settings of the periodic advert a box may have
  None,         \* no timer, nothing learnt, nobody
  MaxEdits,     \* bound: changes of the user
  MaxLosses     \* bound: adverts lost on a plugged cable

ASSUME HaAssumption ==
  /\ Boxes \subseteq Nat /\ IsFiniteSet(Boxes)
  /\ Ifaces # {} /\ IsFiniteSet(Ifaces)
  /\ TopPrio \in Nat /\ Prios \subseteq 1 .. TopPrio /\ Prios # {}
  /\ Adverts \subseteq BOOLEAN /\ Adverts # {}
  /\ None \notin Nat
  /\ MaxEdits \in Nat /\ MaxLosses \in Nat

VARIABLES
  box,      \* box[b]: configuration, election state, timers and cables of b
  wire,     \* wire[i][b]: the adverts on their way to b's edge on segment i
  joined,   \* the segments whose two edge switches are connected
  at,       \* at[i][b]: the box towards which b's edge switch knows the virtual MAC
  edits,    \* changes the user made so far
  losses    \* adverts lost so far

vars == <<box, wire, joined, at, edits, losses>>

-------------------------------------------------------------------------------
(* Timers, in Ticks *)
AdvertInterval == 3
MasterDown == 9
Skew(p) == TopPrio + 1 - p

(* What a box is *)
Fresh(prio, advert, up) ==
  [on |-> TRUE, prio |-> prio, advert |-> advert, state |-> "init", known |-> FALSE,
   ready |-> FALSE, armed |-> None, adv |-> None, watch |-> None, up |-> up]

Eff(x) == IF x.on /\ x.up = Ifaces THEN x.prio ELSE 0

Outranks(m, mine, b) == m.prio > mine \/ (m.prio = mine /\ m.from > b)

\* master adverts carry the virtual MAC as their source
Advert(x, b, p, cand) ==
  [from |-> b, prio |-> p, cand |-> cand, vmac |-> x.state = "master" /\ p > 0]

\* what is left of an advert whose cable was pulled: nothing arrives in its place
Vanished == [from |-> None, prio |-> 0, cand |-> FALSE, vmac |-> FALSE]
Vanish(s, b) == [k \in DOMAIN s |-> IF s[k].from = b THEN Vanished ELSE s[k]]

\* what a handler does: the box afterwards and the adverts it sends, in order
Does(x, out) == [box |-> x, out |-> out]
Quiet(x) == Does(x, <<>>)
Then(r, s) == Does(s.box, r.out \o s.out)

ScheduleAdvert(x) == IF x.advert THEN [x EXCEPT !.adv = AdvertInterval] ELSE x

Watch(x) == IF x.advert THEN [x EXCEPT !.watch = MasterDown + Skew(Eff(x))] ELSE x

Arm(x, t) == [x EXCEPT !.armed = t]

Start(x, b) ==
  LET y == [x EXCEPT !.state = "backup", !.ready = Eff(x) > 0]
  IN IF Eff(x) = 0 THEN Quiet(y)
     ELSE Does(Arm(y, MasterDown + Skew(Eff(x))), <<Advert(y, b, Eff(x), TRUE)>>)

BecomeMaster(x, b) ==
  LET y == [x EXCEPT !.state = "master", !.known = FALSE, !.watch = None]
  IN Does(ScheduleAdvert(y), <<Advert(y, b, y.prio, FALSE)>>)

\* mutant: a box that resigns does not watch its successor
ResignDeaf(x, b) ==
  LET y == [x EXCEPT !.state = "backup", !.adv = None]
  IN IF x.state # "master" THEN Quiet(x) ELSE Does(y, <<Advert(y, b, 0, FALSE)>>)

Resign(x, b) ==
  LET y == [x EXCEPT !.state = "backup", !.adv = None]
  IN IF x.state # "master" THEN Quiet(x)
     ELSE Does(Watch(y), <<Advert(y, b, 0, FALSE)>>)

OnLinks(x, b) ==
  LET y == [x EXCEPT !.ready = Eff(x) > 0]
  IN CASE ~x.on -> Quiet(x)
       [] x.on /\ x.state = "master" /\ Eff(x) = 0 -> Resign(y, b)
       [] x.on /\ x.state # "master" /\ Eff(x) > 0 /\ ~x.ready -> Start(y, b)
       [] OTHER -> Quiet(y)

\* only the periodic advert is switched: the election is left alone
SetAdvert(x, advert) ==
  LET y == [x EXCEPT !.advert = advert, !.adv = None, !.watch = None]
  IN IF x.state = "master" THEN ScheduleAdvert(y)
     ELSE IF x.known THEN Watch(y) ELSE y

\* mutant: the old election state outlives the new configuration
SetConfigKept(x, b, on, prio) ==
  LET r == Resign(x, b)
      y == [r.box EXCEPT !.on = on, !.prio = prio, !.known = FALSE,
                         !.adv = None, !.watch = None]
  IN IF on THEN Then(r, Start(y, b)) ELSE Then(r, Quiet(y))

SetConfig(x, b, on, prio) ==
  LET r == Resign(x, b)
      y == [r.box EXCEPT !.on = on, !.prio = prio, !.state = "init", !.known = FALSE,
                         !.adv = None, !.watch = None]
  IN IF on THEN Then(r, Start(y, b)) ELSE Then(r, Quiet(y))

\* mutant: joining the network again pokes nobody
PokeNobody(x, b) == Quiet(x)

Poke(x, b) ==
  IF x.on /\ x.state = "master" THEN Does(x, <<Advert(x, b, x.prio, FALSE)>>) ELSE Quiet(x)

-------------------------------------------------------------------------------
(* An advert is heard *)

\* mutant: a master is silent towards a worse one
HeardByMasterSilent(x, b, m) ==
  IF m.prio > 0 /\ Outranks(m, Eff(x), b)
    THEN Resign([x EXCEPT !.known = TRUE], b)
    ELSE Quiet(x)

\* a master: answers, or hands over to the better one
HeardByMaster(x, b, m) ==
  IF m.prio > 0 /\ Outranks(m, Eff(x), b)
    THEN Resign([x EXCEPT !.known = TRUE], b)
    ELSE Does(x, <<Advert(x, b, x.prio, FALSE)>>)

\* a backup hears that the master leaves
HeardLeave(x) ==
  IF Eff(x) = 0 THEN Quiet(x)
  ELSE Quiet(Arm([x EXCEPT !.known = FALSE], Skew(Eff(x))))

\* mutant: hearing the master does not restart the watch
HeardBetterOnce(x, m) ==
  IF m.cand THEN Quiet(x) ELSE Quiet([x EXCEPT !.armed = None, !.known = TRUE])

\* a backup hears a better box: a candidate is not master yet, so its own wait goes on
HeardBetter(x, m) ==
  IF m.cand THEN Quiet(x)
  ELSE Quiet(Watch([x EXCEPT !.armed = None, !.known = TRUE]))

\* a backup hears a worse box: it makes itself known and takes over
HeardWorse(x, b) == Does(Arm(x, Skew(Eff(x))), <<Advert(x, b, Eff(x), TRUE)>>)

Handle(x, b, m) ==
  CASE ~x.on -> Quiet(x)
    [] x.on /\ x.state = "master" -> HeardByMaster(x, b, m)
    [] x.on /\ x.state # "master" /\ m.prio = 0 -> HeardLeave(x)
    [] x.on /\ x.state # "master" /\ m.prio > 0 /\ Outranks(m, Eff(x), b) -> HeardBetter(x, m)
    [] OTHER -> HeardWorse(x, b)

-------------------------------------------------------------------------------
(* The network around the boxes *)

Hears(b, c) == \E i \in joined : i \in box[b].up /\ i \in box[c].up

\* the adverts of r leave box b on every interface whose cable is plugged
Sent(w, b, r) ==
  [i \in Ifaces |-> [c \in Boxes |->
     IF c # b /\ i \in joined /\ i \in r.box.up THEN w[i][c] \o r.out ELSE w[i][c]]]

\* the virtual MAC of a master's adverts is learnt at its own edge at once
Learnt(a, b, r) ==
  [i \in Ifaces |-> IF i \in r.box.up /\ \E k \in DOMAIN r.out : r.out[k].vmac
                      THEN [a[i] EXCEPT ![b] = b] ELSE a[i]]

\* every box c does r[c], at once, and sends at most one advert: those that reach b's edge
Speaks(r, i, c) == i \in r[c].box.up /\ r[c].out # <<>>
Arriving(r, j, i, b) ==
  LET s == SetToSeq({c \in Boxes \ {b} : i \in j /\ Speaks(r, i, c)})
  IN [k \in DOMAIN s |-> Head(r[s[k]].out)]

\* box b does r; w and a are the wires and the edge tables it finds
Act(b, r, w, a) ==
  /\ box' = [box EXCEPT ![b] = r.box]
  /\ wire' = Sent(w, b, r)
  /\ at' = Learnt(a, b, r)

\* an advert reaches b's edge switch, which learns from it, and b if it is plugged
Deliver(i, b) ==
  /\ wire[i][b] # <<>>
  /\ LET m == Head(wire[i][b])
         w == [wire EXCEPT ![i][b] = Tail(@)]
         a == IF m.vmac THEN [at EXCEPT ![i][b] = m.from] ELSE at
     IN Act(b, IF i \in box[b].up /\ m # Vanished THEN Handle(box[b], b, m) ELSE Quiet(box[b]), w, a)
  /\ UNCHANGED <<joined, edits, losses>>

\* an advert is lost on the way
Lose(i, b) ==
  /\ losses < MaxLosses /\ wire[i][b] # <<>>
  /\ wire' = [wire EXCEPT ![i][b] = Tail(@)]
  /\ losses' = losses + 1
  /\ UNCHANGED <<box, joined, at, edits>>

ExpireAdvert(b) ==
  LET x == [box[b] EXCEPT !.adv = None]
  IN /\ box[b].adv = 0
     /\ Act(b, IF x.on /\ x.state = "master"
                 THEN Does(ScheduleAdvert(x), <<Advert(x, b, x.prio, FALSE)>>)
                 ELSE Quiet(x), wire, at)
     /\ UNCHANGED <<joined, edits, losses>>

ExpireWatch(b) ==
  LET x == [box[b] EXCEPT !.watch = None]
  IN /\ box[b].watch = 0
     /\ Act(b, IF x.state = "master" \/ x.armed # None \/ Eff(x) = 0
                 THEN Quiet(x) ELSE BecomeMaster(x, b), wire, at)
     /\ UNCHANGED <<joined, edits, losses>>

ExpireArmed(b) ==
  LET x == [box[b] EXCEPT !.armed = None]
  IN /\ box[b].armed = 0
     /\ Act(b, IF x.state = "master" \/ Eff(x) = 0
                 THEN Quiet(x) ELSE BecomeMaster(x, b), wire, at)
     /\ UNCHANGED <<joined, edits, losses>>

Due(x) == x.adv = 0 \/ x.watch = 0 \/ x.armed = 0
Timed(x) == x.adv # None \/ x.watch # None \/ x.armed # None
InFlight == \E i \in Ifaces, b \in Boxes : wire[i][b] # <<>>

\* time passes: what is on the wire and what is due comes first
Down(t) == IF t = None THEN None ELSE t - 1
Tick ==
  /\ ~InFlight
  /\ \A b \in Boxes : ~Due(box[b])
  /\ \E b \in Boxes : Timed(box[b])
  /\ box' = [b \in Boxes |-> [box[b] EXCEPT !.adv = Down(@), !.watch = Down(@), !.armed = Down(@)]]
  /\ UNCHANGED <<wire, joined, at, edits, losses>>

-------------------------------------------------------------------------------
(* What the user changes *)

Edit == edits < MaxEdits /\ edits' = edits + 1

\* b's edge switch forgets what it learnt on its port to b
CableOut(b, i) ==
  /\ Edit /\ i \in box[b].up
  /\ \E keep \in BOOLEAN :  \* adverts of b already past its own cable go on
       LET x == [box[b] EXCEPT !.up = @ \ {i}]
           w == IF keep THEN wire
                ELSE [wire EXCEPT ![i] = [c \in Boxes |-> Vanish(@[c], b)]]
           a == IF at[i][b] = b THEN [at EXCEPT ![i][b] = None] ELSE at
       IN Act(b, OnLinks(x, b), w, a)
  /\ UNCHANGED <<joined, losses>>

\* cables are plugged and then every master is poked, in one synchronisation
Poked(bx, w, a, j) ==
  LET r == [b \in Boxes |-> Poke(bx[b], b)]
  IN /\ box' = bx
     /\ wire' = [i \in Ifaces |-> [c \in Boxes |-> w[i][c] \o Arriving(r, j, i, c)]]
     /\ at' = [i \in Ifaces |-> [c \in Boxes |-> IF Speaks(r, i, c) THEN c ELSE a[i][c]]]

CableIn(b, i) ==
  /\ Edit /\ i \notin box[b].up
  /\ LET r == OnLinks([box[b] EXCEPT !.up = @ \cup {i}], b)
     IN Poked([box EXCEPT ![b] = r.box], Sent(wire, b, r), Learnt(at, b, r), joined)
  /\ UNCHANGED <<joined, losses>>

\* each edge forgets what it learnt over the cable between the two
Split(i) ==
  /\ Edit /\ i \in joined
  /\ joined' = joined \ {i}
  /\ wire' = [wire EXCEPT ![i] = [c \in Boxes |-> <<>>]]
  /\ at' = [at EXCEPT ![i] = [c \in Boxes |-> IF @[c] = c THEN c ELSE None]]
  /\ UNCHANGED <<box, losses>>

Join(i) ==
  /\ Edit /\ i \notin joined
  /\ joined' = joined \cup {i}
  /\ Poked(box, wire, at, joined')
  /\ UNCHANGED losses

SwitchAdvert(b) ==
  /\ Edit /\ box[b].on
  /\ \E v \in Adverts \ {box[b].advert} : Act(b, Quiet(SetAdvert(box[b], v)), wire, at)
  /\ UNCHANGED <<joined, losses>>

Reconfigure(b) ==
  /\ Edit
  /\ \E on \in BOOLEAN, p \in Prios :
       /\ on # box[b].on \/ (on /\ p # box[b].prio)
       /\ Act(b, SetConfig(box[b], b, on, p), wire, at)
  /\ UNCHANGED <<joined, losses>>

-------------------------------------------------------------------------------
(* Every box has just been cabled and set up, and has started; the edge switches
   are all joined, or their cables have yet to be plugged *)
Init ==
  /\ joined \in {Ifaces, {}}
  /\ \E prio \in [Boxes -> Prios], advert \in Adverts :
       LET r == [b \in Boxes |-> Start(Fresh(prio[b], advert, Ifaces), b)]
       IN /\ box = [b \in Boxes |-> r[b].box]
          /\ wire = [i \in Ifaces |-> [c \in Boxes |-> Arriving(r, joined, i, c)]]
  /\ at = [i \in Ifaces |-> [b \in Boxes |-> None]]
  /\ edits = 0 /\ losses = 0

Work ==
  \/ \E i \in Ifaces, b \in Boxes : Deliver(i, b)
  \/ \E b \in Boxes : ExpireAdvert(b) \/ ExpireWatch(b) \/ ExpireArmed(b)
  \/ Tick

Change ==
  \/ \E b \in Boxes, i \in Ifaces : CableOut(b, i) \/ CableIn(b, i)
  \/ \E i \in Ifaces : Split(i) \/ Join(i)
  \/ \E b \in Boxes : SwitchAdvert(b) \/ Reconfigure(b)

Next == Work \/ Change \/ \E i \in Ifaces, b \in Boxes : Lose(i, b)

Spec == Init /\ [][Next]_vars

Rest == ~InFlight /\ \A b \in Boxes : ~Timed(box[b])

\* frames arrive, timers fire and, while any is set, time goes on
FairSpec == Spec /\ ([]<>Rest \/ []<><<Work>>_vars)
-------------------------------------------------------------------------------
(* Properties *)

Advertisement ==
  [from : Boxes \cup {None}, prio : Prios \cup {0}, cand : BOOLEAN, vmac : BOOLEAN]

Timer(top) == (0 .. top) \cup {None}

\* The state has its type; a box that is switched off has left the election
\* (setConfig) and one that is switched on takes part in it.
TypeOK ==
  /\ box \in [Boxes -> [on : BOOLEAN, prio : Prios, advert : BOOLEAN,
                        state : {"init", "backup", "master"}, known : BOOLEAN,
                        ready : BOOLEAN, armed : Timer(MasterDown + Skew(0)),
                        adv : Timer(AdvertInterval), watch : Timer(MasterDown + Skew(0)),
                        up : SUBSET Ifaces]]
  /\ \A i \in Ifaces, b \in Boxes :
       /\ wire[i][b] \in Seq(Advertisement)
       /\ at[i][b] \in Boxes \cup {None}
  /\ joined \subseteq Ifaces
  /\ edits \in 0 .. MaxEdits /\ losses \in 0 .. MaxLosses
  /\ \A b \in Boxes : box[b].on <=> box[b].state # "init"

Alive(b) == Eff(box[b]) > 0
Master(b) == box[b].state = "master"
Above(b, c) == box[b].prio > box[c].prio \/ (box[b].prio = box[c].prio /\ b > c)

\* A backup that could serve never just sits there: it is counting down to
\* become master, or it knows a master; and if adverts are periodic, a known
\* master is being watched (ha.ts:263, "so that it takes over again even if the
\* new master dies before its first advert").
SomebodyWaits ==
  \A b \in Boxes :
    (box[b].on /\ ~Master(b) /\ Alive(b)) =>
      \/ box[b].armed # None
      \/ box[b].known /\ (box[b].advert => box[b].watch # None)

\* Once the network rests without having lost an advert, two boxes that hear
\* each other are not both master: whoever cut the network and joined it again,
\* the two masters of the time in between have settled it (netSync.ts:184).
OneMaster ==
  (Rest /\ losses = 0) =>
    \A b, c \in Boxes : (b # c /\ Master(b) /\ Master(c)) => ~Hears(b, c)

\* Whenever nothing is on the wire and a single master is left, a frame to the
\* virtual MAC goes to that master from every edge switch connected to it, or is
\* flooded: no switch still points at the box that was master before (ha.ts:268).
WayToMaster ==
  (~InFlight /\ losses = 0) =>
    \A b \in Boxes :
      (Master(b) /\ \A c \in Boxes \ {b} : ~Master(c)) =>
        \A i \in Ifaces, c \in Boxes :
          (c = b \/ i \in joined) => at[i][c] \in {b, None}

Agreed ==
  \A b \in Boxes :
    Master(b) <=> /\ Alive(b)
                  /\ \A c \in Boxes \ {b} : (Alive(c) /\ Hears(b, c)) => Above(b, c)

\* With periodic adverts the boxes agree in the end, whatever was pulled, lost or
\* reconfigured: a box is master exactly if it can serve and is the best of those
\* it hears.  (Without them a master that dies silently goes unnoticed, ha.ts:15.)
Converges == <>[]((\A b \in Boxes : box[b].on => box[b].advert) => Agreed)
===============================================================================
