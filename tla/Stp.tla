-------------------------------- MODULE Stp ---------------------------------
(***************************************************************************)
(* Ethernet switches and their spanning tree: core/nodes/stp.ts and what   *)
(* core/nodes/switch.ts does around it.  Each switch keeps the best BPDU   *)
(* heard on every port, derives the root, its cost and the role of each    *)
(* port from them, and tells its neighbours when something has changed:    *)
(* there is no periodic BPDU and nothing heard expires by itself.          *)
(*                                                                         *)
(* Every cable has the same latency, so frames arrive in the order they    *)
(* were sent: those sent at one instant arrive at one instant, before the  *)
(* timers of that instant fire.  The user acts between the arrivals.       *)
(* A cable is plugged in the port of its own number at both                *)
(* ends.  A station sits on a port of its own at the switch Home and sends *)
(* broadcasts, by which the switches learn where it is.  All ports are in  *)
(* one VLAN, and no frame is lost on a cable that stays plugged in.        *)
(***************************************************************************)
EXTENDS Integers, Sequences, FiniteSets

CONSTANTS
    Switches,       \* their MAC addresses, numbers from 1 to MaxMac
    MaxMac,
    Links,          \* cables, which are also port numbers
    End1, End2,     \* the two switches a cable joins
    Prios,          \* bridge priorities the user may choose, the smaller the better
    DefaultPrio,    \* the priority a switch starts with
    MaxAge,         \* STP_MAX_AGE (20 in the code)
    PortCost,       \* STP_PORT_COST
    Home,           \* the switch of the station
    None,
    MaxEdits,       \* bound of the model: edits of the user
    MaxFrames       \* bound of the model: broadcasts of the station

\* What a switch tells its neighbours: its root and cost, itself, the port it speaks
\* from, the age of what it says and perhaps a topology change.
BpduType ==
    [kind : {"bpdu"}, root : Nat, cost : Nat, bridge : Nat, port : Links, age : 0 .. MaxAge + 1,
     tc : (Switches \X Nat) \cup {None}]

ASSUME StpAssumption ==
    /\ Switches \subseteq 1 .. MaxMac /\ MaxMac \in Nat
    /\ Links \subseteq Nat \ {0} /\ IsFiniteSet(Links)
    /\ End1 \in [Links -> Switches] /\ End2 \in [Links -> Switches]
    /\ \A l \in Links : End1[l] # End2[l]
    /\ Prios \subseteq Nat /\ DefaultPrio \in Nat /\ MaxAge \in Nat /\ PortCost \in Nat \ {0}
    /\ Home \in Switches /\ None \notin Nat \cup BpduType \cup (Switches \X Nat)
    /\ MaxEdits \in Nat /\ MaxFrames \in Nat

VARIABLES
    sw,     \* the state of each switch
    air,    \* frames on their way, those of one instant up to a Tick; behind the last
            \* Tick those sent at this instant
    due,    \* switches whose timer fires at this instant, in the order set
    edits,  \* edits of the user so far
    frames, \* broadcasts of the station so far
    stopped \* whether the tree has ever been switched off somewhere

vars == <<sw, air, due, edits, frames, stopped>>

Ports(s)       == {l \in Links : s \in {End1[l], End2[l]}}
Other(l, s)    == IF End1[l] = s THEN End2[l] ELSE End1[l]
StationPort    == 0

\* The cables that are plugged in; each end keeps its own record of it.
Plugged == {l \in Links : l \in sw[End1[l]].live}

-----------------------------------------------------------------------------
(* Vectors: the smaller the better (cmpId, cmpVec).                        *)

\* A bridge ID: the priority, then the MAC address.
Id(prio, mac) == prio * (MaxMac + 1) + mac
Me(s, w)      == Id(w.prio, s)

\* Lexicographic order of tuples of one length.
Better(u, v) ==
    \E i \in 1 .. Len(u) : u[i] < v[i] /\ \A j \in 1 .. i - 1 : u[j] = v[j]

Vector(b)         == <<b.root, b.cost, b.bridge, b.port>>
MyVector(s, w, l) == <<w.root, w.cost, Me(s, w), l>>

-----------------------------------------------------------------------------
(* The spanning tree of one switch s with state w.                         *)

Forwarding(w, l) == ~ w.on \/ l = StationPort \/ w.role[l] \in {"root", "designated"}

\* What has been heard on a connected port of a root better than myself.
Offers(s, w) == {l \in w.live : w.heard[l] # None /\ w.heard[l].root < Me(s, w)}

Offer(w, l) ==
    LET h == w.heard[l]
    IN  <<h.root, h.cost + PortCost, h.bridge, h.port, l>>

\* Mutant: the smaller port wins, whatever it leads to.
BestOfferNearest(s, w) == CHOOSE l \in Offers(s, w) : \A k \in Offers(s, w) : l <= k

BestOffer(s, w) ==
    CHOOSE l \in Offers(s, w) :
       \A k \in Offers(s, w) \ {l} : Better(Offer(w, l), Offer(w, k))

\* Step 1: the root, the port towards it, its cost.
Following(w, l) ==
    [w EXCEPT !.root = w.heard[l].root, !.cost = w.heard[l].cost + PortCost, !.port = l,
              !.age = w.heard[l].age + 1]

WithRoot(s, w) ==
    IF Offers(s, w) = {}
      THEN [w EXCEPT !.root = Me(s, w), !.cost = 0, !.port = None, !.age = 0]
      ELSE Following(w, BestOffer(s, w))

\* Step 2: the role of each port; the better end of a cable is its designated one.
RoleOf(s, w, l) ==
    IF l \notin Ports(s) THEN "none"
    ELSE IF l \notin w.live THEN "disabled"
    ELSE IF l = w.port THEN "root"
    ELSE IF w.heard[l] = None THEN "designated"
    ELSE IF Better(MyVector(s, w, l), Vector(w.heard[l])) THEN "designated"
    ELSE "alternate"

WithRoles(s, w) == [w EXCEPT !.role = [l \in Links |-> RoleOf(s, w, l)]]

Schedule(w) == [w EXCEPT !.pending = TRUE]

\* topologyChanged: the MAC table is emptied.
Flushed(w) == [w EXCEPT !.mac = None]

\* Mutant: the change is not told to the others.
TopologyChangeKept(s, w) == Flushed(w)

\* A topology change: empty the table and tell the others with the next BPDU.
TopologyChange(s, w) ==
    LET id == <<s, w.tcSeq + 1>>
    IN  [Flushed(w) EXCEPT !.tcSeq = @ + 1, !.tcSeen = @ \cup {id}, !.tcOut = id]

\* What has changed from v to w.
NewRoles(v, w)  == {l \in Links : w.role[l] \notin {v.role[l], "disabled"}}
LostPort(v, w)  == \E l \in Links : w.role[l] = "disabled" /\ v.role[l] \in {"root", "designated"}
MovedTree(v, w) == LostPort(v, w) \/ \E l \in NewRoles(v, w) : v.role[l] \notin {"none", "disabled"}
Changed(v, w)   ==
    \/ <<w.root, w.cost, w.port>> # <<v.root, v.cost, v.port>>
    \/ NewRoles(v, w) # {} \/ LostPort(v, w)

Recomputed(s, v, w) ==
    [changed |-> Changed(v, w), w |-> IF MovedTree(v, w) THEN TopologyChange(s, w) ELSE w]

\* Mutant: the neighbours are told even when nothing has changed.
ToldAlways(r, force) == [r EXCEPT !.w = Schedule(r.w)]

\* The neighbours are told of a change.
Told(r, force) == IF r.changed \/ force THEN [r EXCEPT !.w = Schedule(r.w)] ELSE r

\* recompute: [changed, w].
Recompute(s, v, force) == Told(Recomputed(s, v, WithRoles(s, WithRoot(s, v))), force)

Bpdu(s, w, l) ==
    [kind |-> "bpdu", root |-> w.root, cost |-> w.cost, bridge |-> Me(s, w), port |-> l,
     age |-> w.age, tc |-> w.tcOut]

\* withdraw: a BPDU beyond the age limit on every connected port.
Withdrawal(s, w, l) ==
    [kind |-> "bpdu", root |-> Me(s, w), cost |-> 0, bridge |-> Me(s, w), port |-> l,
     age |-> MaxAge + 1, tc |-> None]

\* Switching the tree off or on, or another priority: [w, said], said being
\* whether the old information is withdrawn.
SetConfig(s, w, on, prio) ==
    LET blank == [w EXCEPT !.on = on, !.prio = prio, !.heard = [l \in Links |-> None],
                           !.role = [l \in Links |-> "none"]]
    IN  [w |-> IF on THEN Recompute(s, blank, TRUE).w ELSE blank, said |-> w.on]

-----------------------------------------------------------------------------
(* Receiving a BPDU (handle): [w, reply], reply being whether the switch   *)
(* answers on that port at once.                                           *)

\* A topology change another switch has announced: spread once.
HeardTc(w, b) ==
    IF b.tc = None \/ b.tc \in w.tcSeen THEN w
    ELSE Schedule([Flushed(w) EXCEPT !.tcSeen = @ \cup {b.tc}, !.tcOut = b.tc])

\* Mutant: off by one.
TooOldLate(b) == b.age > MaxAge + 1

TooOld(b) == b.age > MaxAge

SameSender(h, b) == h # None /\ h.bridge = b.bridge /\ h.port = b.port

\* I am in charge of this cable and the other end thinks worse of it.
MustTell(s, w, l, b) == w.role[l] = "designated" /\ Better(MyVector(s, w, l), Vector(b))

Replied(s, l, b, r) == [w |-> r.w, reply |-> ~ TooOld(b) /\ ~ r.changed /\ MustTell(s, r.w, l, b)]

\* Whether b, which is withdrawn if it is too old, does not touch what was heard.
Refused(h, b) == ~ SameSender(h, b) /\ (TooOld(b) \/ (h # None /\ ~ Better(Vector(b), Vector(h))))

Believe(s, w, l, b) ==
    IF Refused(w.heard[l], b)
      THEN [w |-> w, reply |-> ~ TooOld(b) /\ MustTell(s, w, l, b)]
      ELSE Replied(s, l, b,
             Recompute(s, [w EXCEPT !.heard[l] = IF TooOld(b) THEN None ELSE b], FALSE))

Handle(s, w, l, b) == Believe(s, HeardTc(w, b), l, b)

-----------------------------------------------------------------------------
(* The switches.                                                           *)

\* The ports S in the order of their numbers.
Ascending(S) ==
    CHOOSE q \in [1 .. Cardinality(S) -> S] : \A i, j \in 1 .. Cardinality(S) : i < j => q[i] < q[j]

\* The frames that s puts on the ports ls, one port after the other: what[l] on port l.
Frames(s, ls, what) ==
    LET q == Ascending(ls)
    IN  [i \in 1 .. Cardinality(ls) |-> [to |-> Other(q[i], s), on |-> q[i], is |-> what[q[i]], via |-> {}]]

Tick == [to |-> None, on |-> None, is |-> [kind |-> "tick"], via |-> {}]

\* Switch s has worked: its state is w.
Worked(s, w) ==
    /\ sw' = [sw EXCEPT ![s] = w]
    /\ due' = IF w.pending /\ ~ sw[s].pending THEN Append(due, s) ELSE due

Comes(kind) == air # <<>> /\ Head(air).is.kind = kind

\* onTimer: the changes of one instant are told together.
SendTimer ==
    /\ Comes("tick") /\ due # <<>>
    /\ LET s == Head(due)
           w == sw[s]
       IN  /\ sw' = [sw EXCEPT ![s].pending = FALSE, ![s].tcOut = IF w.on THEN None ELSE @]
           /\ air' = IF w.on THEN air \o Frames(s, {l \in w.live : w.role[l] # "none"},
                                                [l \in w.live |-> Bpdu(s, w, l)])
                             ELSE air
    /\ due' = Tail(due)
    /\ UNCHANGED <<edits, frames, stopped>>

\* flood: all other ports that forward.
Flood(w, l) == {k \in w.live \ {l} : Forwarding(w, k)}

\* The frame that comes first is received, and sent are the frames sent upon it.
Received(sent) == air' = Tail(air) \o sent /\ UNCHANGED <<edits, frames, stopped>>

ReceiveBpdu ==
    /\ Comes("bpdu")
    /\ LET s == Head(air).to
           l == Head(air).on
           r == Handle(s, sw[s], l, Head(air).is)
       IN  /\ sw[s].on
           /\ Worked(s, r.w)
           /\ Received(Frames(s, IF r.reply THEN {l} ELSE {}, [k \in {l} |-> Bpdu(s, r.w, k)]))

\* A switch without the tree passes BPDUs on like any multicast, once.
PassBpdu ==
    /\ Comes("bpdu")
    /\ LET f == Head(air)
           s == f.to
           ls == Flood(sw[s], f.on)
           copies == Frames(s, ls, [k \in ls |-> f.is])
       IN  /\ ~ sw[s].on
           /\ Worked(s, sw[s])
           /\ Received(IF s \in f.via THEN <<>>
                       ELSE [i \in DOMAIN copies |-> [copies[i] EXCEPT !.via = f.via \cup {s}]])

\* A broadcast of the station: learn its port unless the frame was here
\* before (guardLoop) or the port is blocked, and flood it.
ReceiveData ==
    /\ Comes("data")
    /\ LET s == Head(air).to
           l == Head(air).on
           w == sw[s]
           d == Head(air).is
           ls == Flood(w, l)
       IN  IF Forwarding(w, l) /\ d.id \notin w.seen
             THEN /\ Worked(s, [w EXCEPT !.mac = l, !.seen = @ \cup {d.id}])
                  /\ Received(Frames(s, ls, [k \in ls |-> d]))
             ELSE Worked(s, w) /\ Received(<<>>)

\* A frame whose cable was pulled meets nobody.
ReceiveLost == Comes("lost") /\ Received(<<>>) /\ UNCHANGED <<sw, due>>

\* The instant is over; the next frames arrive, or the user acts in between.
Rests  == Comes("tick") /\ due = <<>>
Spoken == air[Len(air)] # Tick
Ended  == IF Spoken THEN Append(air, Tick) ELSE air

\* Nothing is under way and no switch has anything to tell.
Settled == Rests /\ Len(air) = 1

Arrive == Rests /\ ~ Settled /\ air' = Tail(Ended) /\ UNCHANGED <<sw, due, edits, frames, stopped>>

TimePasses ==
    /\ Rests /\ Spoken /\ edits < MaxEdits
    /\ air' = Ended
    /\ UNCHANGED <<sw, due, edits, frames, stopped>>

-----------------------------------------------------------------------------
(* The station and the user.                                               *)

\* The station talks while the network is at rest, and the user waits for it
\* (what a frame teaches that meets a reconvergence is not looked at here).
Talk ==
    /\ Settled /\ frames < MaxFrames
    /\ frames' = frames + 1
    /\ LET w == sw[Home]
           ls == Flood(w, StationPort)
       IN  /\ Worked(Home, [w EXCEPT !.mac = StationPort, !.seen = @ \cup {frames + 1}])
           /\ air' = air \o Frames(Home, ls, [l \in ls |-> [kind |-> "data", id |-> frames + 1]])
    /\ UNCHANGED <<edits, stopped>>

DataUnderWay == \E i \in DOMAIN air : air[i].is.kind = "data"

Editing ==
    /\ Comes("tick") /\ edits < MaxEdits /\ ~ DataUnderWay
    /\ edits' = edits + 1
    /\ UNCHANGED frames

\* What a switch knows after a change of one of its links.
Relinked(s, w, force) == IF w.on THEN Recompute(s, w, force).w ELSE w

\* onLink(false): what was learnt and heard on the port is forgotten.
LinkDown(s, l) ==
    Relinked(s, [sw[s] EXCEPT !.live = @ \ {l}, !.mac = IF @ = l THEN None ELSE @,
                              !.heard[l] = IF sw[s].on THEN None ELSE @], FALSE)

LinkUp(s, l) == Relinked(s, [sw[s] EXCEPT !.live = @ \cup {l}], TRUE)

\* The ends of cable l have worked, the first end first: new is their state.
BothEnds(l, new) ==
    LET set(s) == IF new[s].pending /\ ~ sw[s].pending THEN <<s>> ELSE <<>>
    IN  /\ sw' = [s \in Switches |-> IF s \in {End1[l], End2[l]} THEN new[s] ELSE sw[s]]
        /\ due' = due \o set(End1[l]) \o set(End2[l])

\* A cable is pulled, with what is on it, or plugged in.
CableOut(l) ==
    /\ Editing /\ l \in Plugged
    /\ BothEnds(l, [s \in {End1[l], End2[l]} |-> LinkDown(s, l)])
    /\ air' = [i \in DOMAIN air |-> IF air[i].on = l THEN [air[i] EXCEPT !.is = [kind |-> "lost"]] ELSE air[i]]
    /\ UNCHANGED stopped

CableIn(l) ==
    /\ Editing /\ l \notin Plugged
    /\ BothEnds(l, [s \in {End1[l], End2[l]} |-> LinkUp(s, l)])
    /\ UNCHANGED <<air, stopped>>

SetStp(s, on, prio) ==
    LET w == sw[s]
        r == SetConfig(s, w, on, prio)
    IN  /\ Editing
        /\ IF w.on THEN <<on, prio>> # <<TRUE, w.prio>> ELSE on
        /\ Worked(s, r.w)
        /\ air' = air \o Frames(s, IF r.said THEN w.live ELSE {}, [l \in w.live |-> Withdrawal(s, w, l)])
        /\ stopped' = (stopped \/ ~ on)

-----------------------------------------------------------------------------
NewSwitch ==
    [on |-> FALSE, prio |-> DefaultPrio, live |-> {}, heard |-> [l \in Links |-> None],
     role |-> [l \in Links |-> "none"], root |-> 0, cost |-> 0, port |-> None, age |-> 0,
     pending |-> FALSE, tcSeq |-> 0, tcSeen |-> {}, tcOut |-> None, mac |-> None, seen |-> {}]

\* The switches are added with the tree on, then the cables are plugged in.
Init ==
    /\ LET new(s)  == SetConfig(s, NewSwitch, TRUE, DefaultPrio).w
           live(s) == [new(s) EXCEPT !.live = Ports(s)]
       IN  sw = [s \in Switches |-> Recompute(s, live(s), TRUE).w]
    /\ due = Ascending(Switches)
    /\ air = <<Tick>>
    /\ edits = 0 /\ frames = 0 /\ stopped = FALSE

Work == SendTimer \/ ReceiveBpdu \/ PassBpdu \/ ReceiveData \/ ReceiveLost \/ Arrive

Next ==
    \/ Work \/ TimePasses \/ Talk
    \/ \E l \in Links : CableOut(l) \/ CableIn(l)
    \/ \E s \in Switches, on \in BOOLEAN, prio \in Prios : SetStp(s, on, prio)

Spec == Init /\ [][Next]_vars

\* The scheduler delivers every frame and fires every timer: WF_vars(Work),
\* where Work is enabled until things have settled.
FairSpec == Spec /\ ([]<>Settled \/ []<><<Work>>_vars)

\* An instance for TLC: three switches, of which each is joined to the next by a cable.
RingEnd1 == [l \in Links |-> IF l = 3 THEN 1 ELSE l]
RingEnd2 == [l \in Links |-> IF l = 3 THEN 3 ELSE l + 1]

-----------------------------------------------------------------------------
(* Properties.                                                             *)

DataType == [kind : {"data"}, id : 1 .. MaxFrames]
FrameType ==
    [to : Switches, on : Links, is : BpduType \cup DataType \cup {[kind |-> "lost"]}, via : SUBSET Switches]
Roles == {"none", "root", "designated", "alternate", "disabled"}

\* TypeOK: what is heard is never older than MaxAge, only a withdrawal is.
TypeOK ==
    /\ air \in Seq(FrameType \cup {Tick})
    /\ \A s \in Switches :
          /\ sw[s].live \subseteq Ports(s) /\ sw[s].role \in [Links -> Roles]
          /\ (sw[s].on => sw[s].port \in sw[s].live \cup {None}) /\ sw[s].age \in 0 .. MaxAge + 1
          /\ \A l \in Links : sw[s].heard[l] # None =>
                sw[s].heard[l] \in BpduType /\ sw[s].heard[l].age <= MaxAge

\* The cables over which both ends forward.
Active == {l \in Plugged : Forwarding(sw[End1[l]], l) /\ Forwarding(sw[End2[l]], l)}

\* The cables E connect s and t, directly or through others: a set of switches that
\* no cable of E leaves holds both or neither.
Joined(E, s, t) ==
    \A S \in SUBSET Switches :
       (\A l \in E : End1[l] \in S <=> End2[l] \in S) => (s \in S <=> t \in S)

\* All have run the tree from the start.
NeverStopped == ~ stopped

\* All switches that are connected follow the same root, the best of them.
OneRoot ==
    Settled /\ NeverStopped =>
       \A s \in Switches :
          LET ids == {Me(t, sw[t]) : t \in {u \in Switches : Joined(Plugged, s, u)}}
          IN  sw[s].root \in ids /\ \A id \in ids : sw[s].root <= id

\* RootsExist: stp.ts:11 says that when a root vanishes what is left of it ages
\* away and all gather at a new root.  So once things have settled the root of
\* a switch with the tree is one it is connected to, even if switches without
\* the tree lie between.
RootsExist ==
    Settled =>
       \A s \in Switches : sw[s].on =>
          \E t \in Switches : sw[s].root = Me(t, sw[t]) /\ Joined(Plugged, s, t)

\* The cables that forward are a spanning tree: they join all that is
\* connected, and no cable closes a loop.
SpanningTree ==
    Settled /\ NeverStopped =>
       /\ \A s, t \in Switches : Joined(Plugged, s, t) => Joined(Active, s, t)
       /\ \A l \in Active : ~ Joined(Active \ {l}, End1[l], End2[l])

\* Once things have settled, the switches, each of which decides for itself,
\* agree on a root and on a tree.
OneTree == OneRoot /\ SpanningTree

\* Then what a switch has learnt about the station leads to it: the next
\* switch on the way is nearer to it, and has not lost the way itself.
WayHome ==
    Settled /\ NeverStopped =>
       \A s \in Switches : sw[s].mac \in Links =>
          /\ sw[s].mac \in Active
          /\ Joined(Active \ {sw[s].mac}, Other(sw[s].mac, s), Home)

\* However the cables and priorities are changed, the talk of the switches
\* comes to an end: information about a root that is gone ages away.
ComesToRest == []<>Settled
=============================================================================
