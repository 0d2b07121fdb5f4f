------------------------------ MODULE Network -------------------------------
(***************************************************************************)
(* The event kernel of the simulator: core/network.ts with the two clocks  *)
(* that drive it, model/sim.ts and model/simClock.ts, and the order in     *)
(* which model/netSync.ts applies the user's edits.                        *)
(*                                                                         *)
(* Time is counted in half milliseconds: events lie on whole milliseconds, *)
(* the animation clock and the vanishing of a lost frame need not.  The    *)
(* two heaps are sets ordered by (time, priority, sequence number), which  *)
(* Scheduler.tla shows them to be.  A device is any code that reacts to    *)
(* receive, onTimer, onLink and onRemove through its NodeContext: while a  *)
(* callback runs (the head of calls) it may send, set and cancel timers in *)
(* any order, then it returns.                                             *)
(***************************************************************************)
EXTENDS Integers, Sequences, FiniteSets

CONSTANTS
    Nodes,      \* device ids
    Links,      \* cable ids
    End1, End2, \* the two devices a cable joins (each cable has its own ports)
    Lossy,      \* cables the user gave a loss rate
    Latency,    \* ticks a frame spends on a cable
    Delays,     \* ticks a device waits for a timer
    Frames,     \* ticks of simulated time per screen frame
    Forwards,   \* ticks the user fast-forwards
    Retain,     \* ticks a transmission is kept after its arrival (5 s in the code)
    BurstLimit, \* events one screen frame may process (4000 in the code)
    None,
    \* Bounds of the model.
    MaxSeq,     \* events created
    MaxTime,    \* instant up to which the clocks are driven
    MaxLife     \* times each device is added, each cable plugged

ASSUME NetworkAssumption ==
    /\ End1 \in [Links -> Nodes] /\ End2 \in [Links -> Nodes]
    /\ Lossy \subseteq Links /\ None \notin Nodes
    /\ Latency \in Nat \ {0} /\ Delays \subseteq Nat
    /\ Frames \subseteq Nat /\ Forwards \subseteq Nat
    /\ Retain \in Nat /\ BurstLimit \in Nat
    /\ MaxSeq \in Nat /\ MaxTime \in Nat /\ MaxLife \in [Nodes \cup Links -> Nat]

VARIABLES
    nodes,      \* devices in the network
    life,       \* how often each id has been added (ghost)
    links,      \* cables plugged in
    plugs,      \* how often each cable has been plugged in (ghost)
    dropNext,   \* cables that will lose the next frame
    txs,        \* transmissions, with their deliver event while queued
    timers,     \* pending timers, foreground (sched) and background (bg)
    actions,    \* user actions scheduled and not yet run
    seq,        \* sequence numbers given out
    now,        \* time of the last event processed
    shown,      \* simTime, the time on the screen
    job,        \* what SimController is in the middle of
    removing,   \* the device removeNode is taking out
    calls       \* callbacks to run to completion, the running one first

queues == <<txs, timers, actions, seq>>
graph  == <<nodes, life, links, plugs, dropNext>>
vars   == <<graph, queues, now, shown, job, removing, calls>>

MaxOf(a, b) == IF a >= b THEN a ELSE b
MinOf(a, b) == IF a <= b THEN a ELSE b

\* Math.ceil of a time in ms, in ticks of half a millisecond.
CeilMs(t) == IF t % 2 = 0 THEN t ELSE t + 1

-----------------------------------------------------------------------------
(* The two queues.                                                         *)

LiveTx(x)    == x.queued /\ ~ x.lost
LiveTimer(t) == t.node \in nodes

Key(time, priority, id) == [time |-> time, priority |-> priority, id |-> id]
TxKey(x)     == Key(x.arrive, 0, x.id)
TimerKey(t)  == Key(t.time, 0, t.id)
ActionKey(a) == Key(a.time, 1, a.id)

Sched ==
    {TxKey(x) : x \in {y \in txs : LiveTx(y)}}
      \cup {TimerKey(t) : t \in {u \in timers : ~ u.background /\ LiveTimer(u)}}
      \cup {ActionKey(a) : a \in actions}

Background == {TimerKey(t) : t \in {u \in timers : u.background /\ LiveTimer(u)}}

Before(a, b) ==
    \/ a.time < b.time
    \/ a.time = b.time /\ a.priority < b.priority
    \/ a.time = b.time /\ a.priority = b.priority /\ a.id < b.id

IsFirst(k, S) == k \in S /\ \A e \in S \ {k} : Before(k, e)

NothingUntil(S, limit) == \A e \in S : e.time > limit

\* peekNextTime and peekBackgroundTime throw away the timers of removed
\* devices they meet at the head of their heap; the ones further back stay.
Buried(t, S)  == \E e \in S : Before(e, TimerKey(t))
SchedPeeked   == {t \in timers : LiveTimer(t) \/ t.background \/ Buried(t, Sched)}
\* Mutant: timers of removed devices stay in the queues for ever.
ReachableAlways == timers
Reachable     == {t \in SchedPeeked : LiveTimer(t) \/ ~ t.background \/ Buried(t, Background)}


\* Frames on a cable at instant t, the lost ones until they vanish.
InFlight(t) == {x \in txs : x.depart <= t /\ t < (IF x.lost THEN x.lostAt ELSE x.arrive)}

-----------------------------------------------------------------------------
(* What a device does inside a callback (NodeContext).                     *)

\* A callback waiting to run: whether the frames it sends are marked
\* graceful, and the frame or the timer it is about.
Call(n, graceful) == [node |-> n, graceful |-> graceful, tx |-> None, timer |-> None]
Receive(x) == [Call(x.to, FALSE) EXCEPT !.tx = x]
Expire(t)  == [Call(t.node, FALSE) EXCEPT !.timer = t]

CallIfThere(n, graceful) == IF n \in nodes THEN <<Call(n, graceful)>> ELSE <<>>

Self == Head(calls).node

OtherEnd(l, n) == IF End1[l] = n THEN End2[l] ELSE End1[l]

\* send on a port whose cable is plugged; on any other port nothing happens.
CtxSend(l) ==
    /\ calls # <<>> /\ seq < MaxSeq
    /\ l \in links /\ Self \in {End1[l], End2[l]}
    /\ \E lost \in (IF dropNext[l] THEN {TRUE} ELSE {FALSE} \cup {l \in Lossy}) :
          txs' = txs \cup
            {[id |-> seq, link |-> l, plug |-> plugs[l], to |-> OtherEnd(l, Self),
              depart |-> now, arrive |-> now + Latency,
              lost |-> lost, lostAt |-> now + (11 * Latency) \div 20,
              graceful |-> Head(calls).graceful, queued |-> ~ lost]}
    /\ dropNext' = [dropNext EXCEPT ![l] = FALSE]
    /\ seq' = seq + 1
    /\ UNCHANGED <<nodes, life, links, plugs, timers, actions, now, shown, job, removing, calls>>

\* The ghost late marks a timer set while its device is being taken out.
CtxTimer(delay, background) ==
    /\ calls # <<>> /\ seq < MaxSeq
    /\ timers' = timers \cup
         {[id |-> seq, node |-> Self, life |-> life[Self], time |-> now + delay,
           background |-> background, late |-> removing = Self]}
    /\ seq' = seq + 1
    /\ UNCHANGED <<graph, txs, actions, now, shown, job, removing, calls>>

\* TimerHandle.cancel: a cancelled timer is skipped wherever it is met.
CtxCancel(t) ==
    /\ calls # <<>> /\ t \in timers /\ t.node = Self
    /\ timers' = timers \ {t}
    /\ UNCHANGED <<graph, txs, actions, seq, now, shown, job, removing, calls>>

Return ==
    /\ calls # <<>>
    /\ calls' = Tail(calls)
    /\ UNCHANGED <<graph, queues, now, shown, job, removing>>

-----------------------------------------------------------------------------
(* Firing one event (stepUntil).                                           *)

\* The background timer that is due before every normal event.
FireBackground(t, limit) ==
    /\ t.background /\ LiveTimer(t) /\ IsFirst(TimerKey(t), Background)
    /\ t.time <= limit /\ NothingUntil(Sched, t.time)
    /\ now' = t.time
    /\ timers' = Reachable \ {t}
    /\ calls' = <<Expire(t)>>
    /\ UNCHANGED <<txs, actions>>

\* Mutant: any normal event that is due fires.
MayFireAny(key, limit) == key \in Sched /\ key.time <= limit

\* A normal event may fire when no background timer is strictly earlier.
MayFire(key, limit) ==
    /\ IsFirst(key, Sched) /\ key.time <= limit
    /\ \A e \in Background : e.time >= key.time

FireDeliver(x, limit) ==
    /\ LiveTx(x) /\ MayFire(TxKey(x), limit)
    /\ now' = x.arrive
    /\ timers' = Reachable
    /\ LET arrives == x.to \in nodes /\ (x.link \in links \/ x.graceful)
           after   == [x EXCEPT !.queued = FALSE, !.lost = ~ arrives,
                                !.lostAt = IF arrives THEN @ ELSE x.depart]
       IN  /\ txs' = (txs \ {x}) \cup {after}
           /\ calls' = IF arrives THEN <<Receive(x)>> ELSE <<>>
    /\ UNCHANGED actions

FireTimer(t, limit) ==
    /\ ~ t.background /\ LiveTimer(t) /\ MayFire(TimerKey(t), limit)
    /\ now' = t.time
    /\ timers' = Reachable \ {t}
    /\ calls' = <<Expire(t)>>
    /\ UNCHANGED <<txs, actions>>

FireAction(a, limit) ==
    /\ MayFire(ActionKey(a), limit)
    /\ now' = a.time
    /\ timers' = Reachable
    /\ actions' = actions \ {a}
    /\ calls' = CallIfThere(a.node, FALSE)
    /\ UNCHANGED txs

Fire(limit) ==
    \/ \E t \in timers : FireBackground(t, limit) \/ FireTimer(t, limit)
    \/ \E x \in txs : FireDeliver(x, limit)
    \/ \E a \in actions : FireAction(a, limit)

\* Mutant: only the background timers are looked at.
NothingToFireQuietly(limit) == NothingUntil(Background, limit)

NothingToFire(limit) == NothingUntil(Sched, limit) /\ NothingUntil(Background, limit)

-----------------------------------------------------------------------------
(* SimController: what the user does, and the screen frames in between.    *)

Job(kind, node, limit) ==
    [kind |-> kind, node |-> node, limit |-> limit, count |-> 0, gone |-> {}]
NoJob == Job("idle", None, 0)
Idle  == job.kind = "idle" /\ calls = <<>>

\* settleTimeOf: the instant the user intervenes, a whole millisecond.
SettleTime == MaxOf(now, CeilMs(shown))

\* act, sync and fastForward first bring the network to the shown time.
Begin(kind, node, more) ==
    /\ Idle
    /\ shown' = SettleTime
    /\ job' = Job(kind, node, SettleTime + more)
    /\ UNCHANGED <<graph, queues, now, removing, calls>>

Act(n) == n \in nodes /\ seq < MaxSeq /\ Begin("act", n, 0)

Sync == Begin("sync", None, 0)

FastForward(ms) == shown + ms <= MaxTime /\ Begin("forward", None, ms)

\* runUntil: every event up to the limit, then the clock stands on it.
Running == calls = <<>> /\ job.kind \in {"act", "post", "sync", "forward"}

RunStep ==
    /\ Running
    /\ Fire(job.limit)
    /\ UNCHANGED <<graph, seq, shown, job, removing>>

RunEnd(kind) ==
    /\ Running /\ job.kind = kind /\ NothingToFire(job.limit)
    /\ now' = MaxOf(now, job.limit)
    /\ timers' = Reachable
    /\ UNCHANGED <<graph, txs, removing, calls>>

\* act: the action is scheduled for this instant and run at once.
ActPost ==
    /\ RunEnd("act")
    /\ actions' = actions \cup {[id |-> seq, node |-> job.node, time |-> now']}
    /\ seq' = seq + 1
    /\ job' = Job("post", None, now')
    /\ UNCHANGED shown

ActEnd == RunEnd("post") /\ job' = NoJob /\ UNCHANGED <<actions, seq, shown>>

ForwardEnd ==
    /\ RunEnd("forward")
    /\ shown' = now' /\ job' = NoJob
    /\ UNCHANGED <<actions, seq>>

SyncSettled ==
    /\ RunEnd("sync")
    /\ job' = Job("edit", None, 0)
    /\ UNCHANGED <<actions, seq, shown>>

\* The user loses the next frame on a cable (dropNextOn).
DropNextOn(l) ==
    /\ Idle /\ l \in links /\ ~ dropNext[l]
    /\ dropNext' = [dropNext EXCEPT ![l] = TRUE]
    /\ UNCHANGED <<nodes, life, links, plugs, queues, now, shown, job, removing, calls>>

\* step(): one event while paused.
StepOne ==
    /\ Idle
    /\ \E e \in Sched : Fire(e.time) /\ IsFirst(e, Sched)
    /\ shown' = now'
    /\ UNCHANGED <<graph, seq, job, removing>>

\* advanceClock: the time on the screen moves while something can happen.
FrameBegin(dt) ==
    /\ Idle /\ shown + dt <= MaxTime
    /\ Sched # {} \/ InFlight(shown) # {}
    /\ job' = Job("frame", None, shown + dt)
    /\ timers' = SchedPeeked
    /\ UNCHANGED <<graph, txs, actions, seq, now, shown, removing, calls>>

\* Nothing pending and nothing moving: the clock stands still.
FrameQuiet ==
    /\ Idle /\ Sched = {} /\ InFlight(shown) = {}
    /\ timers' = SchedPeeked
    /\ UNCHANGED <<graph, txs, actions, seq, now, shown, job, removing, calls>>

\* pruneTransmissions(r.time - 5000), at the end of every frame.
Pruned(xs, t) == {x \in xs : x.arrive + Retain >= t}

\* An event of the frame; a frame with too many of them stops at the event.
FrameFire(limit, t) ==
    /\ Fire(limit)
    /\ job' = IF job.count + 1 > BurstLimit
                THEN Job("burst", None, now')
                ELSE [job EXCEPT !.limit = t, !.count = @ + 1]
    /\ UNCHANGED <<graph, seq, shown, removing>>

InFrame == job.kind = "frame" /\ calls = <<>> /\ Sched # {}

\* The next event is due in this frame.
FrameStep ==
    /\ InFrame
    /\ \E e \in Sched : /\ IsFirst(e, Sched) /\ e.time <= job.limit
                        /\ FrameFire(e.time, job.limit)

\* A frame on a cable holds the clock; background timers it passes fire.
FramePass ==
    /\ InFrame /\ NothingUntil(Sched, job.limit) /\ InFlight(job.limit) # {}
    /\ FrameFire(job.limit, job.limit)

\* Nothing moves: jump to the next event, or to a background timer before it.
FrameJump ==
    /\ InFrame /\ NothingUntil(Sched, job.limit) /\ InFlight(job.limit) = {}
    /\ \E e \in Sched :
          /\ IsFirst(e, Sched)
          /\ \E t \in {e.time} \cup {b.time : b \in Background} :
                /\ \A u \in {e.time} \cup {b.time : b \in Background} : t <= u
                /\ FrameFire(e.time, t)

FrameEnd ==
    /\ calls = <<>>
    /\ \/ job.kind = "frame" /\ Sched = {}
          /\ timers' = SchedPeeked
       \/ job.kind = "frame" /\ Sched # {}
          /\ NothingToFire(job.limit) /\ InFlight(job.limit) # {}
          /\ timers' = Reachable
       \/ job.kind = "burst" /\ UNCHANGED timers
    /\ shown' = job.limit /\ job' = NoJob
    /\ txs' = Pruned(txs, job.limit)
    /\ UNCHANGED <<graph, actions, seq, now, removing, calls>>

-----------------------------------------------------------------------------
(* The edits of one sync, in its order: devices out, cables out, devices   *)
(* in or reconfigured, cables in.  What a sync takes out it does not put   *)
(* back.  job.count is the phase.                                          *)

Editing(phase) ==
    /\ job.kind = "edit" /\ calls = <<>> /\ removing = None /\ job.count <= phase

Edited(phase, gone) ==
    job' = [job EXCEPT !.count = phase, !.gone = @ \cup gone]

\* Mutant: the timers of a removed device are left.
RemoveNodeWithTimers(n) ==
    /\ Editing(0) /\ n \in nodes
    /\ removing' = n
    /\ calls' = <<Call(n, TRUE)>>
    /\ Edited(0, {n} \cup {l \in Links : n \in {End1[l], End2[l]}})
    /\ UNCHANGED <<graph, txs, timers, actions, seq, now, shown>>

\* removeNode cancels the device's timers and runs onRemove; then its cables
\* are unplugged one by one (RemoveUnplug), then it is gone (RemoveEnd).
RemoveNode(n) ==
    /\ Editing(0) /\ n \in nodes
    /\ timers' = {t \in timers : t.node # n}
    /\ removing' = n
    /\ calls' = <<Call(n, TRUE)>>
    /\ Edited(0, {n} \cup {l \in Links : n \in {End1[l], End2[l]}})
    /\ UNCHANGED <<graph, txs, actions, seq, now, shown>>

\* Mutants: the frames under way are kept; the graceful ones are lost too.
DisconnectKeeping(l) ==
    /\ l \in links
    /\ links' = links \ {l}
    /\ calls' = CallIfThere(End1[l], TRUE) \o CallIfThere(End2[l], TRUE)
    /\ UNCHANGED <<nodes, life, plugs, dropNext, txs, timers, actions, seq, now, shown>>
DisconnectLosingAll(l) ==
    /\ l \in links
    /\ links' = links \ {l}
    /\ txs' = {IF x.link = l THEN [x EXCEPT !.lost = TRUE, !.lostAt = now] ELSE x : x \in txs}
    /\ calls' = CallIfThere(End1[l], TRUE) \o CallIfThere(End2[l], TRUE)
    /\ UNCHANGED <<nodes, life, plugs, dropNext, timers, actions, seq, now, shown>>

\* disconnect: frames under way are lost, both ends are told.
Disconnect(l) ==
    /\ l \in links
    /\ links' = links \ {l}
    /\ txs' = {IF x.link = l /\ ~ x.lost /\ ~ x.graceful /\ x.arrive > now
                 THEN [x EXCEPT !.lost = TRUE, !.lostAt = now]
                 ELSE x : x \in txs}
    /\ calls' = CallIfThere(End1[l], TRUE) \o CallIfThere(End2[l], TRUE)
    /\ UNCHANGED <<nodes, life, plugs, dropNext, timers, actions, seq, now, shown>>

RemoveUnplug(l) ==
    /\ removing # None /\ calls = <<>> /\ removing \in {End1[l], End2[l]}
    /\ Disconnect(l)
    /\ UNCHANGED <<job, removing>>

\* Mutant: the device goes before its cables.
RemoveEndFirst ==
    /\ removing # None /\ calls = <<>>
    /\ nodes' = nodes \ {removing}
    /\ removing' = None
    /\ UNCHANGED <<life, links, plugs, dropNext, queues, now, shown, job, calls>>

RemoveEnd ==
    /\ removing # None /\ calls = <<>>
    /\ \A l \in links : removing \notin {End1[l], End2[l]}
    /\ nodes' = nodes \ {removing}
    /\ removing' = None
    /\ UNCHANGED <<life, links, plugs, dropNext, queues, now, shown, job, calls>>

Unplug(l) == Editing(1) /\ Disconnect(l) /\ Edited(1, {l}) /\ UNCHANGED removing

AddNode(n) ==
    /\ Editing(2) /\ n \in (Nodes \ nodes) \ job.gone /\ life[n] < MaxLife[n]
    /\ nodes' = nodes \cup {n}
    /\ life' = [life EXCEPT ![n] = @ + 1]
    /\ calls' = <<Call(n, FALSE)>>
    /\ Edited(2, {})
    /\ UNCHANGED <<links, plugs, dropNext, queues, now, shown, removing>>

Configure(n) ==
    /\ Editing(2) /\ n \in nodes
    /\ calls' = <<Call(n, FALSE)>>
    /\ Edited(2, {})
    /\ UNCHANGED <<graph, queues, now, shown, removing>>

Connect(l) ==
    /\ Editing(3) /\ l \in (Links \ links) \ job.gone
    /\ {End1[l], End2[l]} \subseteq nodes /\ plugs[l] < MaxLife[l]
    /\ links' = links \cup {l}
    /\ plugs' = [plugs EXCEPT ![l] = @ + 1]
    /\ dropNext' = [dropNext EXCEPT ![l] = FALSE]
    /\ calls' = <<Call(End1[l], FALSE), Call(End2[l], FALSE)>>
    /\ Edited(3, {})
    /\ UNCHANGED <<nodes, life, queues, now, shown, removing>>

SyncEnd ==
    /\ Editing(3)
    /\ job' = NoJob
    /\ UNCHANGED <<graph, queues, now, shown, removing, calls>>

-----------------------------------------------------------------------------
Init ==
    /\ nodes = {} /\ links = {}
    /\ life = [n \in Nodes |-> 0] /\ plugs = [l \in Links |-> 0]
    /\ dropNext = [l \in Links |-> FALSE]
    /\ txs = {} /\ timers = {} /\ actions = {} /\ seq = 0
    /\ now = 0 /\ shown = 0
    /\ job = NoJob /\ removing = None /\ calls = <<>>

Callback ==
    \/ \E l \in Links : CtxSend(l)
    \/ \E d \in Delays, b \in BOOLEAN : CtxTimer(d, b)
    \/ \E t \in timers : CtxCancel(t)
    \/ Return

User ==
    \/ \E n \in Nodes : Act(n)
    \/ \E ms \in Forwards : FastForward(ms)
    \/ \E l \in Links : DropNextOn(l)
    \/ Sync \/ StepOne

Clock ==
    \/ RunStep \/ ActPost \/ ActEnd \/ ForwardEnd \/ SyncSettled
    \/ \E dt \in Frames : FrameBegin(dt)
    \/ FrameStep \/ FramePass \/ FrameJump \/ FrameEnd \/ FrameQuiet

Edit ==
    \/ \E n \in Nodes : RemoveNode(n) \/ AddNode(n) \/ Configure(n)
    \/ \E l \in Links : RemoveUnplug(l) \/ Unplug(l) \/ Connect(l)
    \/ RemoveEnd \/ SyncEnd

Next == Callback \/ User \/ Clock \/ Edit

Spec == Init /\ [][Next]_vars

-----------------------------------------------------------------------------
(* Properties.                                                             *)

TxType ==
    [id : Nat, link : Links, plug : Nat, to : Nodes, depart : Nat, arrive : Nat,
     lost : BOOLEAN, lostAt : Nat, graceful : BOOLEAN, queued : BOOLEAN]
TimerType ==
    [id : Nat, node : Nodes, life : Nat, time : Nat, background : BOOLEAN, late : BOOLEAN]
ActionType == [id : Nat, node : Nodes, time : Nat]
CallType ==
    [node : Nodes, graceful : BOOLEAN, tx : TxType \cup {None}, timer : TimerType \cup {None}]
JobKinds == {"idle", "act", "post", "sync", "forward", "frame", "burst", "edit"}

\* TypeOK: plugged cables join devices that are in the network, and at most
\* one device is being taken out, by an edit.
TypeOK ==
    /\ nodes \subseteq Nodes /\ links \subseteq Links
    /\ \A l \in links : {End1[l], End2[l]} \subseteq nodes
    /\ life \in [Nodes -> Nat] /\ plugs \in [Links -> Nat]
    /\ dropNext \in [Links -> BOOLEAN]
    /\ txs \subseteq TxType /\ timers \subseteq TimerType /\ actions \subseteq ActionType
    /\ seq \in Nat /\ now \in Nat /\ shown \in Nat
    /\ job \in [kind : JobKinds, node : Nodes \cup {None}, limit : Nat, count : Nat,
               gone : SUBSET (Nodes \cup Links)]
    /\ removing \in nodes \cup {None} /\ (removing # None => job.kind = "edit")
    /\ calls \in Seq(CallType)

\* No event that may still happen lies in the past, not even the timer of a
\* removed device that would come alive if the device were put back: the
\* two queues never give back an event earlier than one already processed.
NoPastEvents ==
    /\ \A x \in txs : LiveTx(x) => x.arrive >= now
    /\ \A t \in timers : t.time >= now
    /\ \A a \in actions : a.time >= now

\* Neither the network's clock nor the time on the screen ever goes back,
\* whatever the user does between two frames.
ClocksForward == [][now' >= now /\ shown' >= shown]_<<now, shown>>

\* Between two user operations the screen has not passed a frame, a timer
\* or an action that was due: what is drawn is what has been simulated.
ScreenInStep ==
    Idle => /\ now <= shown
            /\ \A e \in Sched : e.time >= shown

\* A device receives a frame only over the cable it was sent on, plugged in
\* all the time it travelled, unless it was the last word of a device that
\* was leaving (graceful): unplugging and plugging again loses it.
FrameNeedsItsCable ==
    \A k \in 1 .. Len(calls) :
       LET x == calls[k].tx
       IN  x # None => x.graceful \/ (x.link \in links /\ x.plug = plugs[x.link])

\* A frame marked graceful is never lost while its receiver is there to take
\* it, whatever is unplugged or removed while it travels.
GracefulArrives ==
    [][\A x \in txs : LiveTx(x) /\ x.graceful =>
          \E y \in txs' : y.id = x.id /\ (y.lost => x.to \notin nodes)]_txs

\* A timer set by a device in the network fires on that device only, never
\* on a later one with the same id; late timers are excepted (see OldTimers).
TimersStayWithTheirDevice ==
    \A k \in 1 .. Len(calls) :
       LET t == calls[k].timer
       IN  t # None => t.late \/ t.life = life[t.node]

-----------------------------------------------------------------------------
(* The instance TLC checks (Network.cfg): devices a and b joined by one    *)
(* cable.  Device a and the cable may be taken out and put back once.      *)

AtA == [l \in Links |-> "a"]
AtB == [l \in Links |-> "b"]
BackOnce == [x \in Nodes \cup Links |-> IF x = "b" THEN 1 ELSE 2]
=============================================================================
