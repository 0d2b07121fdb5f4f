---------------------------- MODULE NetworkProofs ---------------------------
(***************************************************************************)
(* Proofs about the event kernel (Network): for every topology, every      *)
(* behaviour of the devices and every sequence of edits, the clocks only   *)
(* go forward, no event is left behind, and frames and timers reach the    *)
(* cable and the device they belong to.                                    *)
(***************************************************************************)
EXTENDS Network, TLAPS

-----------------------------------------------------------------------------
(* The inductive invariant.                                                *)

\* A frame still to be delivered is on a cable plugged in since it was sent,
\* or graceful.  An edit never meets a frame due at the very instant: the
\* run that settles the network before it has delivered those.
CableInv ==
    /\ \A x \in txs : LiveTx(x) /\ ~ x.graceful =>
          x.link \in links /\ x.plug = plugs[x.link]
    /\ job.kind = "edit" => \A x \in txs : LiveTx(x) => x.arrive > now

\* Only timers set on the way out outlive their device.
TimerInv ==
    \A t \in timers :
       ~ t.late => t.node \in nodes /\ t.node # removing /\ t.life = life[t.node]

\* Callbacks run on devices in the network, about their own events.
CallInv ==
    /\ \A k \in 1 .. Len(calls) : calls[k].node \in nodes
    /\ FrameNeedsItsCable
    /\ TimersStayWithTheirDevice

\* The screen is behind every event, or nothing normal is pending.
AheadOfScreen ==
    \/ Sched = {}
    \/ \A e \in Sched \cup Background : e.time >= shown

\* What each job promises about the two clocks.
JobInv ==
    /\ job.kind = "idle" =>
          /\ now <= shown
          /\ now = shown \/ (calls = <<>> /\ AheadOfScreen)
    /\ job.kind = "frame" =>
          /\ shown <= job.limit /\ now <= job.limit
          /\ shown <= now \/ (calls = <<>> /\ AheadOfScreen)
    /\ job.kind = "burst" => job.limit = now /\ shown <= now
    /\ job.kind \in {"act", "post", "sync"} => job.limit = shown /\ now <= shown
    /\ job.kind = "forward" => shown <= job.limit /\ now <= job.limit
    /\ job.kind = "edit" => now = shown
    /\ job.kind = "act" => job.node \in Nodes

IInv == TypeOK /\ NoPastEvents /\ CableInv /\ TimerInv /\ CallInv /\ JobInv

-----------------------------------------------------------------------------
(* The queues.                                                             *)

LEMMA QueueTimes ==
  ASSUME TypeOK
  PROVE  \A e \in Sched \cup Background : e.time \in Nat
BY DEF TypeOK, Sched, Background, TxKey, TimerKey, ActionKey, Key, TxType, TimerType, ActionType

LEMMA InSched ==
         /\ \A x \in txs : LiveTx(x) => TxKey(x) \in Sched
         /\ \A t \in timers : ~ t.background /\ LiveTimer(t) => TimerKey(t) \in Sched
         /\ \A t \in timers : t.background /\ LiveTimer(t) => TimerKey(t) \in Background
         /\ \A a \in actions : ActionKey(a) \in Sched
BY DEF Sched, Background

LEMMA KeyTimes ==
         /\ \A x : TxKey(x).time = x.arrive
         /\ \A t : TimerKey(t).time = t.time
         /\ \A a : ActionKey(a).time = a.time
BY DEF TxKey, TimerKey, ActionKey, Key

\* The first key of a queue is its earliest.
LEMMA FirstIsEarliest ==
  ASSUME NEW S, NEW k, \A e \in S : e.time \in Nat, IsFirst(k, S)
  PROVE  k \in S /\ \A e \in S : k.time <= e.time
<1>1. k \in S /\ \A e \in S \ {k} : Before(k, e)
  BY DEF IsFirst
<1>2. \A e \in S \ {k} : k.time <= e.time
  BY <1>1 DEF Before
<1>3. QED BY <1>1, <1>2

\* Throwing away unreachable timers changes neither queue.
LEMMA PeekKeeps ==
  /\ SchedPeeked \subseteq timers /\ Reachable \subseteq SchedPeeked
  /\ \A t \in timers : LiveTimer(t) => t \in Reachable
BY DEF SchedPeeked, Reachable

LEMMA SameQueues ==
  ASSUME timers' \subseteq timers, \A t \in timers : LiveTimer(t) => t \in timers',
         nodes' = nodes, txs' = txs, actions' = actions
  PROVE  Sched' = Sched /\ Background' = Background
<1>1. {t \in timers' : ~ t.background /\ t.node \in nodes} = {t \in timers : ~ t.background /\ t.node \in nodes}
  BY DEF LiveTimer
<1>2. {t \in timers' : t.background /\ t.node \in nodes} = {t \in timers : t.background /\ t.node \in nodes}
  BY DEF LiveTimer
<1>3. QED BY <1>1, <1>2 DEF Sched, Background, LiveTimer, LiveTx, TxKey, TimerKey, ActionKey

\* A timer left by a peek is not earlier than what the queues hold.
LEMMA ReachableLater ==
  ASSUME TypeOK, NEW n \in Nat, \A e \in Sched \cup Background : n <= e.time
  PROVE  \A t \in Reachable : n <= t.time
<1> SUFFICES ASSUME NEW t \in Reachable PROVE n <= t.time
  OBVIOUS
<1>1. t \in timers /\ t.time \in Nat /\ TimerKey(t).time = t.time
  BY PeekKeeps, KeyTimes DEF TypeOK, TimerType
<1>2. CASE LiveTimer(t)
  BY <1>1, <1>2, InSched
<1>3. CASE ~ LiveTimer(t)
  <2>1. \E e \in Sched \cup Background : Before(e, TimerKey(t))
    BY <1>1, <1>3 DEF Reachable, SchedPeeked, Buried
  <2>2. PICK e \in Sched \cup Background : Before(e, TimerKey(t))
    BY <2>1
  <2>3. e.time <= t.time
    BY <2>2, <1>1, QueueTimes DEF Before
  <2>4. QED BY <2>3, <1>1, QueueTimes
<1>4. QED BY <1>2, <1>3

\* An event fires at the earliest time of both queues, within the limit.
LEMMA FireTime ==
  ASSUME TypeOK, NEW limit \in Nat, Fire(limit)
  PROVE  /\ now' \in Nat /\ now' <= limit
         /\ \A e \in Sched \cup Background : now' <= e.time
         /\ \E e \in Sched \cup Background : now' = e.time
         /\ (now' \notin {e.time : e \in Sched}) => \A e \in Sched : now' < e.time
<1>1. ASSUME NEW t \in timers, FireBackground(t, limit)
      PROVE  /\ now' = TimerKey(t).time /\ TimerKey(t) \in Background /\ now' <= limit
             /\ \A e \in Background : now' <= e.time
             /\ \A e \in Sched : now' < e.time
  <2>1. now' = t.time /\ t.time <= limit /\ IsFirst(TimerKey(t), Background)
        /\ NothingUntil(Sched, t.time)
    BY <1>1 DEF FireBackground
  <2>2. t.time \in Nat /\ TimerKey(t).time = t.time
    BY KeyTimes DEF TypeOK, TimerType
  <2>3. TimerKey(t) \in Background /\ \A e \in Background : t.time <= e.time
    BY <2>1, <2>2, QueueTimes, FirstIsEarliest
  <2>4. \A e \in Sched : t.time < e.time
    BY <2>1, <2>2, QueueTimes DEF NothingUntil
  <2>5. QED BY <2>1, <2>2, <2>3, <2>4
<1>2. ASSUME NEW key, MayFire(key, limit), now' = key.time
      PROVE  /\ key \in Sched /\ now' <= limit
             /\ \A e \in Sched \cup Background : now' <= e.time
  <2>1. key \in Sched /\ \A e \in Sched : key.time <= e.time
    BY <1>2, QueueTimes, FirstIsEarliest DEF MayFire
  <2>2. QED BY <2>1, <1>2, QueueTimes DEF MayFire
<1>3. CASE \E t \in timers : FireBackground(t, limit)
  BY <1>3, <1>1, QueueTimes
<1>4. CASE \E t \in timers : FireTimer(t, limit)
  <2>1. PICK t \in timers : FireTimer(t, limit)
    BY <1>4
  <2>2. MayFire(TimerKey(t), limit) /\ now' = TimerKey(t).time
    BY <2>1, KeyTimes DEF FireTimer
  <2>3. QED BY <2>2, <1>2, QueueTimes
<1>5. CASE \E x \in txs : FireDeliver(x, limit)
  <2>1. PICK x \in txs : FireDeliver(x, limit)
    BY <1>5
  <2>2. MayFire(TxKey(x), limit) /\ now' = TxKey(x).time
    BY <2>1, KeyTimes DEF FireDeliver
  <2>3. QED BY <2>2, <1>2, QueueTimes
<1>6. CASE \E a \in actions : FireAction(a, limit)
  <2>1. PICK a \in actions : FireAction(a, limit)
    BY <1>6
  <2>2. MayFire(ActionKey(a), limit) /\ now' = ActionKey(a).time
    BY <2>1, KeyTimes DEF FireAction
  <2>3. QED BY <2>2, <1>2, QueueTimes
<1>7. QED BY <1>3, <1>4, <1>5, <1>6 DEF Fire

\* What else firing an event leaves: fewer timers, the same or one less
\* pending transmission, and at most one callback, on a live device.
LEMMA FireEffects ==
  ASSUME TypeOK, CallInv, TimerInv, CableInv, NEW limit \in Nat, Fire(limit)
  PROVE  /\ timers' \subseteq Reachable
         /\ actions' \subseteq actions
         /\ txs' \subseteq TxType
         /\ \A x \in txs' : LiveTx(x) => x \in txs
         /\ calls' \in Seq(CallType)
         /\ \A k \in 1 .. Len(calls') :
               /\ calls'[k].node \in nodes
               /\ calls'[k].tx # None =>
                     calls'[k].tx.graceful
                     \/ (calls'[k].tx.link \in links /\ calls'[k].tx.plug = plugs[calls'[k].tx.link])
               /\ calls'[k].timer # None =>
                     calls'[k].timer.late \/ calls'[k].timer.life = life[calls'[k].timer.node]
<1> DEFINE Good(c) ==
      /\ c \in CallType /\ c.node \in nodes
      /\ c.tx # None => c.tx.graceful \/ (c.tx.link \in links /\ c.tx.plug = plugs[c.tx.link])
      /\ c.timer # None => c.timer.late \/ c.timer.life = life[c.timer.node]
<1>1. ASSUME NEW t \in timers, LiveTimer(t) PROVE Good(Expire(t))
  BY <1>1 DEF TypeOK, TimerInv, LiveTimer, Expire, Call, CallType, TimerType
<1>2. ASSUME NEW n \in nodes PROVE Good(Call(n, FALSE))
  BY <1>2 DEF TypeOK, Call, CallType
<1>3. ASSUME NEW x \in txs, LiveTx(x), x.to \in nodes, x.link \in links \/ x.graceful
      PROVE  Good(Receive(x))
  BY <1>3 DEF TypeOK, CableInv, Receive, Call, CallType, TxType
<1>4. ASSUME NEW c, calls' = <<c>>, Good(c)
      PROVE  calls' \in Seq(CallType) /\ \A k \in 1 .. Len(calls') : Good(calls'[k])
  BY <1>4
<1>5. ASSUME calls' = <<>>
      PROVE  calls' \in Seq(CallType) /\ \A k \in 1 .. Len(calls') : Good(calls'[k])
  BY <1>5
<1> DEFINE Facts ==
      /\ timers' \subseteq Reachable /\ actions' \subseteq actions
      /\ txs' \subseteq TxType /\ \A x \in txs' : LiveTx(x) => x \in txs
      /\ calls' \in Seq(CallType) /\ \A k \in 1 .. Len(calls') : Good(calls'[k])
<1> SUFFICES Facts
  OBVIOUS
<1> HIDE DEF Good
<1>6. CASE \E t \in timers : FireBackground(t, limit) \/ FireTimer(t, limit)
  <2>1. PICK t \in timers : FireBackground(t, limit) \/ FireTimer(t, limit)
    BY <1>6
  <2>2. LiveTimer(t) /\ timers' = Reachable \ {t} /\ calls' = <<Expire(t)>>
        /\ txs' = txs /\ actions' = actions
    BY <2>1 DEF FireBackground, FireTimer
  <2>3. Good(Expire(t))
    BY <2>2, <1>1
  <2>4. calls' \in Seq(CallType) /\ \A k \in 1 .. Len(calls') : Good(calls'[k])
    BY <2>2, <2>3, <1>4
  <2>5. QED BY <2>2, <2>4 DEF TypeOK
<1>7. CASE \E x \in txs : FireDeliver(x, limit)
  <2>1. PICK x \in txs : FireDeliver(x, limit)
    BY <1>7
  <2> DEFINE arrives == x.to \in nodes /\ (x.link \in links \/ x.graceful)
             after   == [x EXCEPT !.queued = FALSE, !.lost = ~ arrives,
                                  !.lostAt = IF arrives THEN x.lostAt ELSE x.depart]
  <2>2. /\ LiveTx(x) /\ timers' = Reachable /\ actions' = actions
        /\ txs' = (txs \ {x}) \cup {after}
        /\ calls' = IF arrives THEN <<Receive(x)>> ELSE <<>>
    BY <2>1 DEF FireDeliver
  <2>3. after \in TxType /\ ~ LiveTx(after)
    BY DEF TypeOK, TxType, LiveTx
  <2>4. txs' \subseteq TxType /\ \A y \in txs' : LiveTx(y) => y \in txs
    BY <2>2, <2>3 DEF TypeOK
  <2>5. calls' \in Seq(CallType) /\ \A k \in 1 .. Len(calls') : Good(calls'[k])
    <3>1. CASE arrives
      BY <3>1, <2>2, <1>3, <1>4
    <3>2. CASE ~ arrives
      BY <3>2, <2>2, <1>5
    <3>3. QED BY <3>1, <3>2
  <2>6. QED BY <2>2, <2>4, <2>5
<1>8. CASE \E a \in actions : FireAction(a, limit)
  <2>1. PICK a \in actions : FireAction(a, limit)
    BY <1>8
  <2>2. /\ timers' = Reachable /\ actions' = actions \ {a} /\ txs' = txs
        /\ calls' = IF a.node \in nodes THEN <<Call(a.node, FALSE)>> ELSE <<>>
    BY <2>1 DEF FireAction, CallIfThere
  <2>3. calls' \in Seq(CallType) /\ \A k \in 1 .. Len(calls') : Good(calls'[k])
    <3>1. CASE a.node \in nodes
      BY <3>1, <2>2, <1>2, <1>4
    <3>2. CASE a.node \notin nodes
      BY <3>2, <2>2, <1>5
    <3>3. QED BY <3>1, <3>2
  <2>4. QED BY <2>2, <2>3 DEF TypeOK
<1>9. QED BY <1>6, <1>7, <1>8 DEF Fire

-----------------------------------------------------------------------------
(* Steps that process the queues.                                          *)

\* The queues hold nothing earlier than the last event processed.
LEMMA PendingNotPast ==
  ASSUME TypeOK, NoPastEvents
  PROVE  \A e \in Sched \cup Background : e.time >= now
<1>1. \A x \in txs : LiveTx(x) => TxKey(x).time >= now
  BY KeyTimes DEF NoPastEvents
<1>2. \A t \in timers : TimerKey(t).time >= now
  BY KeyTimes DEF NoPastEvents
<1>3. \A a \in actions : ActionKey(a).time >= now
  BY KeyTimes DEF NoPastEvents
<1>4. QED BY <1>1, <1>2, <1>3 DEF Sched, Background

\* After a peek nothing left is earlier than an instant the queues are past.
LEMMA PastInstant ==
  ASSUME TypeOK, NoPastEvents, NEW n \in Nat,
         \A e \in Sched \cup Background : n <= e.time,
         timers' \subseteq Reachable, actions' \subseteq actions,
         \A x \in txs' : LiveTx(x) => x \in txs,
         now' = n
  PROVE  NoPastEvents'
<1>1. \A t \in timers' : t.time >= n
  <2>1. \A t \in timers' : t \in Reachable /\ t.time \in Nat
    BY PeekKeeps DEF TypeOK, TimerType
  <2>2. QED BY <2>1, ReachableLater
<1>2. \A x \in txs' : LiveTx(x) => x.arrive >= n
  <2>1. \A x \in txs : LiveTx(x) => x.arrive \in Nat /\ n <= x.arrive
    BY InSched, KeyTimes DEF TypeOK, TxType
  <2>2. QED BY <2>1
<1>3. \A a \in actions' : a.time >= n
  <2>1. \A a \in actions : a.time \in Nat /\ n <= a.time
    BY InSched, KeyTimes DEF TypeOK, ActionType
  <2>2. QED BY <2>1
<1>4. QED BY <1>1, <1>2, <1>3 DEF NoPastEvents, LiveTx

LEMMA FireCore ==
  ASSUME IInv, NEW limit \in Nat, Fire(limit),
         graph' = graph, seq' = seq, removing' = removing
  PROVE  /\ NoPastEvents' /\ TimerInv' /\ CallInv'
         /\ \A x \in txs' : LiveTx(x) /\ ~ x.graceful =>
               x.link \in links' /\ x.plug = plugs'[x.link]
         /\ txs' \subseteq TxType /\ timers' \subseteq TimerType
         /\ actions' \subseteq ActionType /\ calls' \in Seq(CallType)
         /\ now' \in Nat /\ now <= now' /\ now' <= limit
<1>1. TypeOK /\ NoPastEvents /\ CableInv /\ TimerInv /\ CallInv
  BY DEF IInv
<1>2. nodes' = nodes /\ life' = life /\ links' = links /\ plugs' = plugs
  BY DEF graph
<1>3. /\ now' \in Nat /\ now' <= limit
      /\ \A e \in Sched \cup Background : now' <= e.time
      /\ \E e \in Sched \cup Background : now' = e.time
  BY <1>1, FireTime
<1>4. now <= now'
  BY <1>1, <1>3, PendingNotPast
<1>5. /\ timers' \subseteq Reachable /\ actions' \subseteq actions
      /\ txs' \subseteq TxType /\ \A x \in txs' : LiveTx(x) => x \in txs
      /\ calls' \in Seq(CallType)
  BY <1>1, FireEffects
<1>6. timers' \subseteq timers
  BY <1>5, PeekKeeps
<1>7. NoPastEvents'
  <2> DEFINE n == now'
  <2>1. n \in Nat /\ \A e \in Sched \cup Background : n <= e.time
    BY <1>3
  <2>2. now' = n
    OBVIOUS
  <2> HIDE DEF n
  <2>3. QED BY <2>1, <2>2, <1>1, <1>5, PastInstant
<1>8. TimerInv'
  BY <1>1, <1>2, <1>6 DEF TimerInv
<1>9. CallInv'
  <2>1. \A k \in 1 .. Len(calls') :
           /\ calls'[k].node \in nodes
           /\ calls'[k].tx # None =>
                 calls'[k].tx.graceful
                 \/ (calls'[k].tx.link \in links /\ calls'[k].tx.plug = plugs[calls'[k].tx.link])
           /\ calls'[k].timer # None =>
                 calls'[k].timer.late \/ calls'[k].timer.life = life[calls'[k].timer.node]
    BY <1>1, FireEffects
  <2>2. QED BY <2>1, <1>2 DEF CallInv, FrameNeedsItsCable, TimersStayWithTheirDevice
<1>10. \A x \in txs' : LiveTx(x) /\ ~ x.graceful => x.link \in links' /\ x.plug = plugs'[x.link]
  BY <1>1, <1>2, <1>5 DEF CableInv
<1>11. timers' \subseteq TimerType /\ actions' \subseteq ActionType
  BY <1>1, <1>5, <1>6 DEF TypeOK
<1>12. QED BY <1>3, <1>4, <1>5, <1>7, <1>8, <1>9, <1>10, <1>11

\* Whatever fires is not behind the screen.
LEMMA FireNotBehind ==
  ASSUME IInv, NEW limit \in Nat, Fire(limit), Sched # {},
         shown <= now \/ AheadOfScreen
  PROVE  shown <= now'
<1>1. /\ TypeOK /\ NoPastEvents /\ now' \in Nat /\ shown \in Nat /\ now \in Nat
      /\ \E e \in Sched \cup Background : now' = e.time
  BY FireTime DEF IInv, TypeOK
<1>2. \A e \in Sched \cup Background : e.time >= shown
  BY <1>1, PendingNotPast, QueueTimes DEF AheadOfScreen
<1>3. QED BY <1>1, <1>2

LEMMA RunStepIInv ==
  ASSUME IInv, RunStep
  PROVE  IInv'
<1>1. /\ job.kind \in {"act", "post", "sync", "forward"} /\ Fire(job.limit)
      /\ graph' = graph /\ seq' = seq /\ shown' = shown /\ job' = job /\ removing' = removing
  BY DEF RunStep, Running
<1>2. job.limit \in Nat /\ TypeOK
  BY DEF IInv, TypeOK
<1>3. /\ NoPastEvents' /\ TimerInv' /\ CallInv'
      /\ \A x \in txs' : LiveTx(x) /\ ~ x.graceful =>
            x.link \in links' /\ x.plug = plugs'[x.link]
      /\ txs' \subseteq TxType /\ timers' \subseteq TimerType
      /\ actions' \subseteq ActionType /\ calls' \in Seq(CallType)
      /\ now' \in Nat /\ now <= now' /\ now' <= job.limit
  BY <1>1, <1>2, FireCore
<1>4. TypeOK'
  BY <1>1, <1>2, <1>3 DEF TypeOK, graph
<1>5. CableInv'
  BY <1>1, <1>3 DEF CableInv, LiveTx
<1>6. JobInv'
  BY <1>1, <1>2, <1>3 DEF IInv, JobInv
<1>7. QED BY <1>3, <1>4, <1>5, <1>6 DEF IInv

\* runUntil ends with everything up to its limit processed.
LEMMA RunEndCore ==
  ASSUME IInv, NEW kind, RunEnd(kind)
  PROVE  /\ NoPastEvents /\ TypeOK /\ job.kind = kind /\ calls = <<>>
         /\ removing' = removing /\ removing = None /\ calls' = calls /\ txs' = txs
         /\ nodes' = nodes /\ links' = links /\ life' = life /\ plugs' = plugs
         /\ dropNext' = dropNext /\ kind \in {"act", "post", "sync", "forward"}
         /\ now' \in Nat /\ now <= now' /\ job.limit <= now'
         /\ (now <= job.limit => now' = job.limit)
         /\ timers' \subseteq timers
         /\ \A x \in txs : LiveTx(x) => x.arrive >= now'
         /\ \A x \in txs : LiveTx(x) => x.arrive > job.limit
         /\ \A t \in timers' : t.time >= now'
         /\ \A a \in actions : a.time >= now'
         /\ TimerInv' /\ CallInv'
<1>1. /\ calls = <<>> /\ job.kind \in {"act", "post", "sync", "forward"} /\ job.kind = kind
      /\ NothingToFire(job.limit)
      /\ now' = MaxOf(now, job.limit) /\ timers' = Reachable
      /\ graph' = graph /\ txs' = txs /\ removing' = removing /\ calls' = calls
  BY DEF RunEnd, Running
<1>2. TypeOK /\ NoPastEvents /\ TimerInv /\ CallInv /\ now \in Nat /\ job.limit \in Nat /\ removing = None
  BY <1>1 DEF IInv, TypeOK
<1>3. now' \in Nat /\ now <= now' /\ job.limit <= now' /\ (now <= job.limit => now' = job.limit)
      /\ (now' = now \/ now' = job.limit)
  BY <1>1, <1>2 DEF MaxOf
<1>4. \A e \in Sched \cup Background : e.time > job.limit /\ e.time >= now /\ e.time \in Nat
  BY <1>1, <1>2, PendingNotPast, QueueTimes DEF NothingToFire, NothingUntil
<1>5. \A e \in Sched \cup Background : now' <= e.time
  BY <1>2, <1>3, <1>4
<1>6. timers' \subseteq timers
  BY <1>1, PeekKeeps
<1>7. \A t \in timers' : t.time >= now'
  <2> DEFINE n == now'
  <2>1. n \in Nat /\ \A e \in Sched \cup Background : n <= e.time
    BY <1>3, <1>5
  <2> HIDE DEF n
  <2>2. \A t \in Reachable : n <= t.time
    BY <2>1, <1>2, ReachableLater
  <2>3. \A t \in timers' : t.time \in Nat
    BY <1>2, <1>6 DEF TypeOK, TimerType
  <2>4. QED BY <2>1, <2>2, <2>3, <1>1 DEF n
<1>8. \A x \in txs : LiveTx(x) => x.arrive >= now' /\ x.arrive > job.limit
  <2>1. \A x \in txs : LiveTx(x) => TxKey(x) \in Sched /\ TxKey(x).time = x.arrive
    BY InSched, KeyTimes
  <2>2. QED BY <2>1, <1>3, <1>4, <1>5
<1>9. \A a \in actions : a.time >= now'
  <2>1. \A a \in actions : ActionKey(a) \in Sched /\ ActionKey(a).time = a.time
    BY InSched, KeyTimes
  <2>2. QED BY <2>1, <1>3, <1>4, <1>5
<1>10. TimerInv'
  BY <1>1, <1>2, <1>6 DEF TimerInv, graph
<1>11. CallInv'
  BY <1>1, <1>2 DEF CallInv, FrameNeedsItsCable, TimersStayWithTheirDevice, graph
<1>12. QED BY <1>1, <1>2, <1>3, <1>6, <1>7, <1>8, <1>9, <1>10, <1>11 DEF graph

\* The four ways a run ends: the kind of the next job, and what it may need.
LEMMA RunEndIInv ==
  ASSUME IInv, ActPost \/ ActEnd \/ ForwardEnd \/ SyncSettled
  PROVE  IInv'
<1>1. ASSUME NEW kind, RunEnd(kind), shown' = shown \/ shown' = now',
             seq' \in Nat, actions' \subseteq ActionType, \A a \in actions' : a.time >= now',
             job' \in [kind : JobKinds, node : Nodes \cup {None}, limit : Nat, count : Nat,
                       gone : SUBSET (Nodes \cup Links)],
             JobInv', job'.kind = "edit" => now' = job.limit
      PROVE  IInv'
  <2>1. /\ NoPastEvents /\ TypeOK /\ job.kind = kind /\ calls = <<>>
        /\ removing' = removing /\ removing = None /\ calls' = calls /\ txs' = txs
        /\ nodes' = nodes /\ links' = links /\ life' = life /\ plugs' = plugs
        /\ dropNext' = dropNext /\ now' \in Nat /\ timers' \subseteq timers
        /\ \A x \in txs : LiveTx(x) => x.arrive >= now'
        /\ \A x \in txs : LiveTx(x) => x.arrive > job.limit
        /\ \A t \in timers' : t.time >= now'
        /\ TimerInv' /\ CallInv'
    BY <1>1, RunEndCore
  <2>2. TypeOK'
    BY <1>1, <2>1 DEF TypeOK
  <2>3. NoPastEvents'
    BY <1>1, <2>1 DEF NoPastEvents, LiveTx
  <2>4. CableInv'
    BY <1>1, <2>1 DEF IInv, CableInv, LiveTx
  <2>5. QED BY <1>1, <2>1, <2>2, <2>3, <2>4 DEF IInv
<1>2. CASE ActPost
  <2>1. /\ RunEnd("act") /\ seq' = seq + 1 /\ shown' = shown
        /\ job' = [kind |-> "post", node |-> None, limit |-> now', count |-> 0, gone |-> {}]
        /\ actions' = actions \cup {[id |-> seq, node |-> job.node, time |-> now']}
    BY <1>2 DEF ActPost, Job
  <2>2. /\ job.kind = "act" /\ TypeOK /\ now' \in Nat /\ (now <= job.limit => now' = job.limit)
        /\ \A a \in actions : a.time >= now'
    BY <2>1, RunEndCore
  <2>3. now' = shown /\ job.node \in Nodes
    BY <2>2 DEF IInv, JobInv
  <2>4. actions' \subseteq ActionType /\ \A a \in actions' : a.time >= now'
    BY <2>1, <2>2, <2>3 DEF TypeOK, ActionType
  <2>5. JobInv'
    BY <2>1, <2>2, <2>3 DEF JobInv
  <2>6. job' \in [kind : JobKinds, node : Nodes \cup {None}, limit : Nat, count : Nat,
                  gone : SUBSET (Nodes \cup Links)]
    BY <2>1, <2>2 DEF JobKinds
  <2>7. QED BY <2>1, <2>2, <2>4, <2>5, <2>6, <1>1 DEF TypeOK
<1>3. CASE ActEnd \/ ForwardEnd
  <2> DEFINE kind == job.kind
  <2>1. /\ RunEnd("post") \/ RunEnd("forward")
        /\ RunEnd("post") => shown' = shown
        /\ RunEnd("forward") /\ ~ RunEnd("post") => shown' = now'
        /\ seq' = seq /\ actions' = actions
        /\ job' = [kind |-> "idle", node |-> None, limit |-> 0, count |-> 0, gone |-> {}]
    BY <1>3 DEF ActEnd, ForwardEnd, RunEnd, NoJob, Job
  <2>2. ASSUME NEW k \in {"post", "forward"}, RunEnd(k)
        PROVE  /\ job.kind = k /\ TypeOK /\ now' \in Nat /\ (now <= job.limit => now' = job.limit)
               /\ \A a \in actions : a.time >= now'
    BY <2>2, RunEndCore
  <2>3. now' = shown'
    BY <2>1, <2>2 DEF IInv, JobInv
  <2>4. JobInv'
    BY <2>1, <2>2, <2>3 DEF JobInv
  <2>5. job' \in [kind : JobKinds, node : Nodes \cup {None}, limit : Nat, count : Nat,
                  gone : SUBSET (Nodes \cup Links)]
    BY <2>1 DEF JobKinds
  <2>6. actions' \subseteq ActionType /\ \A a \in actions' : a.time >= now'
    BY <2>1, <2>2 DEF TypeOK
  <2>7. seq' \in Nat
    BY <2>1 DEF IInv, TypeOK
  <2>8. QED BY <2>1, <2>3, <2>4, <2>5, <2>6, <2>7, <1>1
<1>4. CASE SyncSettled
  <2>1. /\ RunEnd("sync") /\ seq' = seq /\ shown' = shown /\ actions' = actions
        /\ job' = [kind |-> "edit", node |-> None, limit |-> 0, count |-> 0, gone |-> {}]
    BY <1>4 DEF SyncSettled, Job
  <2>2. /\ job.kind = "sync" /\ TypeOK /\ now' \in Nat /\ (now <= job.limit => now' = job.limit)
        /\ \A a \in actions : a.time >= now'
    BY <2>1, RunEndCore
  <2>3. now' = shown /\ now' = job.limit
    BY <2>2 DEF IInv, JobInv
  <2>4. JobInv'
    BY <2>1, <2>3 DEF JobInv
  <2>5. job' \in [kind : JobKinds, node : Nodes \cup {None}, limit : Nat, count : Nat,
                  gone : SUBSET (Nodes \cup Links)]
    BY <2>1 DEF JobKinds
  <2>6. QED BY <2>1, <2>2, <2>3, <2>4, <2>5, <1>1 DEF TypeOK
<1>5. QED BY <1>2, <1>3, <1>4

\* A step that only thins out dead timers, prunes delivered frames and moves
\* the screen.
LEMMA ThinningCore ==
  ASSUME IInv, timers' \subseteq timers, txs' \subseteq txs, actions' = actions,
         graph' = graph, seq' = seq, now' = now, removing' = removing, calls' = calls,
         shown' \in Nat, removing = None, job'.kind # "edit",
         job' \in [kind : JobKinds, node : Nodes \cup {None}, limit : Nat, count : Nat,
                   gone : SUBSET (Nodes \cup Links)],
         JobInv'
  PROVE  IInv'
<1>1. TypeOK'
  BY DEF IInv, TypeOK, graph
<1>2. NoPastEvents'
  BY DEF IInv, NoPastEvents, LiveTx
<1>3. CableInv'
  BY DEF IInv, CableInv, LiveTx, graph
<1>4. TimerInv'
  BY DEF IInv, TimerInv, graph
<1>5. CallInv'
  BY DEF IInv, CallInv, FrameNeedsItsCable, TimersStayWithTheirDevice, graph
<1>6. QED BY <1>1, <1>2, <1>3, <1>4, <1>5 DEF IInv

LEMMA CeilUp ==
  ASSUME NEW t \in Nat
  PROVE  CeilMs(t) \in Nat /\ t <= CeilMs(t)
BY DEF CeilMs

LEMMA SettleUp ==
  ASSUME TypeOK
  PROVE  SettleTime \in Nat /\ shown <= SettleTime /\ now <= SettleTime
<1>1. now \in Nat /\ shown \in Nat
  BY DEF TypeOK
<1>2. QED BY <1>1, CeilUp DEF SettleTime, MaxOf

LEMMA BeginIInv ==
  ASSUME IInv, NEW kind \in {"act", "sync", "forward"}, NEW node \in Nodes \cup {None},
         NEW more \in Nat, Begin(kind, node, more), kind # "forward" => more = 0,
         kind = "act" => node \in Nodes
  PROVE  IInv'
<1>1. /\ job.kind = "idle" /\ calls = <<>> /\ shown' = SettleTime
      /\ job' = [kind |-> kind, node |-> node, limit |-> SettleTime + more, count |-> 0, gone |-> {}]
      /\ graph' = graph /\ txs' = txs /\ timers' = timers /\ actions' = actions /\ seq' = seq
      /\ now' = now /\ removing' = removing /\ calls' = calls
  BY DEF Begin, Idle, Job, queues
<1>2. SettleTime \in Nat /\ now <= SettleTime /\ now \in Nat
  BY SettleUp DEF IInv, TypeOK
<1>3. removing = None
  BY <1>1 DEF IInv, TypeOK
<1>4. JobInv'
  BY <1>1, <1>2 DEF JobInv
<1>5. job' \in [kind : JobKinds, node : Nodes \cup {None}, limit : Nat, count : Nat,
                gone : SUBSET (Nodes \cup Links)]
  BY <1>1, <1>2 DEF JobKinds
<1>6. QED BY <1>1, <1>2, <1>3, <1>4, <1>5, ThinningCore

\* A peek leaves AheadOfScreen as it was.
LEMMA AheadKept ==
  ASSUME AheadOfScreen, timers' \subseteq timers, \A t \in timers : LiveTimer(t) => t \in timers',
         nodes' = nodes, txs' = txs, actions' = actions, shown' = shown
  PROVE  AheadOfScreen'
BY SameQueues DEF AheadOfScreen

LEMMA FrameBeginIInv ==
  ASSUME IInv, NEW dt \in Frames, FrameBegin(dt)
  PROVE  IInv'
<1>1. /\ job.kind = "idle" /\ calls = <<>> /\ shown' = shown /\ timers' = SchedPeeked
      /\ job' = [kind |-> "frame", node |-> None, limit |-> shown + dt, count |-> 0, gone |-> {}]
      /\ graph' = graph /\ txs' = txs /\ actions' = actions /\ seq' = seq
      /\ now' = now /\ removing' = removing /\ calls' = calls
  BY DEF FrameBegin, Idle, Job
<1>2. /\ dt \in Nat /\ shown \in Nat /\ now \in Nat /\ removing = None /\ nodes' = nodes
  BY <1>1, NetworkAssumption DEF IInv, TypeOK, graph
<1>3. timers' \subseteq timers /\ \A t \in timers : LiveTimer(t) => t \in timers'
  BY <1>1, PeekKeeps
<1>4. JobInv'
  <2>1. now <= shown /\ (now = shown \/ AheadOfScreen)
    BY <1>1 DEF IInv, JobInv
  <2>2. AheadOfScreen => AheadOfScreen'
    BY <1>1, <1>2, <1>3, AheadKept
  <2>3. shown' <= now' \/ (calls' = <<>> /\ AheadOfScreen')
    BY <2>1, <2>2, <1>1, <1>2
  <2>4. QED BY <1>1, <1>2, <2>1, <2>3 DEF JobInv
<1>5. job' \in [kind : JobKinds, node : Nodes \cup {None}, limit : Nat, count : Nat,
                gone : SUBSET (Nodes \cup Links)]
  BY <1>1, <1>2 DEF JobKinds
<1>6. QED BY <1>1, <1>2, <1>3, <1>4, <1>5, ThinningCore

LEMMA FrameQuietIInv ==
  ASSUME IInv, FrameQuiet
  PROVE  IInv'
<1>1. /\ job.kind = "idle" /\ calls = <<>> /\ shown' = shown /\ timers' = SchedPeeked
      /\ job' = job
      /\ graph' = graph /\ txs' = txs /\ actions' = actions /\ seq' = seq
      /\ now' = now /\ removing' = removing /\ calls' = calls
  BY DEF FrameQuiet, Idle
<1>2. shown \in Nat /\ removing = None /\ nodes' = nodes
  BY <1>1 DEF IInv, TypeOK, graph
<1>3. timers' \subseteq timers /\ \A t \in timers : LiveTimer(t) => t \in timers'
  BY <1>1, PeekKeeps
<1>4. JobInv'
  <2>1. now <= shown /\ (now = shown \/ AheadOfScreen)
    BY <1>1 DEF IInv, JobInv
  <2>2. AheadOfScreen => AheadOfScreen'
    BY <1>1, <1>2, <1>3, AheadKept
  <2>3. QED BY <1>1, <2>1, <2>2 DEF JobInv
<1>5. job' \in [kind : JobKinds, node : Nodes \cup {None}, limit : Nat, count : Nat,
                gone : SUBSET (Nodes \cup Links)]
  BY <1>1 DEF IInv, TypeOK
<1>6. QED BY <1>1, <1>2, <1>3, <1>4, <1>5, ThinningCore

LEMMA FrameEndIInv ==
  ASSUME IInv, FrameEnd
  PROVE  IInv'
<1>1. /\ calls = <<>> /\ shown' = job.limit
      /\ job.kind \in {"frame", "burst"}
      /\ job' = [kind |-> "idle", node |-> None, limit |-> 0, count |-> 0, gone |-> {}]
      /\ txs' = Pruned(txs, job.limit) /\ actions' = actions
      /\ graph' = graph /\ seq' = seq /\ now' = now /\ removing' = removing /\ calls' = calls
      /\ timers' \in {SchedPeeked, Reachable, timers}
      /\ job.kind = "frame" => Sched = {} \/ NothingToFire(job.limit)
  BY DEF FrameEnd, NoJob, Job
<1>2. /\ removing = None /\ nodes' = nodes /\ job.limit \in Nat /\ now \in Nat /\ TypeOK
  BY <1>1 DEF IInv, TypeOK, graph
<1>3. timers' \subseteq timers /\ txs' \subseteq txs
  BY <1>1, PeekKeeps DEF Pruned
<1>4. Sched' \subseteq Sched /\ Background' \subseteq Background
  BY <1>1, <1>2, <1>3 DEF Sched, Background, LiveTimer, LiveTx, TxKey, TimerKey, ActionKey
<1>5. now <= job.limit /\ (now = job.limit \/ job.kind = "frame")
  BY <1>1, <1>2 DEF IInv, JobInv
<1>6. AheadOfScreen' \/ now = job.limit
  <2>1. CASE job.kind = "frame" /\ Sched = {}
    BY <2>1, <1>4 DEF AheadOfScreen
  <2>2. CASE job.kind = "frame" /\ NothingToFire(job.limit)
    <3>1. \A e \in Sched \cup Background : e.time > job.limit /\ e.time \in Nat
      BY <2>2, <1>2, QueueTimes DEF NothingToFire, NothingUntil
    <3>2. \A e \in Sched' \cup Background' : e.time >= job.limit
      BY <3>1, <1>2, <1>4
    <3>3. QED BY <3>2, <1>1 DEF AheadOfScreen
  <2>3. QED BY <2>1, <2>2, <1>1, <1>5
<1>7. JobInv'
  BY <1>1, <1>5, <1>6 DEF JobInv
<1>8. job' \in [kind : JobKinds, node : Nodes \cup {None}, limit : Nat, count : Nat,
                gone : SUBSET (Nodes \cup Links)]
  BY <1>1 DEF JobKinds
<1>9. QED BY <1>1, <1>2, <1>3, <1>7, <1>8, ThinningCore

LEMMA StepOneIInv ==
  ASSUME IInv, StepOne
  PROVE  IInv'
<1>1. /\ job.kind = "idle" /\ calls = <<>> /\ shown' = now'
      /\ graph' = graph /\ seq' = seq /\ job' = job /\ removing' = removing
  BY DEF StepOne, Idle
<1>2. PICK e \in Sched : Fire(e.time)
  BY DEF StepOne
<1>3. e.time \in Nat /\ TypeOK
  BY QueueTimes DEF IInv
<1>4. /\ NoPastEvents' /\ TimerInv' /\ CallInv'
      /\ \A x \in txs' : LiveTx(x) /\ ~ x.graceful =>
            x.link \in links' /\ x.plug = plugs'[x.link]
      /\ txs' \subseteq TxType /\ timers' \subseteq TimerType
      /\ actions' \subseteq ActionType /\ calls' \in Seq(CallType)
      /\ now' \in Nat
  BY <1>1, <1>2, <1>3, FireCore
<1>5. TypeOK'
  BY <1>1, <1>3, <1>4 DEF TypeOK, graph
<1>6. CableInv'
  BY <1>1, <1>4 DEF CableInv, LiveTx
<1>7. JobInv'
  BY <1>1, <1>4 DEF JobInv
<1>8. QED BY <1>4, <1>5, <1>6, <1>7 DEF IInv

\* One event of a screen frame; t is how far the frame has come.
LEMMA FrameFireIInv ==
  ASSUME IInv, NEW limit \in Nat, NEW t \in Nat, InFrame, FrameFire(limit, t),
         shown <= t, now' <= t
  PROVE  IInv'
<1>1. /\ job.kind = "frame" /\ calls = <<>> /\ Sched # {} /\ Fire(limit)
      /\ graph' = graph /\ seq' = seq /\ shown' = shown /\ removing' = removing
      /\ \/ job' = [kind |-> "burst", node |-> None, limit |-> now', count |-> 0, gone |-> {}]
         \/ job' = [job EXCEPT !.limit = t, !.count = job.count + 1]
  BY DEF InFrame, FrameFire, Job
<1>2. /\ TypeOK /\ job \in [kind : JobKinds, node : Nodes \cup {None}, limit : Nat, count : Nat,
                            gone : SUBSET (Nodes \cup Links)]
      /\ removing = None
  BY <1>1 DEF IInv, TypeOK
<1>3. /\ NoPastEvents' /\ TimerInv' /\ CallInv'
      /\ \A x \in txs' : LiveTx(x) /\ ~ x.graceful =>
            x.link \in links' /\ x.plug = plugs'[x.link]
      /\ txs' \subseteq TxType /\ timers' \subseteq TimerType
      /\ actions' \subseteq ActionType /\ calls' \in Seq(CallType)
      /\ now' \in Nat /\ now <= now'
  BY <1>1, FireCore
<1>4. job' \in [kind : JobKinds, node : Nodes \cup {None}, limit : Nat, count : Nat,
                gone : SUBSET (Nodes \cup Links)]
      /\ ((job'.kind = "burst" /\ job'.limit = now') \/ (job'.kind = "frame" /\ job'.limit = t))
  <2>1. CASE job' = [kind |-> "burst", node |-> None, limit |-> now', count |-> 0, gone |-> {}]
    <3>1. job'.kind = "burst" /\ job'.limit = now'
      BY <2>1
    <3>2. job' \in [kind : JobKinds, node : Nodes \cup {None}, limit : Nat, count : Nat,
                    gone : SUBSET (Nodes \cup Links)]
      BY <2>1, <1>3 DEF JobKinds
    <3>3. QED BY <3>1, <3>2
  <2>2. CASE job' = [job EXCEPT !.limit = t, !.count = job.count + 1]
    <3>1. job.count + 1 \in Nat
      BY <1>2
    <3>2. QED BY <2>2, <3>1, <1>1, <1>2
  <2>3. QED BY <2>1, <2>2, <1>1
<1>5. shown <= now'
  <2>1. shown <= now \/ AheadOfScreen
    BY <1>1 DEF IInv, JobInv
  <2>2. QED BY <2>1, <1>1, FireNotBehind
<1>6. TypeOK'
  BY <1>1, <1>2, <1>3, <1>4 DEF TypeOK, graph
<1>7. CableInv'
  BY <1>3, <1>4 DEF CableInv, LiveTx
<1>8. JobInv'
  BY <1>1, <1>4, <1>5 DEF JobInv
<1>9. QED BY <1>3, <1>6, <1>7, <1>8 DEF IInv

LEMMA FrameIInv ==
  ASSUME IInv, FrameStep \/ FramePass \/ FrameJump
  PROVE  IInv'
<1>1. /\ InFrame /\ TypeOK /\ NoPastEvents /\ job.limit \in Nat /\ shown \in Nat /\ now \in Nat
      /\ shown <= job.limit /\ (shown <= now \/ AheadOfScreen)
      /\ \A e \in Sched \cup Background : e.time \in Nat
  BY QueueTimes DEF FrameStep, FramePass, FrameJump, InFrame, IInv, TypeOK, JobInv
<1>2. CASE FrameStep
  <2>1. PICK e \in Sched : e.time <= job.limit /\ FrameFire(e.time, job.limit)
    BY <1>2 DEF FrameStep
  <2>2. now' <= e.time /\ now' \in Nat
    BY <2>1, <1>1, FireTime DEF FrameFire
  <2>3. QED BY <2>1, <2>2, <1>1, FrameFireIInv
<1>3. CASE FramePass
  <2>1. FrameFire(job.limit, job.limit)
    BY <1>3 DEF FramePass
  <2>2. now' <= job.limit
    BY <2>1, <1>1, FireTime DEF FrameFire
  <2>3. QED BY <2>1, <2>2, <1>1, FrameFireIInv
<1>4. CASE FrameJump
  <2>a. PICK e \in Sched :
           \E t \in {e.time} \cup {b.time : b \in Background} :
              /\ \A u \in {e.time} \cup {b.time : b \in Background} : t <= u
              /\ FrameFire(e.time, t)
    BY <1>4 DEF FrameJump
  <2>1. PICK t \in {e.time} \cup {b.time : b \in Background} :
           /\ \A u \in {e.time} \cup {b.time : b \in Background} : t <= u
           /\ FrameFire(e.time, t)
    BY <2>a
  <2>2. t \in Nat /\ \E k \in Sched \cup Background : t = k.time
    BY <2>1, <1>1
  <2>3. now' \in Nat /\ \A k \in Sched \cup Background : now' <= k.time
    BY <2>1, <1>1, FireTime DEF FrameFire
  <2>4. now' <= t
    BY <2>2, <2>3
  <2>5. shown <= t
    <3>1. \A k \in Sched \cup Background : k.time >= shown
      BY <1>1, PendingNotPast DEF AheadOfScreen, InFrame
    <3>2. QED BY <3>1, <2>2
  <2>6. QED BY <2>1, <2>2, <2>4, <2>5, <1>1, FrameFireIInv
<1>5. QED BY <1>2, <1>3, <1>4

-----------------------------------------------------------------------------
(* Steps inside a callback.                                                *)

\* While a callback runs the network's clock is not behind the screen, so
\* JobInv holds whatever the callback does.
LEMMA CallbackJob ==
  ASSUME IInv, calls # <<>>, job' = job, now' = now, shown' = shown
  PROVE  JobInv'
<1>1. now \in Nat /\ shown \in Nat
  BY DEF IInv, TypeOK
<1>2. /\ job.kind = "idle" => now = shown
      /\ job.kind = "frame" => shown <= now
  BY DEF IInv, JobInv
<1>3. QED BY <1>1, <1>2 DEF IInv, JobInv

LEMMA RunningCall ==
  ASSUME IInv, calls # <<>>
  PROVE  /\ Self \in nodes /\ Self \in Nodes /\ Head(calls).graceful \in BOOLEAN
         /\ Tail(calls) \in Seq(CallType)
         /\ Len(calls) \in Nat /\ Len(Tail(calls)) = Len(calls) - 1
         /\ \A k \in 1 .. Len(Tail(calls)) :
               Tail(calls)[k] = calls[k + 1] /\ k + 1 \in 1 .. Len(calls)
<1>1. calls \in Seq(CallType) /\ nodes \subseteq Nodes
  BY DEF IInv, TypeOK
<1>2. Len(calls) > 0 /\ Len(calls) \in Nat /\ Head(calls) = calls[1] /\ 1 \in 1 .. Len(calls)
  BY <1>1
<1>3. calls[1] \in CallType /\ calls[1].node \in nodes
  BY <1>1, <1>2 DEF IInv, CallInv
<1>4. Tail(calls) \in Seq(CallType) /\ Len(Tail(calls)) = Len(calls) - 1
      /\ \A k \in 1 .. Len(Tail(calls)) : Tail(calls)[k] = calls[k + 1]
  BY <1>1
<1>5. \A k \in 1 .. Len(Tail(calls)) : k + 1 \in 1 .. Len(calls)
  BY <1>2, <1>4
<1>6. QED BY <1>1, <1>2, <1>3, <1>4, <1>5 DEF Self, CallType

LEMMA CtxSendIInv ==
  ASSUME IInv, NEW l \in Links, CtxSend(l)
  PROVE  IInv'
<1>1. PICK lost \in BOOLEAN :
         txs' = txs \cup
            {[id |-> seq, link |-> l, plug |-> plugs[l], to |-> OtherEnd(l, Self),
              depart |-> now, arrive |-> now + Latency,
              lost |-> lost, lostAt |-> now + (11 * Latency) \div 20,
              graceful |-> Head(calls).graceful, queued |-> ~ lost]}
  BY DEF CtxSend
<1>2. /\ calls # <<>> /\ l \in links
      /\ dropNext' = [dropNext EXCEPT ![l] = FALSE] /\ seq' = seq + 1
      /\ nodes' = nodes /\ life' = life /\ links' = links /\ plugs' = plugs
      /\ timers' = timers /\ actions' = actions /\ now' = now /\ shown' = shown
      /\ job' = job /\ removing' = removing /\ calls' = calls
  BY DEF CtxSend
<1> DEFINE new == [id |-> seq, link |-> l, plug |-> plugs[l], to |-> OtherEnd(l, Self),
                   depart |-> now, arrive |-> now + Latency,
                   lost |-> lost, lostAt |-> now + (11 * Latency) \div 20,
                   graceful |-> Head(calls).graceful, queued |-> ~ lost]
<1>3. TypeOK /\ now \in Nat /\ seq \in Nat /\ plugs[l] \in Nat
  BY DEF IInv, TypeOK
<1>4. Latency \in Nat /\ Latency > 0 /\ (11 * Latency) \div 20 \in Nat
  BY NetworkAssumption
<1>5. new \in TxType
  <2>1. OtherEnd(l, Self) \in Nodes /\ Head(calls).graceful \in BOOLEAN
    BY <1>2, NetworkAssumption, RunningCall DEF OtherEnd
  <2>2. QED BY <2>1, <1>3, <1>4 DEF TxType
<1>6. new.arrive > now /\ new.arrive >= now /\ new.link = l /\ new.plug = plugs[l]
  BY <1>3, <1>4
<1>7. txs' = txs \cup {new}
  BY <1>1
<1> HIDE DEF new
<1>8. TypeOK'
  BY <1>2, <1>3, <1>5, <1>7 DEF TypeOK
<1>9. NoPastEvents'
  BY <1>2, <1>6, <1>7 DEF IInv, NoPastEvents, LiveTx
<1>10. CableInv'
  BY <1>2, <1>6, <1>7 DEF IInv, CableInv, LiveTx
<1>11. TimerInv' /\ CallInv'
  BY <1>2 DEF IInv, TimerInv, CallInv, FrameNeedsItsCable, TimersStayWithTheirDevice
<1>12. JobInv'
  BY <1>2, CallbackJob
<1>13. QED BY <1>8, <1>9, <1>10, <1>11, <1>12 DEF IInv

LEMMA CtxTimerIInv ==
  ASSUME IInv, NEW delay \in Delays, NEW background \in BOOLEAN, CtxTimer(delay, background)
  PROVE  IInv'
<1> DEFINE new == [id |-> seq, node |-> Self, life |-> life[Self], time |-> now + delay,
                   background |-> background, late |-> (removing = Self)]
<1>1. /\ calls # <<>> /\ timers' = timers \cup {new} /\ seq' = seq + 1
      /\ graph' = graph /\ txs' = txs /\ actions' = actions /\ now' = now
      /\ shown' = shown /\ job' = job /\ removing' = removing /\ calls' = calls
  BY DEF CtxTimer
<1>2. TypeOK /\ now \in Nat /\ seq \in Nat /\ delay \in Nat
  BY NetworkAssumption DEF IInv, TypeOK
<1>3. Self \in nodes /\ Self \in Nodes
  BY <1>1, RunningCall
<1>4. life[Self] \in Nat
  BY <1>2, <1>3 DEF TypeOK
<1>5. new \in TimerType
  BY <1>2, <1>3, <1>4 DEF TimerType
<1>6. new.time >= now /\ (~ new.late => new.node # removing) /\ new.node = Self /\ new.life = life[Self]
  <2>1. new.time = now + delay /\ new.node = Self /\ new.life = life[Self]
    BY Zenon
  <2>2. ~ new.late => removing # Self
    BY Zenon
  <2>3. QED BY <1>2, <2>1, <2>2
<1> HIDE DEF new
<1>7. TypeOK'
  BY <1>1, <1>2, <1>5 DEF TypeOK, graph
<1>8. NoPastEvents'
  BY <1>1, <1>6 DEF IInv, NoPastEvents, LiveTx
<1>9. CableInv' /\ CallInv'
  BY <1>1 DEF IInv, CableInv, CallInv, FrameNeedsItsCable, TimersStayWithTheirDevice, LiveTx, graph
<1>10. TimerInv'
  BY <1>1, <1>3, <1>6 DEF IInv, TimerInv, graph
<1>11. JobInv'
  BY <1>1, CallbackJob
<1>12. QED BY <1>7, <1>8, <1>9, <1>10, <1>11 DEF IInv

LEMMA CtxCancelIInv ==
  ASSUME IInv, NEW t \in timers, CtxCancel(t)
  PROVE  IInv'
<1>1. /\ calls # <<>> /\ timers' = timers \ {t} /\ seq' = seq
      /\ graph' = graph /\ txs' = txs /\ actions' = actions /\ now' = now
      /\ shown' = shown /\ job' = job /\ removing' = removing /\ calls' = calls
  BY DEF CtxCancel
<1>2. TypeOK'
  BY <1>1 DEF IInv, TypeOK, graph
<1>3. NoPastEvents' /\ CableInv' /\ TimerInv'
  BY <1>1 DEF IInv, NoPastEvents, CableInv, TimerInv, LiveTx, graph
<1>4. CallInv'
  BY <1>1 DEF IInv, CallInv, FrameNeedsItsCable, TimersStayWithTheirDevice, graph
<1>5. JobInv'
  BY <1>1, CallbackJob
<1>6. QED BY <1>2, <1>3, <1>4, <1>5 DEF IInv

LEMMA ReturnIInv ==
  ASSUME IInv, Return
  PROVE  IInv'
<1>1. /\ calls # <<>> /\ calls' = Tail(calls)
      /\ graph' = graph /\ queues' = queues /\ now' = now
      /\ shown' = shown /\ job' = job /\ removing' = removing
  BY DEF Return
<1>2. /\ Tail(calls) \in Seq(CallType)
      /\ \A k \in 1 .. Len(Tail(calls)) :
            Tail(calls)[k] = calls[k + 1] /\ k + 1 \in 1 .. Len(calls)
  BY <1>1, RunningCall
<1>3. TypeOK'
  BY <1>1, <1>2 DEF IInv, TypeOK, graph, queues
<1>4. NoPastEvents' /\ CableInv' /\ TimerInv'
  BY <1>1 DEF IInv, NoPastEvents, CableInv, TimerInv, LiveTx, graph, queues
<1>5. CallInv'
  <2>1. nodes' = nodes /\ links' = links /\ plugs' = plugs /\ life' = life
    BY <1>1 DEF graph
  <2>2. QED BY <2>1, <1>1, <1>2 DEF IInv, CallInv, FrameNeedsItsCable, TimersStayWithTheirDevice
<1>6. JobInv'
  BY <1>1, CallbackJob
<1>7. QED BY <1>3, <1>4, <1>5, <1>6 DEF IInv

-----------------------------------------------------------------------------
(* The user's edits.                                                       *)

\* A callback made outside a frame or a timer.
LEMMA PlainCall ==
  ASSUME NEW n \in Nodes, NEW g \in BOOLEAN
  PROVE  Call(n, g) \in CallType /\ Call(n, g).node = n
         /\ Call(n, g).tx = None /\ Call(n, g).timer = None
BY DEF Call, CallType

\* Calls that are all plain ones on devices present satisfy CallInv.
LEMMA PlainCalls ==
  ASSUME calls' \in Seq(CallType),
         \A k \in 1 .. Len(calls') :
            calls'[k].node \in nodes' /\ calls'[k].tx = None /\ calls'[k].timer = None
  PROVE  CallInv'
BY DEF CallInv, FrameNeedsItsCable, TimersStayWithTheirDevice

LEMMA OneCall ==
  ASSUME NEW n \in Nodes, n \in nodes', NEW g \in BOOLEAN, calls' = <<Call(n, g)>>
  PROVE  calls' \in Seq(CallType) /\ CallInv'
<1>1. Call(n, g) \in CallType /\ Call(n, g).node = n
      /\ Call(n, g).tx = None /\ Call(n, g).timer = None
  BY PlainCall
<1>2. calls' \in Seq(CallType)
      /\ \A k \in 1 .. Len(calls') : calls'[k] = Call(n, g)
  BY <1>1
<1>3. QED BY <1>1, <1>2, PlainCalls

LEMMA PairSeq ==
  ASSUME NEW S, NEW a \in S, NEW b \in S
  PROVE  /\ <<a>> \o <<b>> \in Seq(S) /\ Len(<<a>> \o <<b>>) = 2
         /\ (<<a>> \o <<b>>)[1] = a /\ (<<a>> \o <<b>>)[2] = b
OBVIOUS

LEMMA EditingFacts ==
  ASSUME IInv, NEW phase \in Nat, Editing(phase)
  PROVE  /\ job.kind = "edit" /\ calls = <<>> /\ removing = None /\ now = shown
         /\ now \in Nat /\ TypeOK
         /\ \A gone \in SUBSET (Nodes \cup Links) :
               Edited(phase, gone) =>
                  /\ job' \in [kind : JobKinds, node : Nodes \cup {None}, limit : Nat,
                               count : Nat, gone : SUBSET (Nodes \cup Links)]
                  /\ job'.kind = "edit"
<1>1. job.kind = "edit" /\ calls = <<>> /\ removing = None
  BY DEF Editing
<1>2. now = shown /\ now \in Nat /\ TypeOK
  BY <1>1 DEF IInv, JobInv, TypeOK
<1>3. ASSUME NEW gone \in SUBSET (Nodes \cup Links), Edited(phase, gone)
      PROVE  /\ job' \in [kind : JobKinds, node : Nodes \cup {None}, limit : Nat,
                          count : Nat, gone : SUBSET (Nodes \cup Links)]
             /\ job'.kind = "edit"
  <2>1. job \in [kind : JobKinds, node : Nodes \cup {None}, limit : Nat, count : Nat,
                 gone : SUBSET (Nodes \cup Links)]
    BY <1>2 DEF TypeOK
  <2>2. job' = [job EXCEPT !.count = phase, !.gone = job.gone \cup gone]
    BY <1>3 DEF Edited
  <2>3. job.gone \cup gone \in SUBSET (Nodes \cup Links)
    BY <2>1, <1>3
  <2>4. QED BY <2>1, <2>2, <2>3, <1>1
<1>4. QED BY <1>1, <1>2, <1>3

LEMMA EditJob ==
  ASSUME job'.kind = "edit", now = shown, now' = now, shown' = shown
  PROVE  JobInv'
BY DEF JobInv

LEMMA RemoveNodeIInv ==
  ASSUME IInv, NEW n \in Nodes, RemoveNode(n)
  PROVE  IInv'
<1> DEFINE gone == {n} \cup {l \in Links : n \in {End1[l], End2[l]}}
<1>1. /\ Editing(0) /\ n \in nodes
      /\ timers' = {t \in timers : t.node # n} /\ removing' = n
      /\ calls' = <<Call(n, TRUE)>> /\ Edited(0, gone)
      /\ graph' = graph /\ txs' = txs /\ actions' = actions /\ seq' = seq
      /\ now' = now /\ shown' = shown
  BY DEF RemoveNode
<1>2. gone \in SUBSET (Nodes \cup Links)
  OBVIOUS
<1> HIDE DEF gone
<1>3. /\ now = shown /\ now \in Nat /\ TypeOK /\ job.kind = "edit"
      /\ job' \in [kind : JobKinds, node : Nodes \cup {None}, limit : Nat,
                   count : Nat, gone : SUBSET (Nodes \cup Links)]
      /\ job'.kind = "edit"
  BY <1>1, <1>2, EditingFacts
<1>4. calls' \in Seq(CallType) /\ CallInv'
  BY <1>1, OneCall DEF graph
<1>5. TypeOK'
  BY <1>1, <1>3, <1>4 DEF TypeOK, graph
<1>6. NoPastEvents' /\ CableInv' /\ TimerInv'
  BY <1>1, <1>3 DEF IInv, NoPastEvents, CableInv, TimerInv, LiveTx, graph
<1>7. JobInv'
  BY <1>1, <1>3, EditJob
<1>8. QED BY <1>4, <1>5, <1>6, <1>7 DEF IInv

\* Unplugging a cable loses the frames on it that are not graceful.
LEMMA DisconnectIInv ==
  ASSUME IInv, NEW l \in Links, Disconnect(l), job.kind = "edit", removing' = removing,
         job' \in [kind : JobKinds, node : Nodes \cup {None}, limit : Nat,
                   count : Nat, gone : SUBSET (Nodes \cup Links)],
         job'.kind = "edit"
  PROVE  IInv'
<1> DEFINE cut(x) == IF x.link = l /\ ~ x.lost /\ ~ x.graceful /\ x.arrive > now
                       THEN [x EXCEPT !.lost = TRUE, !.lostAt = now] ELSE x
<1>1. /\ l \in links /\ links' = links \ {l} /\ txs' = {cut(x) : x \in txs}
      /\ calls' = CallIfThere(End1[l], TRUE) \o CallIfThere(End2[l], TRUE)
      /\ nodes' = nodes /\ life' = life /\ plugs' = plugs /\ dropNext' = dropNext
      /\ timers' = timers /\ actions' = actions /\ seq' = seq /\ now' = now /\ shown' = shown
  BY DEF Disconnect
<1>2. TypeOK /\ now = shown /\ now \in Nat
  BY DEF IInv, JobInv, TypeOK
<1>3. End1[l] \in nodes /\ End2[l] \in nodes /\ nodes \subseteq Nodes
  BY <1>1, <1>2 DEF TypeOK
<1>4. calls' = <<Call(End1[l], TRUE)>> \o <<Call(End2[l], TRUE)>>
  BY <1>1, <1>3 DEF CallIfThere
<1>5. calls' \in Seq(CallType) /\ CallInv'
  <2>1. /\ Call(End1[l], TRUE) \in CallType /\ Call(End1[l], TRUE).node = End1[l]
        /\ Call(End1[l], TRUE).tx = None /\ Call(End1[l], TRUE).timer = None
    BY <1>3, PlainCall
  <2>2. /\ Call(End2[l], TRUE) \in CallType /\ Call(End2[l], TRUE).node = End2[l]
        /\ Call(End2[l], TRUE).tx = None /\ Call(End2[l], TRUE).timer = None
    BY <1>3, PlainCall
  <2>3. calls' \in Seq(CallType) /\ Len(calls') = 2
        /\ calls'[1] = Call(End1[l], TRUE) /\ calls'[2] = Call(End2[l], TRUE)
    <3> DEFINE a == Call(End1[l], TRUE)
               b == Call(End2[l], TRUE)
    <3>1. a \in CallType /\ b \in CallType
      BY <2>1, <2>2
    <3>2. calls' = <<a>> \o <<b>>
      BY <1>4
    <3> HIDE DEF a, b
    <3>3. calls' \in Seq(CallType) /\ Len(calls') = 2 /\ calls'[1] = a /\ calls'[2] = b
      BY <3>1, <3>2, PairSeq
    <3>4. QED BY <3>3 DEF a, b
  <2>4. \A k \in 1 .. Len(calls') : k = 1 \/ k = 2
    BY <2>3
  <2>5. QED BY <2>1, <2>2, <2>3, <2>4, <1>1, <1>3, PlainCalls
<1>6. \A x \in txs : x \in TxType /\ cut(x) \in TxType
  BY ZenonT(60), <1>2 DEF TypeOK, TxType
<1>7. \A x \in txs : LiveTx(cut(x)) => cut(x) = x /\ (x.link # l \/ x.graceful)
  <2>1. SUFFICES ASSUME NEW x \in txs, LiveTx(cut(x))
                 PROVE  cut(x) = x /\ (x.link # l \/ x.graceful)
    OBVIOUS
  <2>2. ~ (x.link = l /\ ~ x.lost /\ ~ x.graceful /\ x.arrive > now)
    BY <2>1, <1>6 DEF LiveTx, TxType
  <2>3. cut(x) = x /\ LiveTx(x)
    BY <2>1, <2>2
  <2>4. x.arrive > now
    BY <2>3 DEF IInv, CableInv
  <2>5. QED BY <2>2, <2>3, <2>4 DEF LiveTx
<1>8. \A y \in txs' : LiveTx(y) => y \in txs /\ (y.link # l \/ y.graceful)
  BY <1>1, <1>7
<1>9. TypeOK'
  <2>1. txs' \subseteq TxType
    BY <1>1, <1>6
  <2>2. QED BY <2>1, <1>1, <1>2, <1>5 DEF TypeOK
<1>10. NoPastEvents' /\ CableInv' /\ TimerInv'
  BY <1>1, <1>8 DEF IInv, NoPastEvents, CableInv, TimerInv, LiveTx
<1>11. JobInv'
  BY <1>1, <1>2, EditJob
<1>12. QED BY <1>5, <1>9, <1>10, <1>11 DEF IInv

LEMMA UnplugIInv ==
  ASSUME IInv, NEW l \in Links, RemoveUnplug(l) \/ Unplug(l)
  PROVE  IInv'
<1>1. CASE RemoveUnplug(l)
  <2>1. removing # None /\ Disconnect(l) /\ job' = job /\ removing' = removing
    BY <1>1 DEF RemoveUnplug
  <2>2. job.kind = "edit" /\ job \in [kind : JobKinds, node : Nodes \cup {None}, limit : Nat,
                   count : Nat, gone : SUBSET (Nodes \cup Links)]
    BY <2>1 DEF IInv, TypeOK
  <2>3. QED BY <2>1, <2>2, DisconnectIInv
<1>2. CASE Unplug(l)
  <2>1. Editing(1) /\ Disconnect(l) /\ Edited(1, {l}) /\ removing' = removing
    BY <1>2 DEF Unplug
  <2>2. /\ job.kind = "edit" /\ job'.kind = "edit"
        /\ job' \in [kind : JobKinds, node : Nodes \cup {None}, limit : Nat,
                     count : Nat, gone : SUBSET (Nodes \cup Links)]
    BY <2>1, EditingFacts
  <2>3. QED BY <2>1, <2>2, DisconnectIInv
<1>3. QED BY <1>1, <1>2

LEMMA RemoveEndIInv ==
  ASSUME IInv, RemoveEnd
  PROVE  IInv'
<1>1. /\ removing # None /\ calls = <<>> /\ \A l \in links : removing \notin {End1[l], End2[l]}
      /\ nodes' = nodes \ {removing} /\ removing' = None
      /\ life' = life /\ links' = links /\ plugs' = plugs /\ dropNext' = dropNext
      /\ queues' = queues /\ now' = now /\ shown' = shown /\ job' = job /\ calls' = calls
  BY DEF RemoveEnd
<1>2. TypeOK /\ job.kind = "edit" /\ now = shown
  BY <1>1 DEF IInv, TypeOK, JobInv
<1>3. TypeOK'
  BY <1>1, <1>2 DEF TypeOK, queues
<1>4. NoPastEvents' /\ CableInv'
  BY <1>1 DEF IInv, NoPastEvents, CableInv, LiveTx, queues
<1>5. TimerInv'
  <2>1. \A t \in timers : t \in TimerType /\ t.node # None
    BY <1>2, NetworkAssumption DEF TypeOK, TimerType
  <2>2. QED BY <2>1, <1>1 DEF IInv, TimerInv, queues
<1>6. CallInv'
  BY <1>1 DEF CallInv, FrameNeedsItsCable, TimersStayWithTheirDevice
<1>7. JobInv'
  BY <1>1, <1>2, EditJob
<1>8. QED BY <1>3, <1>4, <1>5, <1>6, <1>7 DEF IInv

\* A device that is put back gets a new life; no timer of the old one that
\* was set before it left is still there.
LEMMA AddNodeIInv ==
  ASSUME IInv, NEW n \in Nodes, AddNode(n)
  PROVE  IInv'
<1>1. /\ Editing(2) /\ n \notin nodes /\ nodes' = nodes \cup {n}
      /\ life' = [life EXCEPT ![n] = life[n] + 1] /\ calls' = <<Call(n, FALSE)>> /\ Edited(2, {})
      /\ links' = links /\ plugs' = plugs /\ dropNext' = dropNext /\ queues' = queues
      /\ now' = now /\ shown' = shown /\ removing' = removing
  BY DEF AddNode
<1>2. /\ now = shown /\ now \in Nat /\ TypeOK /\ job.kind = "edit" /\ removing = None
      /\ job' \in [kind : JobKinds, node : Nodes \cup {None}, limit : Nat,
                   count : Nat, gone : SUBSET (Nodes \cup Links)]
      /\ job'.kind = "edit"
  BY <1>1, EditingFacts
<1>3. calls' \in Seq(CallType) /\ CallInv'
  BY <1>1, OneCall
<1>4. TypeOK'
  <2>1. nodes' \subseteq Nodes /\ links' \subseteq Links
        /\ \A l \in links' : {End1[l], End2[l]} \subseteq nodes'
    BY <1>1, <1>2 DEF TypeOK
  <2>2. life' \in [Nodes -> Nat] /\ plugs' \in [Links -> Nat] /\ dropNext' \in [Links -> BOOLEAN]
    BY <1>1, <1>2 DEF TypeOK
  <2>3. txs' \subseteq TxType /\ timers' \subseteq TimerType /\ actions' \subseteq ActionType
        /\ seq' \in Nat /\ now' \in Nat /\ shown' \in Nat
    BY <1>1, <1>2 DEF TypeOK, queues
  <2>4. removing' = None
    BY <1>1, <1>2
  <2>5. QED BY <2>1, <2>2, <2>3, <2>4, <1>2, <1>3 DEF TypeOK
<1>5. NoPastEvents' /\ CableInv'
  BY <1>1, <1>2 DEF IInv, NoPastEvents, CableInv, LiveTx, queues
<1>6. TimerInv'
  BY <1>1, <1>2 DEF IInv, TimerInv, TypeOK, TimerType, queues
<1>7. JobInv'
  BY <1>1, <1>2, EditJob
<1>8. QED BY <1>3, <1>4, <1>5, <1>6, <1>7 DEF IInv

LEMMA ConfigureIInv ==
  ASSUME IInv, NEW n \in Nodes, Configure(n)
  PROVE  IInv'
<1>1. /\ Editing(2) /\ n \in nodes /\ calls' = <<Call(n, FALSE)>> /\ Edited(2, {})
      /\ graph' = graph /\ queues' = queues
      /\ now' = now /\ shown' = shown /\ removing' = removing
  BY DEF Configure
<1>2. /\ now = shown /\ now \in Nat /\ TypeOK /\ job.kind = "edit" /\ removing = None
      /\ job' \in [kind : JobKinds, node : Nodes \cup {None}, limit : Nat,
                   count : Nat, gone : SUBSET (Nodes \cup Links)]
      /\ job'.kind = "edit"
  BY <1>1, EditingFacts
<1>3. calls' \in Seq(CallType) /\ CallInv'
  BY <1>1, OneCall DEF graph
<1>4. TypeOK'
  BY <1>1, <1>2, <1>3 DEF TypeOK, queues, graph
<1>5. NoPastEvents' /\ CableInv' /\ TimerInv'
  BY <1>1, <1>2 DEF IInv, NoPastEvents, CableInv, TimerInv, LiveTx, queues, graph
<1>6. JobInv'
  BY <1>1, <1>2, EditJob
<1>7. QED BY <1>3, <1>4, <1>5, <1>6 DEF IInv

\* A cable that is plugged in again gets a new plug count; the frames still
\* to be delivered that need a cable are on other ones.
LEMMA ConnectIInv ==
  ASSUME IInv, NEW l \in Links, Connect(l)
  PROVE  IInv'
<1>1. /\ Editing(3) /\ l \notin links /\ {End1[l], End2[l]} \subseteq nodes
      /\ links' = links \cup {l} /\ plugs' = [plugs EXCEPT ![l] = plugs[l] + 1]
      /\ dropNext' = [dropNext EXCEPT ![l] = FALSE]
      /\ calls' = <<Call(End1[l], FALSE), Call(End2[l], FALSE)>> /\ Edited(3, {})
      /\ nodes' = nodes /\ life' = life /\ queues' = queues
      /\ now' = now /\ shown' = shown /\ removing' = removing
  BY DEF Connect
<1>2. /\ now = shown /\ now \in Nat /\ TypeOK /\ job.kind = "edit" /\ removing = None
      /\ job' \in [kind : JobKinds, node : Nodes \cup {None}, limit : Nat,
                   count : Nat, gone : SUBSET (Nodes \cup Links)]
      /\ job'.kind = "edit"
  BY <1>1, EditingFacts
<1>3. End1[l] \in Nodes /\ End2[l] \in Nodes
  BY NetworkAssumption
<1>4. calls' \in Seq(CallType) /\ CallInv'
  <2> DEFINE a == Call(End1[l], FALSE)
             b == Call(End2[l], FALSE)
  <2>1. /\ a \in CallType /\ a.node \in nodes' /\ a.tx = None /\ a.timer = None
        /\ b \in CallType /\ b.node \in nodes' /\ b.tx = None /\ b.timer = None
    BY <1>1, <1>3, PlainCall
  <2>2. calls' = <<a, b>>
    BY <1>1
  <2> HIDE DEF a, b
  <2>3. calls' \in Seq(CallType)
    BY <2>1, <2>2
  <2>4. \A k \in 1 .. Len(calls') : calls'[k] = a \/ calls'[k] = b
    BY <2>2
  <2>5. QED BY <2>1, <2>3, <2>4, PlainCalls
<1>5. TypeOK'
  <2>1. nodes' \subseteq Nodes /\ links' \subseteq Links
        /\ \A k \in links' : {End1[k], End2[k]} \subseteq nodes'
    BY <1>1, <1>2 DEF TypeOK
  <2>2. life' \in [Nodes -> Nat] /\ plugs' \in [Links -> Nat] /\ dropNext' \in [Links -> BOOLEAN]
    BY <1>1, <1>2 DEF TypeOK
  <2>3. txs' \subseteq TxType /\ timers' \subseteq TimerType /\ actions' \subseteq ActionType
        /\ seq' \in Nat /\ now' \in Nat /\ shown' \in Nat
    BY <1>1, <1>2 DEF TypeOK, queues
  <2>4. removing' = None
    BY <1>1, <1>2
  <2>5. QED BY <2>1, <2>2, <2>3, <2>4, <1>2, <1>4 DEF TypeOK
<1>6. NoPastEvents' /\ TimerInv'
  BY <1>1 DEF IInv, NoPastEvents, TimerInv, LiveTx, queues
<1>7. CableInv'
  <2>1. plugs \in [Links -> Nat] /\ links \subseteq Links
    BY <1>2 DEF TypeOK
  <2>2. \A k \in links : k \in links' /\ plugs'[k] = plugs[k]
    BY <2>1, <1>1
  <2>3. QED BY <2>2, <1>1, <1>2 DEF IInv, CableInv, LiveTx, queues
<1>8. JobInv'
  BY <1>1, <1>2, EditJob
<1>9. QED BY <1>4, <1>5, <1>6, <1>7, <1>8 DEF IInv

LEMMA SyncEndIInv ==
  ASSUME IInv, SyncEnd
  PROVE  IInv'
<1>1. /\ Editing(3) /\ graph' = graph /\ queues' = queues
      /\ job' = [kind |-> "idle", node |-> None, limit |-> 0, count |-> 0, gone |-> {}]
      /\ now' = now /\ shown' = shown /\ removing' = removing /\ calls' = calls
  BY DEF SyncEnd, NoJob, Job
<1>2. /\ now = shown /\ now \in Nat /\ TypeOK /\ removing = None
  BY <1>1, EditingFacts
<1>3. JobInv'
  BY <1>1, <1>2 DEF JobInv
<1>4. job' \in [kind : JobKinds, node : Nodes \cup {None}, limit : Nat, count : Nat,
                gone : SUBSET (Nodes \cup Links)]
  BY <1>1 DEF JobKinds
<1>5. QED BY <1>1, <1>2, <1>3, <1>4, ThinningCore DEF queues

LEMMA DropNextOnIInv ==
  ASSUME IInv, NEW l \in Links, DropNextOn(l)
  PROVE  IInv'
<1>1. /\ dropNext' = [dropNext EXCEPT ![l] = TRUE]
      /\ nodes' = nodes /\ life' = life /\ links' = links /\ plugs' = plugs /\ queues' = queues
      /\ now' = now /\ shown' = shown /\ job' = job /\ removing' = removing /\ calls' = calls
  BY DEF DropNextOn
<1>2. TypeOK'
  BY <1>1 DEF IInv, TypeOK, queues
<1>3. NoPastEvents' /\ CableInv' /\ TimerInv'
  BY <1>1 DEF IInv, NoPastEvents, CableInv, TimerInv, LiveTx, queues
<1>4. CallInv'
  BY <1>1 DEF IInv, CallInv, FrameNeedsItsCable, TimersStayWithTheirDevice
<1>5. JobInv'
  <2>1. Sched' = Sched /\ Background' = Background
    BY <1>1 DEF Sched, Background, LiveTx, LiveTimer, TxKey, TimerKey, ActionKey, queues
  <2>2. QED BY <1>1, <2>1 DEF IInv, JobInv, AheadOfScreen
<1>6. QED BY <1>2, <1>3, <1>4, <1>5 DEF IInv

-----------------------------------------------------------------------------
(* The inductive invariant is inductive.                                   *)

LEMMA InitIInv ==
  ASSUME Init
  PROVE  IInv
<1>1. TypeOK
  BY NetworkAssumption DEF Init, TypeOK, NoJob, Job, JobKinds
<1>2. NoPastEvents /\ CableInv /\ TimerInv
  BY DEF Init, NoPastEvents, CableInv, TimerInv, NoJob, Job
<1>3. CallInv
  BY DEF Init, CallInv, FrameNeedsItsCable, TimersStayWithTheirDevice
<1>4. JobInv
  BY DEF Init, JobInv, NoJob, Job
<1>5. QED BY <1>1, <1>2, <1>3, <1>4 DEF IInv

LEMMA StutterIInv ==
  ASSUME IInv, vars' = vars
  PROVE  IInv'
<1>1. /\ nodes' = nodes /\ life' = life /\ links' = links /\ plugs' = plugs /\ dropNext' = dropNext
      /\ txs' = txs /\ timers' = timers /\ actions' = actions /\ seq' = seq
      /\ now' = now /\ shown' = shown /\ job' = job /\ removing' = removing /\ calls' = calls
  BY DEF vars, graph, queues
<1>2. TypeOK' /\ NoPastEvents' /\ CableInv' /\ TimerInv'
  BY <1>1 DEF IInv, TypeOK, NoPastEvents, CableInv, TimerInv, LiveTx
<1>3. CallInv'
  BY <1>1 DEF IInv, CallInv, FrameNeedsItsCable, TimersStayWithTheirDevice
<1>4. JobInv'
  <2>1. Sched' = Sched /\ Background' = Background
    BY <1>1 DEF Sched, Background, LiveTx, LiveTimer, TxKey, TimerKey, ActionKey
  <2>2. QED BY <1>1, <2>1 DEF IInv, JobInv, AheadOfScreen
<1>5. QED BY <1>2, <1>3, <1>4 DEF IInv

LEMMA UserIInv ==
  ASSUME IInv, User
  PROVE  IInv'
<1>1. ASSUME NEW n \in Nodes, Act(n) PROVE IInv'
  BY <1>1, BeginIInv DEF Act
<1>2. ASSUME NEW ms \in Forwards, FastForward(ms) PROVE IInv'
  <2>1. ms \in Nat
    BY NetworkAssumption
  <2>2. QED BY <1>2, <2>1, BeginIInv DEF FastForward
<1>3. ASSUME Sync PROVE IInv'
  BY <1>3, BeginIInv DEF Sync
<1>4. QED BY <1>1, <1>2, <1>3, DropNextOnIInv, StepOneIInv DEF User

LEMMA ClockIInv ==
  ASSUME IInv, Clock
  PROVE  IInv'
BY RunStepIInv, RunEndIInv, FrameBeginIInv, FrameIInv, FrameEndIInv, FrameQuietIInv DEF Clock

LEMMA CallbackIInv ==
  ASSUME IInv, Callback
  PROVE  IInv'
BY CtxSendIInv, CtxTimerIInv, CtxCancelIInv, ReturnIInv DEF Callback

LEMMA EditIInv ==
  ASSUME IInv, Edit
  PROVE  IInv'
BY RemoveNodeIInv, AddNodeIInv, ConfigureIInv, UnplugIInv, ConnectIInv, RemoveEndIInv,
   SyncEndIInv DEF Edit

LEMMA NextIInv ==
  ASSUME IInv, [Next]_vars
  PROVE  IInv'
BY CallbackIInv, UserIInv, ClockIInv, EditIInv, StutterIInv DEF Next

\* The kernel keeps its inductive invariant.
THEOREM Inductive == Spec => []IInv
<1>1. Init => IInv
  BY InitIInv
<1>2. IInv /\ [Next]_vars => IInv'
  BY NextIInv
<1>3. QED BY <1>1, <1>2, PTL DEF Spec

\* Plugged cables join devices of the network; one device leaves at a time.
THEOREM TypeCorrect == Spec => []TypeOK
<1>1. IInv => TypeOK
  BY DEF IInv
<1>2. QED BY <1>1, Inductive, PTL

\* No event that may still happen is earlier than one already processed.
THEOREM NothingInThePast == Spec => []NoPastEvents
<1>1. IInv => NoPastEvents
  BY DEF IInv
<1>2. QED BY <1>1, Inductive, PTL

\* A frame arrives only over the cable it was sent on, plugged in all along,
\* or as the last word of a leaving device.
THEOREM FramesNeedCables == Spec => []FrameNeedsItsCable
<1>1. IInv => FrameNeedsItsCable
  BY DEF IInv, CallInv
<1>2. QED BY <1>1, Inductive, PTL

\* A timer fires on the device that set it, not on a successor with its id,
\* unless it was set while the device was leaving.
THEOREM TimersAreTheirDevices == Spec => []TimersStayWithTheirDevice
<1>1. IInv => TimersStayWithTheirDevice
  BY DEF IInv, CallInv
<1>2. QED BY <1>1, Inductive, PTL

\* Between two user operations no normal event due is left unprocessed.
THEOREM ScreenShowsTheSimulated == Spec => []ScreenInStep
<1>1. ASSUME IInv PROVE ScreenInStep
  <2>1. /\ TypeOK /\ NoPastEvents /\ now \in Nat /\ shown \in Nat
        /\ job.kind = "idle" => now <= shown /\ (now = shown \/ AheadOfScreen)
    BY <1>1 DEF IInv, TypeOK, JobInv
  <2>2. \A e \in Sched : e.time \in Nat /\ e.time >= now
    BY <2>1, PendingNotPast, QueueTimes
  <2>3. QED BY <2>1, <2>2 DEF ScreenInStep, Idle, AheadOfScreen
<1>2. QED BY <1>1, Inductive, PTL

-----------------------------------------------------------------------------
(* Action properties.                                                      *)

LEMMA FireForward ==
  ASSUME IInv, NEW limit \in Nat, Fire(limit), graph' = graph, seq' = seq, removing' = removing
  PROVE  now' >= now
BY FireCore DEF IInv, TypeOK

LEMMA ClockStepForward ==
  ASSUME IInv, Clock
  PROVE  now' >= now /\ shown' >= shown
<1>1. /\ TypeOK /\ now \in Nat /\ shown \in Nat /\ job.limit \in Nat
      /\ \A e \in Sched : e.time \in Nat
  BY QueueTimes DEF IInv, TypeOK
<1>2. CASE RunStep
  BY <1>1, <1>2, FireForward DEF RunStep
<1>3. ASSUME NEW kind, RunEnd(kind) PROVE now' >= now /\ now' >= job.limit /\ job.kind = kind /\ now' \in Nat
  BY <1>1, <1>3, RunEndCore
<1>4. CASE ActPost \/ ActEnd \/ SyncSettled
  BY <1>1, <1>3, <1>4 DEF ActPost, ActEnd, SyncSettled
<1>5. CASE ForwardEnd
  <2>1. RunEnd("forward") /\ shown' = now'
    BY <1>5 DEF ForwardEnd
  <2>2. now' >= now /\ now' >= job.limit /\ job.kind = "forward" /\ now' \in Nat
    BY <2>1, <1>3
  <2>3. shown <= job.limit
    BY <2>2 DEF IInv, JobInv
  <2>4. QED BY <1>1, <2>1, <2>2, <2>3
<1>6. CASE FrameStep \/ FramePass \/ FrameJump
  <2>1. PICK limit \in Nat, t \in Nat : FrameFire(limit, t) \/ FrameFire(limit, t)
    <3>1. CASE FrameStep
      BY <3>1, <1>1 DEF FrameStep
    <3>2. CASE FramePass
      BY <3>2, <1>1 DEF FramePass
    <3>3. CASE FrameJump
      <4>1. PICK e \in Sched : \E t \in {e.time} \cup {b.time : b \in Background} : FrameFire(e.time, t)
        BY <3>3 DEF FrameJump
      <4>2. \A b \in Background : b.time \in Nat
        BY <1>1, QueueTimes
      <4>3. QED BY <1>1, <4>1, <4>2
    <3>4. QED BY <1>6, <3>1, <3>2, <3>3
  <2>2. Fire(limit) /\ graph' = graph /\ seq' = seq /\ shown' = shown /\ removing' = removing
    BY <2>1 DEF FrameFire
  <2>3. QED BY <2>2, <1>1, FireForward
<1>7. CASE FrameEnd
  <2>1. shown' = job.limit /\ now' = now /\ job.kind \in {"frame", "burst"}
    BY <1>7 DEF FrameEnd
  <2>2. shown <= job.limit
    BY <2>1 DEF IInv, JobInv
  <2>3. QED BY <2>1, <2>2, <1>1
<1>8. CASE FrameQuiet \/ \E dt \in Frames : FrameBegin(dt)
  BY <1>1, <1>8 DEF FrameQuiet, FrameBegin
<1>9. QED BY <1>2, <1>4, <1>5, <1>6, <1>7, <1>8 DEF Clock

LEMMA UserStepForward ==
  ASSUME IInv, User
  PROVE  now' >= now /\ shown' >= shown
<1>1. TypeOK /\ now \in Nat /\ shown \in Nat /\ \A e \in Sched : e.time \in Nat
  BY QueueTimes DEF IInv, TypeOK
<1>2. ASSUME NEW kind, NEW node, NEW more, Begin(kind, node, more)
      PROVE  now' >= now /\ shown' >= shown
  <2>1. shown' = SettleTime /\ now' = now
    BY <1>2 DEF Begin
  <2>2. QED BY <1>1, <2>1, SettleUp
<1>3. CASE \E l \in Links : DropNextOn(l)
  BY <1>1, <1>3 DEF DropNextOn
<1>4. CASE StepOne
  <2>1. PICK e \in Sched : Fire(e.time)
    BY <1>4 DEF StepOne
  <2>2. shown' = now' /\ job.kind = "idle"
        /\ graph' = graph /\ seq' = seq /\ removing' = removing
    BY <1>4 DEF StepOne, Idle
  <2>3. now' >= now
    BY <1>1, <2>1, <2>2, FireForward
  <2>4. shown <= now \/ AheadOfScreen
    BY <2>2, <1>1 DEF IInv, JobInv
  <2>5. Sched # {} /\ now' \in Nat
    BY <2>1, <1>1, FireTime
  <2>6. shown <= now'
    BY <1>1, <2>1, <2>4, <2>5, FireNotBehind
  <2>7. QED BY <2>2, <2>3, <2>5, <2>6, <1>1
<1>5. QED BY <1>2, <1>3, <1>4 DEF User, Act, FastForward, Sync

LEMMA CallbackKeepsClocks ==
  ASSUME Callback
  PROVE  now' = now /\ shown' = shown
<1>1. ASSUME NEW l \in Links, CtxSend(l) PROVE now' = now /\ shown' = shown
  BY <1>1 DEF CtxSend
<1>2. ASSUME NEW d, NEW b, CtxTimer(d, b) PROVE now' = now /\ shown' = shown
  BY <1>2 DEF CtxTimer
<1>3. ASSUME NEW t, CtxCancel(t) PROVE now' = now /\ shown' = shown
  BY <1>3 DEF CtxCancel
<1>4. ASSUME Return PROVE now' = now /\ shown' = shown
  BY <1>4 DEF Return
<1>5. QED BY <1>1, <1>2, <1>3, <1>4 DEF Callback

LEMMA EditKeepsClocks ==
  ASSUME Edit
  PROVE  now' = now /\ shown' = shown
<1>1. ASSUME NEW n, RemoveNode(n) \/ AddNode(n) \/ Configure(n) PROVE now' = now /\ shown' = shown
  BY <1>1 DEF RemoveNode, AddNode, Configure
<1>2. ASSUME NEW l, RemoveUnplug(l) \/ Unplug(l) \/ Connect(l) PROVE now' = now /\ shown' = shown
  BY <1>2 DEF RemoveUnplug, Unplug, Connect, Disconnect
<1>3. ASSUME RemoveEnd \/ SyncEnd PROVE now' = now /\ shown' = shown
  BY <1>3 DEF RemoveEnd, SyncEnd
<1>4. QED BY <1>1, <1>2, <1>3 DEF Edit

\* Whatever the user does between two frames, time never goes back.
THEOREM ClocksOnlyForward == Spec => ClocksForward
<1>1. IInv /\ [Next]_vars => [now' >= now /\ shown' >= shown]_<<now, shown>>
  <2> SUFFICES ASSUME IInv, [Next]_vars PROVE now' >= now /\ shown' >= shown
    OBVIOUS
  <2>1. now \in Nat /\ shown \in Nat
    BY DEF IInv, TypeOK
  <2>2. CASE Callback
    BY <2>1, <2>2, CallbackKeepsClocks
  <2>3. CASE Edit
    BY <2>1, <2>3, EditKeepsClocks
  <2>4. CASE UNCHANGED vars
    BY <2>1, <2>4 DEF vars
  <2>5. QED BY <2>2, <2>3, <2>4, ClockStepForward, UserStepForward DEF Next
<1>2. QED BY <1>1, Inductive, PTL DEF Spec, ClocksForward

\* What a step does to a frame that is marked graceful.
Kept(x) == \E y \in txs' : y.id = x.id /\ (y.lost => x.to \notin nodes)

LEMMA StillThere ==
  ASSUME NEW x \in txs, LiveTx(x), x \in txs'
  PROVE  Kept(x)
BY DEF Kept, LiveTx

LEMMA FireKeeps ==
  ASSUME NEW limit, Fire(limit), NEW x \in txs, LiveTx(x), x.graceful, x \in TxType
  PROVE  Kept(x)
<1>1. CASE \E t \in timers : FireBackground(t, limit) \/ FireTimer(t, limit)
  BY <1>1, StillThere DEF FireBackground, FireTimer
<1>2. CASE \E a \in actions : FireAction(a, limit)
  BY <1>2, StillThere DEF FireAction
<1>3. CASE \E z \in txs : FireDeliver(z, limit)
  <2>1. PICK z \in txs : FireDeliver(z, limit)
    BY <1>3
  <2> DEFINE arrives == z.to \in nodes /\ (z.link \in links \/ z.graceful)
             after   == [z EXCEPT !.queued = FALSE, !.lost = ~ arrives,
                                  !.lostAt = IF arrives THEN z.lostAt ELSE z.depart]
  <2>2. txs' = (txs \ {z}) \cup {after}
    BY <2>1 DEF FireDeliver
  <2>3. CASE x = z
    <3>1. after.id = x.id /\ (after.lost => x.to \notin nodes)
      BY <2>3 DEF TxType
    <3>2. after \in txs'
      BY <2>2
    <3>3. QED BY <3>1, <3>2 DEF Kept
  <2>4. CASE x # z
    BY <2>2, <2>4, StillThere
  <2>5. QED BY <2>3, <2>4
<1>4. QED BY <1>1, <1>2, <1>3 DEF Fire

LEMMA FrameEndKeeps ==
  ASSUME IInv, FrameEnd, NEW x \in txs, LiveTx(x)
  PROVE  Kept(x)
<1>1. /\ txs' = Pruned(txs, job.limit) /\ job.kind \in {"frame", "burst"}
      /\ job.kind = "frame" => Sched = {} \/ NothingToFire(job.limit)
  BY DEF FrameEnd
<1>2. /\ TxKey(x) \in Sched /\ TxKey(x).time = x.arrive /\ x.arrive \in Nat
      /\ x.arrive >= now /\ job.limit \in Nat /\ Retain \in Nat /\ now \in Nat
  BY InSched, KeyTimes, NetworkAssumption DEF IInv, TypeOK, TxType, NoPastEvents
<1>3. x.arrive >= job.limit
  <2>1. CASE job.kind = "burst"
    BY <2>1, <1>2 DEF IInv, JobInv
  <2>2. CASE job.kind = "frame"
    BY <2>2, <1>1, <1>2 DEF NothingToFire, NothingUntil
  <2>3. QED BY <2>1, <2>2, <1>1
<1>4. x \in txs'
  BY <1>1, <1>2, <1>3 DEF Pruned
<1>5. QED BY <1>4, StillThere

LEMMA DisconnectKeeps ==
  ASSUME NEW l, Disconnect(l), NEW x \in txs, LiveTx(x), x.graceful
  PROVE  Kept(x)
<1> DEFINE cut(y) == IF y.link = l /\ ~ y.lost /\ ~ y.graceful /\ y.arrive > now
                       THEN [y EXCEPT !.lost = TRUE, !.lostAt = now] ELSE y
<1>1. txs' = {cut(y) : y \in txs} /\ cut(x) = x
  BY DEF Disconnect
<1>2. QED BY <1>1, StillThere

\* The last words of a leaving device are lost only where nobody is left to
\* hear them.
THEOREM LastWordsArrive == Spec => GracefulArrives
<1>1. IInv /\ [Next]_vars =>
        [\A x \in txs : LiveTx(x) /\ x.graceful =>
           \E y \in txs' : y.id = x.id /\ (y.lost => x.to \notin nodes)]_txs
  <2> SUFFICES ASSUME IInv, [Next]_vars, NEW x \in txs, LiveTx(x), x.graceful PROVE Kept(x)
    BY DEF Kept
  <2>1. x \in TxType
    BY DEF IInv, TypeOK
  <2>2. CASE Callback
    <3>1. txs \subseteq txs'
      BY <2>2 DEF Callback, CtxSend, CtxTimer, CtxCancel, Return, queues
    <3>2. QED BY <3>1, StillThere
  <2>3. CASE User
    <3>1. CASE StepOne
      BY <3>1, <2>1, FireKeeps DEF StepOne
    <3>2. CASE ~ StepOne
      <4>1. txs' = txs
        BY <2>3, <3>2 DEF User, Act, FastForward, Sync, Begin, DropNextOn, queues
      <4>2. QED BY <4>1, StillThere
    <3>3. QED BY <3>1, <3>2
  <2>4. CASE Clock
    <3>1. CASE RunStep \/ FrameStep \/ FramePass \/ FrameJump
      BY <3>1, <2>1, FireKeeps DEF RunStep, FrameStep, FramePass, FrameJump, FrameFire
    <3>2. CASE FrameEnd
      BY <3>2, FrameEndKeeps
    <3>3. CASE ActPost \/ ActEnd \/ ForwardEnd \/ SyncSettled \/ FrameQuiet
               \/ \E dt \in Frames : FrameBegin(dt)
      <4>1. txs' = txs
        BY <3>3 DEF ActPost, ActEnd, ForwardEnd, SyncSettled, RunEnd, FrameQuiet, FrameBegin
      <4>2. QED BY <4>1, StillThere
    <3>4. QED BY <2>4, <3>1, <3>2, <3>3 DEF Clock
  <2>5. CASE Edit
    <3>1. CASE \E l \in Links : RemoveUnplug(l) \/ Unplug(l)
      BY <3>1, DisconnectKeeps DEF RemoveUnplug, Unplug
    <3>2. CASE ~ \E l \in Links : RemoveUnplug(l) \/ Unplug(l)
      <4>1. txs' = txs
        BY <2>5, <3>2 DEF Edit, RemoveNode, AddNode, Configure, Connect, RemoveEnd, SyncEnd, queues
      <4>2. QED BY <4>1, StillThere
    <3>3. QED BY <3>1, <3>2
  <2>6. CASE UNCHANGED vars
    BY <2>6, StillThere DEF vars, queues
  <2>7. QED BY <2>2, <2>3, <2>4, <2>5, <2>6 DEF Next
<1>2. QED BY <1>1, Inductive, PTL DEF Spec, GracefulArrives
=============================================================================
