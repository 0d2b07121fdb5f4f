------------------------------ MODULE HaProofs -------------------------------
(***************************************************************************)
(* Proofs about high availability (Ha): for any boxes, interfaces and      *)
(* priorities, whatever is pulled, lost or reconfigured, no box that could *)
(* serve is left without a timer or a master to wait for (IInv, the first  *)
(* part); and if no advert is lost no two boxes that hear each other stay  *)
(* master, and no switch points at the master of before (MInv, the second  *)
(* part).                                                                  *)
(***************************************************************************)
EXTENDS Ha, FiniteSetTheorems, FunctionTheorems, SequenceTheorems, TLAPS

-------------------------------------------------------------------------------
(* The inductive invariant *)

MaybeTimer == Nat \cup {None}

BoxType ==
  [on : BOOLEAN, prio : Prios, advert : BOOLEAN, state : {"init", "backup", "master"},
   known : BOOLEAN, ready : BOOLEAN, armed : MaybeTimer, adv : MaybeTimer,
   watch : MaybeTimer, up : SUBSET Ifaces]

\* ready remembers whether the box could serve when its links last changed
ReadyFits(x) == x.on => (x.ready <=> Eff(x) > 0)

\* SomebodyWaits for one box
Waits(x) ==
  (x.on /\ x.state # "master" /\ Eff(x) > 0) =>
    x.armed # None \/ (x.known /\ (x.advert => x.watch # None))

Sound(x) == x \in BoxType /\ ReadyFits(x) /\ Waits(x)

IInv == box \in [Boxes -> BoxType] /\ \A b \in Boxes : ReadyFits(box[b]) /\ Waits(box[b])

LEMMA IInvImplies == IInv => SomebodyWaits
BY DEF IInv, Waits, SomebodyWaits, Alive, Master

-------------------------------------------------------------------------------
(* Timers and priorities *)

LEMMA EffType ==
  ASSUME NEW x \in BoxType
  PROVE  /\ Eff(x) \in Nat /\ Eff(x) <= TopPrio
         /\ Eff(x) > 0 <=> (x.on /\ x.up = Ifaces)
<1>1. x.prio \in Prios
  BY DEF BoxType
<1>2. TopPrio \in Nat /\ \A p \in Prios : p \in 1 .. TopPrio
  BY HaAssumption
<1>3. x.prio \in Nat /\ 1 <= x.prio /\ x.prio <= TopPrio
  BY <1>1, <1>2
<1>4. QED BY <1>2, <1>3 DEF Eff

\* A timer that is set is not None.
LEMMA TimerSet ==
  /\ \A p \in Nat : p <= TopPrio =>
       /\ Skew(p) \in Nat /\ Skew(p) # None
       /\ MasterDown + Skew(p) \in Nat /\ MasterDown + Skew(p) # None
  /\ AdvertInterval \in MaybeTimer
<1>1. TopPrio \in Nat /\ None \notin Nat
  BY HaAssumption
<1>2. \A p \in Nat : p <= TopPrio => Skew(p) \in Nat /\ MasterDown + Skew(p) \in Nat
  BY <1>1 DEF Skew, MasterDown
<1>3. QED BY <1>1, <1>2 DEF AdvertInterval, MaybeTimer

-------------------------------------------------------------------------------
(* What a box does *)

LEMMA QuietSound ==
  ASSUME NEW x, Sound(x)
  PROVE  Sound(Quiet(x).box)
BY DEF Quiet, Does

LEMMA WatchType ==
  ASSUME NEW x \in BoxType
  PROVE  /\ Watch(x) \in BoxType
         /\ \E t \in MaybeTimer : Watch(x) = [x EXCEPT !.watch = t] /\ (x.advert => t # None)
<1>1. MasterDown + Skew(Eff(x)) \in Nat /\ MasterDown + Skew(Eff(x)) # None
  BY EffType, TimerSet
<1>2. CASE x.advert
  <2>1. Watch(x) = [x EXCEPT !.watch = MasterDown + Skew(Eff(x))]
    BY <1>2 DEF Watch
  <2>2. MasterDown + Skew(Eff(x)) \in MaybeTimer
    BY <1>1 DEF MaybeTimer
  <2>3. \A t \in MaybeTimer : [x EXCEPT !.watch = t] \in BoxType
    BY DEF BoxType
  <2>4. QED BY <1>1, <2>1, <2>2, <2>3
<1>3. CASE ~ x.advert
  <2>1. Watch(x) = x /\ x.watch \in MaybeTimer /\ x = [x EXCEPT !.watch = x.watch]
    BY <1>3 DEF Watch, BoxType
  <2>2. QED BY <1>3, <2>1
<1>4. QED BY <1>2, <1>3

LEMMA ScheduleAdvertType ==
  ASSUME NEW x \in BoxType
  PROVE  \E t \in MaybeTimer : ScheduleAdvert(x) = [x EXCEPT !.adv = t]
<1>1. AdvertInterval \in MaybeTimer /\ x.adv \in MaybeTimer
  BY TimerSet DEF BoxType
<1>2. x = [x EXCEPT !.adv = x.adv]
  BY DEF BoxType
<1>3. QED BY <1>1, <1>2 DEF ScheduleAdvert

\* Knowing a master and watching it is enough.
LEMMA KnownWatched ==
  ASSUME NEW x \in BoxType, x.known, ReadyFits(x)
  PROVE  Sound(Watch(x))
<1>1. PICK t \in MaybeTimer : Watch(x) = [x EXCEPT !.watch = t] /\ (x.advert => t # None)
  BY WatchType
<1> DEFINE y == [x EXCEPT !.watch = t]
<1>2. y \in BoxType /\ y.watch = t /\ y.known /\ y.advert = x.advert
      /\ y.on = x.on /\ y.ready = x.ready /\ Eff(y) = Eff(x)
  BY DEF BoxType, Eff
<1> HIDE DEF y
<1>3. ReadyFits(y) /\ Waits(y)
  BY <1>1, <1>2 DEF ReadyFits, Waits
<1>4. QED BY <1>1, <1>2, <1>3 DEF Sound, y

\* So is counting down.
LEMMA ArmedSound ==
  ASSUME NEW x \in BoxType, ReadyFits(x), NEW t \in Nat
  PROVE  Sound(Arm(x, t))
<1> DEFINE y == [x EXCEPT !.armed = t]
<1>1. t \in MaybeTimer /\ t # None
  BY HaAssumption DEF MaybeTimer
<1>2. y \in BoxType /\ y.armed = t /\ y.on = x.on /\ y.ready = x.ready /\ Eff(y) = Eff(x)
  BY <1>1 DEF BoxType, Eff
<1> HIDE DEF y
<1>3. ReadyFits(y) /\ Waits(y)
  BY <1>1, <1>2 DEF ReadyFits, Waits
<1>4. QED BY <1>2, <1>3 DEF Sound, Arm, y

\* And so is being master.
LEMMA MasterSound ==
  ASSUME NEW x \in BoxType, ReadyFits(x), x.state = "master"
  PROVE  Sound(ScheduleAdvert(x))
<1>1. PICK t \in MaybeTimer : ScheduleAdvert(x) = [x EXCEPT !.adv = t]
  BY ScheduleAdvertType
<1> DEFINE y == [x EXCEPT !.adv = t]
<1>2. y \in BoxType /\ y.state = "master" /\ y.on = x.on /\ y.ready = x.ready /\ Eff(y) = Eff(x)
  BY DEF BoxType, Eff
<1> HIDE DEF y
<1>3. ReadyFits(y) /\ Waits(y)
  BY <1>2 DEF ReadyFits, Waits
<1>4. QED BY <1>1, <1>2, <1>3 DEF Sound, y

LEMMA StartSound ==
  ASSUME NEW x \in BoxType, NEW b
  PROVE  Sound(Start(x, b).box)
<1> DEFINE y == [x EXCEPT !.state = "backup", !.ready = Eff(x) > 0]
<1>1. (Eff(x) > 0) \in BOOLEAN
  OBVIOUS
<1>2. y \in BoxType /\ y.on = x.on /\ Eff(y) = Eff(x) /\ y.ready = (Eff(x) > 0)
  BY <1>1 DEF BoxType, Eff
<1>3. ReadyFits(y)
  BY <1>2 DEF ReadyFits
<1>4. CASE Eff(x) = 0
  <2>1. Start(x, b).box = y
    BY <1>4 DEF Start, Quiet, Does
  <2>2. Waits(y)
    BY <1>2, <1>4 DEF Waits
  <2>3. QED BY <1>2, <1>3, <2>1, <2>2 DEF Sound
<1>5. CASE Eff(x) # 0
  <2>1. Start(x, b).box = Arm(y, MasterDown + Skew(Eff(x)))
    BY <1>5 DEF Start, Does
  <2>2. MasterDown + Skew(Eff(x)) \in Nat
    BY EffType, TimerSet
  <2>3. QED BY <1>2, <1>3, <2>1, <2>2, ArmedSound
<1>6. QED BY <1>4, <1>5

LEMMA BecomeMasterSound ==
  ASSUME NEW x \in BoxType, ReadyFits(x), NEW b
  PROVE  Sound(BecomeMaster(x, b).box)
<1> DEFINE y == [x EXCEPT !.state = "master", !.known = FALSE, !.watch = None]
<1>1. y \in BoxType /\ y.state = "master" /\ y.on = x.on /\ y.ready = x.ready /\ Eff(y) = Eff(x)
  BY DEF BoxType, MaybeTimer, Eff
<1>2. ReadyFits(y)
  BY <1>1 DEF ReadyFits
<1>3. BecomeMaster(x, b).box = ScheduleAdvert(y)
  BY DEF BecomeMaster, Does
<1> HIDE DEF y
<1>4. QED BY <1>1, <1>2, <1>3, MasterSound

\* A master resigns because it knows a better one, or cannot serve.
LEMMA ResignSound ==
  ASSUME NEW x \in BoxType, ReadyFits(x), NEW b, x.state = "master", x.known \/ Eff(x) = 0
  PROVE  Sound(Resign(x, b).box)
<1> DEFINE y == [x EXCEPT !.state = "backup", !.adv = None]
<1>1. y \in BoxType /\ y.known = x.known /\ y.on = x.on /\ y.ready = x.ready /\ Eff(y) = Eff(x)
  BY DEF BoxType, MaybeTimer, Eff
<1>2. ReadyFits(y)
  BY <1>1 DEF ReadyFits
<1>3. Resign(x, b).box = Watch(y)
  BY DEF Resign, Does
<1> HIDE DEF y
<1>4. CASE x.known
  BY <1>1, <1>2, <1>3, <1>4, KnownWatched
<1>5. CASE Eff(x) = 0
  <2>1. PICK t \in MaybeTimer : Watch(y) = [y EXCEPT !.watch = t]
    BY <1>1, WatchType
  <2> DEFINE z == [y EXCEPT !.watch = t]
  <2>2. z \in BoxType /\ z.on = y.on /\ z.ready = y.ready /\ Eff(z) = Eff(y)
    BY <1>1 DEF BoxType, Eff
  <2> HIDE DEF z
  <2>3. ReadyFits(z) /\ Waits(z)
    BY <1>1, <1>2, <1>5, <2>2 DEF ReadyFits, Waits
  <2>4. QED BY <1>3, <2>1, <2>2, <2>3 DEF Sound, z
<1>6. QED BY <1>4, <1>5

LEMMA SetTypes ==
  ASSUME NEW x \in BoxType
  PROVE  /\ \A v \in BOOLEAN : [x EXCEPT !.known = v] \in BoxType
         /\ \A v \in BOOLEAN : [x EXCEPT !.ready = v] \in BoxType
         /\ \A v \in SUBSET Ifaces : [x EXCEPT !.up = v] \in BoxType
         /\ \A t \in MaybeTimer : [x EXCEPT !.armed = t] \in BoxType
BY DEF BoxType

LEMMA OnLinksSound ==
  ASSUME NEW x \in BoxType, NEW up \in SUBSET Ifaces, Sound(x), NEW b
  PROVE  Sound(OnLinks([x EXCEPT !.up = up], b).box)
<1> DEFINE z == [x EXCEPT !.up = up]
           y == [z EXCEPT !.ready = Eff(z) > 0]
<1>1. z \in BoxType /\ z.on = x.on /\ z.state = x.state /\ z.ready = x.ready
      /\ z.armed = x.armed /\ z.known = x.known /\ z.advert = x.advert /\ z.watch = x.watch
  BY DEF BoxType
<1>2. ReadyFits(x) /\ Waits(x)
  BY DEF Sound
<1> HIDE DEF z
<1>3. y \in BoxType /\ y.on = z.on /\ y.state = z.state /\ y.ready = (Eff(z) > 0) /\ Eff(y) = Eff(z)
      /\ y.armed = z.armed /\ y.known = z.known /\ y.advert = z.advert /\ y.watch = z.watch
  <2>1. (Eff(z) > 0) \in BOOLEAN
    OBVIOUS
  <2>2. QED BY <1>1, <2>1 DEF BoxType, Eff
<1> HIDE DEF y
<1>4. ReadyFits(y)
  BY <1>3 DEF ReadyFits
<1>5. Eff(z) \in Nat
  BY <1>1, EffType
<1>6. CASE ~ z.on
  <2>1. OnLinks(z, b).box = z
    BY <1>6 DEF OnLinks, Quiet, Does
  <2>2. QED BY <1>1, <1>6, <2>1 DEF Sound, ReadyFits, Waits, z
<1>7. CASE z.on /\ z.state = "master" /\ Eff(z) = 0
  <2>1. OnLinks(z, b).box = Resign(y, b).box
    BY <1>7 DEF OnLinks, y
  <2>2. QED BY <1>3, <1>4, <1>7, <2>1, ResignSound DEF z
<1>8. CASE z.on /\ z.state # "master" /\ Eff(z) > 0 /\ ~ z.ready
  <2>1. OnLinks(z, b).box = Start(y, b).box
    BY <1>8 DEF OnLinks, y
  <2>2. QED BY <1>3, <2>1, StartSound DEF z
<1>9. CASE z.on /\ ~ (z.state = "master" /\ Eff(z) = 0) /\ ~ (z.state # "master" /\ Eff(z) > 0 /\ ~ z.ready)
  <2>1. OnLinks(z, b).box = y
    BY <1>9 DEF OnLinks, Quiet, Does, y
  <2>2. Waits(y)
    <3> SUFFICES ASSUME y.on, y.state # "master", Eff(y) > 0
                 PROVE  y.armed # None \/ (y.known /\ (y.advert => y.watch # None))
      BY DEF Waits
    <3>1. x.ready /\ x.on /\ x.state # "master"
      BY <1>1, <1>3, <1>9
    <3>2. Eff(x) > 0
      BY <1>2, <3>1 DEF ReadyFits
    <3>3. QED BY <1>1, <1>2, <1>3, <3>1, <3>2 DEF Waits
  <2>3. QED BY <1>3, <1>4, <2>1, <2>2 DEF Sound, z
<1>10. QED BY <1>5, <1>6, <1>7, <1>8, <1>9 DEF z

LEMMA SetConfigSound ==
  ASSUME NEW x \in BoxType, Sound(x), NEW on \in BOOLEAN, NEW p \in Prios, NEW b
  PROVE  Sound(SetConfig(x, b, on, p).box)
<1> DEFINE q == Resign(x, b).box
           y == [q EXCEPT !.on = on, !.prio = p, !.state = "init", !.known = FALSE,
                          !.adv = None, !.watch = None]
<1>1. q \in BoxType
  <2>1. CASE x.state # "master"
    BY <2>1 DEF Resign, Quiet, Does
  <2>2. CASE x.state = "master"
    <3> DEFINE w == [x EXCEPT !.state = "backup", !.adv = None]
    <3>1. w \in BoxType
      BY DEF BoxType, MaybeTimer
    <3>2. q = Watch(w)
      BY <2>2 DEF Resign, Does
    <3> HIDE DEF w, q
    <3>3. QED BY <3>1, <3>2, WatchType
  <2>3. QED BY <2>1, <2>2
<1> HIDE DEF q
<1>2. y \in BoxType /\ y.on = on
  BY <1>1 DEF BoxType, MaybeTimer
<1>3. SetConfig(x, b, on, p).box = IF on THEN Start(y, b).box ELSE y
  BY DEF SetConfig, Then, Does, Quiet, q
<1> HIDE DEF y
<1>4. CASE on
  BY <1>2, <1>3, <1>4, StartSound
<1>5. CASE ~ on
  BY <1>2, <1>3, <1>5 DEF Sound, ReadyFits, Waits
<1>6. QED BY <1>4, <1>5

LEMMA SetAdvertSound ==
  ASSUME NEW x \in BoxType, Sound(x), NEW v \in BOOLEAN
  PROVE  Sound(SetAdvert(x, v))
<1> DEFINE y == [x EXCEPT !.advert = v, !.adv = None, !.watch = None]
<1>1. /\ y \in BoxType /\ y.on = x.on /\ y.ready = x.ready /\ Eff(y) = Eff(x)
      /\ y.state = x.state /\ y.known = x.known /\ y.armed = x.armed
  BY DEF BoxType, MaybeTimer, Eff
<1>2. ReadyFits(x) /\ Waits(x)
  BY DEF Sound
<1>3. SetAdvert(x, v) = IF x.state = "master" THEN ScheduleAdvert(y)
                        ELSE IF x.known THEN Watch(y) ELSE y
  BY DEF SetAdvert
<1> HIDE DEF y
<1>4. ReadyFits(y)
  BY <1>1, <1>2 DEF ReadyFits
<1>5. CASE x.state = "master"
  BY <1>1, <1>3, <1>4, <1>5, MasterSound
<1>6. CASE x.state # "master" /\ x.known
  BY <1>1, <1>3, <1>4, <1>6, KnownWatched
<1>7. CASE x.state # "master" /\ ~ x.known
  <2>1. Waits(y)
    BY <1>1, <1>2, <1>7 DEF Waits
  <2>2. QED BY <1>1, <1>3, <1>4, <1>7, <2>1 DEF Sound
<1>8. QED BY <1>5, <1>6, <1>7

LEMMA HandleSound ==
  ASSUME NEW x \in BoxType, Sound(x), NEW b, NEW m
  PROVE  Sound(Handle(x, b, m).box)
<1>0. ReadyFits(x) /\ Waits(x)
  BY DEF Sound
<1>1. CASE ~ x.on
  BY <1>1, QuietSound DEF Handle
<1>2. CASE x.on /\ x.state = "master"
  <2>1. Handle(x, b, m) = HeardByMaster(x, b, m)
    BY <1>2 DEF Handle
  <2>2. CASE m.prio > 0 /\ Outranks(m, Eff(x), b)
    <3> DEFINE y == [x EXCEPT !.known = TRUE]
    <3>1. y \in BoxType /\ y.known /\ y.state = "master" /\ y.on = x.on /\ y.ready = x.ready
          /\ Eff(y) = Eff(x)
      BY <1>2 DEF BoxType, Eff
    <3>2. HeardByMaster(x, b, m) = Resign(y, b)
      BY <2>2 DEF HeardByMaster
    <3> HIDE DEF y
    <3>3. ReadyFits(y)
      BY <1>0, <3>1 DEF ReadyFits
    <3>4. QED BY <2>1, <3>1, <3>2, <3>3, ResignSound
  <2>3. CASE ~ (m.prio > 0 /\ Outranks(m, Eff(x), b))
    <3>1. HeardByMaster(x, b, m).box = x
      BY <2>3 DEF HeardByMaster, Does
    <3>2. QED BY <2>1, <3>1
  <2>4. QED BY <2>2, <2>3
<1>3. CASE x.on /\ x.state # "master" /\ m.prio = 0
  <2>1. Handle(x, b, m) = HeardLeave(x)
    BY <1>3 DEF Handle
  <2>2. CASE Eff(x) = 0
    BY <2>1, <2>2, QuietSound DEF HeardLeave
  <2>3. CASE Eff(x) # 0
    <3> DEFINE y == [x EXCEPT !.known = FALSE]
    <3>1. y \in BoxType /\ y.on = x.on /\ y.ready = x.ready /\ Eff(y) = Eff(x)
      BY DEF BoxType, Eff
    <3>2. HeardLeave(x).box = Arm(y, Skew(Eff(x)))
      BY <2>3 DEF HeardLeave, Quiet, Does
    <3> HIDE DEF y
    <3>3. ReadyFits(y) /\ Skew(Eff(x)) \in Nat
      BY <1>0, <3>1, EffType, TimerSet DEF ReadyFits
    <3>4. QED BY <2>1, <3>1, <3>2, <3>3, ArmedSound
  <2>4. QED BY <2>2, <2>3
<1>4. CASE x.on /\ x.state # "master" /\ m.prio # 0 /\ m.prio > 0 /\ Outranks(m, Eff(x), b)
  <2>1. Handle(x, b, m) = HeardBetter(x, m)
    BY <1>4 DEF Handle
  <2>2. CASE m.cand
    BY <2>1, <2>2, QuietSound DEF HeardBetter
  <2>3. CASE ~ m.cand
    <3> DEFINE y == [x EXCEPT !.armed = None, !.known = TRUE]
    <3>1. y \in BoxType /\ y.known /\ y.on = x.on /\ y.ready = x.ready /\ Eff(y) = Eff(x)
      BY DEF BoxType, MaybeTimer, Eff
    <3>2. HeardBetter(x, m).box = Watch(y)
      BY <2>3 DEF HeardBetter, Quiet, Does
    <3> HIDE DEF y
    <3>3. ReadyFits(y)
      BY <1>0, <3>1 DEF ReadyFits
    <3>4. QED BY <2>1, <3>1, <3>2, <3>3, KnownWatched
  <2>4. QED BY <2>2, <2>3
<1>5. CASE x.on /\ x.state # "master" /\ m.prio # 0 /\ ~ (m.prio > 0 /\ Outranks(m, Eff(x), b))
  <2>1. Handle(x, b, m).box = Arm(x, Skew(Eff(x)))
    BY <1>5 DEF Handle, HeardWorse, Does
  <2>2. Skew(Eff(x)) \in Nat
    BY EffType, TimerSet
  <2>3. QED BY <1>0, <2>1, <2>2, ArmedSound
<1>6. QED BY <1>1, <1>2, <1>3, <1>4, <1>5

-------------------------------------------------------------------------------
(* The invariant *)

\* A step in which one box alone changes, and soundly, keeps the invariant.
LEMMA OneBoxKeeps ==
  ASSUME IInv, NEW b \in Boxes, NEW y, Sound(y), box' = [box EXCEPT ![b] = y]
  PROVE  IInv'
<1>1. \A c \in Boxes : box'[c] = IF c = b THEN y ELSE box[c]
  BY DEF IInv
<1>2. box' \in [Boxes -> BoxType]
  BY DEF IInv, Sound
<1>3. \A c \in Boxes : ReadyFits(box'[c]) /\ Waits(box'[c])
  BY <1>1 DEF IInv, Sound
<1>4. QED BY <1>2, <1>3 DEF IInv

LEMMA SoundBox ==
  ASSUME IInv, NEW b \in Boxes
  PROVE  box[b] \in BoxType /\ Sound(box[b])
BY DEF IInv, Sound

\* A box that has just been set up has started.
LEMMA InitIInv == Init => IInv
<1> SUFFICES ASSUME Init PROVE IInv
  OBVIOUS
<1>1. PICK prio \in [Boxes -> Prios], advert \in Adverts :
        box = [b \in Boxes |-> Start(Fresh(prio[b], advert, Ifaces), b).box]
  BY DEF Init
<1>2. ASSUME NEW b \in Boxes
      PROVE  Sound(Start(Fresh(prio[b], advert, Ifaces), b).box)
  <2>1. Fresh(prio[b], advert, Ifaces) \in BoxType
    BY HaAssumption DEF Fresh, BoxType, MaybeTimer
  <2>2. QED BY <2>1, StartSound
<1>3. \A b \in Boxes : Sound(box[b])
  BY <1>1, <1>2
<1>4. QED BY <1>1, <1>3 DEF IInv, Sound

LEMMA DeliverKeeps ==
  ASSUME IInv, NEW i \in Ifaces, NEW b \in Boxes, Deliver(i, b)
  PROVE  IInv'
<1> DEFINE m == Head(wire[i][b])
           r == IF i \in box[b].up /\ m # Vanished THEN Handle(box[b], b, m) ELSE Quiet(box[b])
<1>1. box' = [box EXCEPT ![b] = r.box]
  BY DEF Deliver, Act
<1>2. Sound(Handle(box[b], b, m).box) /\ Sound(Quiet(box[b]).box)
  BY SoundBox, HandleSound, QuietSound
<1>3. Sound(r.box)
  BY <1>2
<1>4. QED BY <1>1, <1>3, OneBoxKeeps

LEMMA ExpireAdvertKeeps ==
  ASSUME IInv, NEW b \in Boxes, ExpireAdvert(b)
  PROVE  IInv'
<1> DEFINE x == [box[b] EXCEPT !.adv = None]
           y == IF x.on /\ x.state = "master" THEN ScheduleAdvert(x) ELSE x
<1>1. box' = [box EXCEPT ![b] = y]
  BY DEF ExpireAdvert, Act, Does, Quiet
<1>2. /\ x \in BoxType /\ x.on = box[b].on /\ x.ready = box[b].ready /\ Eff(x) = Eff(box[b])
      /\ x.state = box[b].state /\ x.known = box[b].known /\ x.armed = box[b].armed
      /\ x.advert = box[b].advert /\ x.watch = box[b].watch
  BY SoundBox DEF BoxType, MaybeTimer, Eff
<1>3. ReadyFits(x) /\ Waits(x)
  BY <1>2, SoundBox DEF Sound, ReadyFits, Waits
<1> HIDE DEF x
<1>4. Sound(x)
  BY <1>2, <1>3 DEF Sound
<1>5. Sound(y)
  BY <1>2, <1>3, <1>4, MasterSound
<1>6. QED BY <1>1, <1>5, OneBoxKeeps

\* Whoever watched in vain becomes master, unless it counts down already.
LEMMA ExpireWatchKeeps ==
  ASSUME IInv, NEW b \in Boxes, ExpireWatch(b)
  PROVE  IInv'
<1> DEFINE x == [box[b] EXCEPT !.watch = None]
           r == IF x.state = "master" \/ x.armed # None \/ Eff(x) = 0
                  THEN Quiet(x) ELSE BecomeMaster(x, b)
<1>1. box' = [box EXCEPT ![b] = r.box]
  BY DEF ExpireWatch, Act
<1>2. x \in BoxType /\ x.on = box[b].on /\ x.ready = box[b].ready /\ Eff(x) = Eff(box[b])
  BY SoundBox DEF BoxType, MaybeTimer, Eff
<1>3. ReadyFits(x)
  BY <1>2, SoundBox DEF Sound, ReadyFits
<1> HIDE DEF x
<1>4. CASE x.state = "master" \/ x.armed # None \/ Eff(x) = 0
  <2>1. Waits(x)
    BY <1>2, <1>4 DEF Waits
  <2>2. r.box = x
    BY <1>4 DEF Quiet, Does
  <2>3. Sound(r.box)
    BY <1>2, <1>3, <2>1, <2>2 DEF Sound
  <2>4. QED BY <1>1, <2>3, OneBoxKeeps
<1>5. CASE ~ (x.state = "master" \/ x.armed # None \/ Eff(x) = 0)
  <2>1. Sound(BecomeMaster(x, b).box)
    BY <1>2, <1>3, BecomeMasterSound
  <2>2. box' = [box EXCEPT ![b] = BecomeMaster(x, b).box]
    BY <1>1, <1>5
  <2>3. QED BY <2>1, <2>2, OneBoxKeeps
<1>6. QED BY <1>4, <1>5

LEMMA ExpireArmedKeeps ==
  ASSUME IInv, NEW b \in Boxes, ExpireArmed(b)
  PROVE  IInv'
<1> DEFINE x == [box[b] EXCEPT !.armed = None]
           r == IF x.state = "master" \/ Eff(x) = 0 THEN Quiet(x) ELSE BecomeMaster(x, b)
<1>1. box' = [box EXCEPT ![b] = r.box]
  BY DEF ExpireArmed, Act
<1>2. x \in BoxType /\ x.on = box[b].on /\ x.ready = box[b].ready /\ Eff(x) = Eff(box[b])
  BY SoundBox DEF BoxType, MaybeTimer, Eff
<1>3. ReadyFits(x)
  BY <1>2, SoundBox DEF Sound, ReadyFits
<1> HIDE DEF x
<1>4. CASE x.state = "master" \/ Eff(x) = 0
  <2>1. Waits(x)
    BY <1>2, <1>4 DEF Waits
  <2>2. r.box = x
    BY <1>4 DEF Quiet, Does
  <2>3. Sound(r.box)
    BY <1>2, <1>3, <2>1, <2>2 DEF Sound
  <2>4. QED BY <1>1, <2>3, OneBoxKeeps
<1>5. CASE ~ (x.state = "master" \/ Eff(x) = 0)
  <2>1. Sound(BecomeMaster(x, b).box)
    BY <1>2, <1>3, BecomeMasterSound
  <2>2. box' = [box EXCEPT ![b] = BecomeMaster(x, b).box]
    BY <1>1, <1>5
  <2>3. QED BY <2>1, <2>2, OneBoxKeeps
<1>6. QED BY <1>4, <1>5

\* Time unsets no timer: what is due fires first.
LEMMA TickKeeps ==
  ASSUME IInv, Tick
  PROVE  IInv'
<1> DEFINE y(b) == [box[b] EXCEPT !.adv = Down(box[b].adv), !.watch = Down(box[b].watch),
                                  !.armed = Down(box[b].armed)]
<1>1. box' = [b \in Boxes |-> y(b)]
  BY DEF Tick
<1>2. \A t \in MaybeTimer : t # 0 => Down(t) \in MaybeTimer /\ (t # None => Down(t) # None)
  <2>1. None \notin Nat
    BY HaAssumption
  <2>2. QED BY <2>1 DEF Down, MaybeTimer
<1>3. ASSUME NEW b \in Boxes PROVE Sound(y(b))
  <2> DEFINE x == box[b]
  <2>1. x \in BoxType /\ ReadyFits(x) /\ Waits(x)
    BY SoundBox DEF Sound
  <2>2. x.adv # 0 /\ x.watch # 0 /\ x.armed # 0
    BY DEF Tick, Due
  <2>3. x.adv \in MaybeTimer /\ x.watch \in MaybeTimer /\ x.armed \in MaybeTimer
    BY <2>1 DEF BoxType
  <2>4. /\ Down(x.adv) \in MaybeTimer /\ Down(x.watch) \in MaybeTimer /\ Down(x.armed) \in MaybeTimer
        /\ x.watch # None => Down(x.watch) # None
        /\ x.armed # None => Down(x.armed) # None
    BY <1>2, <2>2, <2>3
  <2>5. \A s, t, u \in MaybeTimer : [x EXCEPT !.adv = s, !.watch = t, !.armed = u] \in BoxType
    BY <2>1 DEF BoxType
  <2>6. y(b) \in BoxType
    BY <2>4, <2>5
  <2>7. /\ y(b).on = x.on /\ y(b).ready = x.ready /\ Eff(y(b)) = Eff(x)
        /\ y(b).state = x.state /\ y(b).known = x.known /\ y(b).advert = x.advert
        /\ y(b).watch = Down(x.watch) /\ y(b).armed = Down(x.armed)
    BY <2>1 DEF BoxType, Eff
  <2> HIDE DEF x, y
  <2>8. ReadyFits(y(b)) /\ Waits(y(b))
    BY <2>1, <2>4, <2>7 DEF ReadyFits, Waits
  <2>9. QED BY <2>6, <2>8 DEF Sound
<1> HIDE DEF y
<1>4. QED BY <1>1, <1>3 DEF IInv, Sound

LEMMA CableKeeps ==
  ASSUME IInv, NEW b \in Boxes, NEW i \in Ifaces, CableOut(b, i) \/ CableIn(b, i)
  PROVE  IInv'
<1>1. box[b] \in BoxType /\ Sound(box[b]) /\ box[b].up \subseteq Ifaces
  BY SoundBox DEF BoxType
<1>2. CASE CableOut(b, i)
  <2> DEFINE r == OnLinks([box[b] EXCEPT !.up = box[b].up \ {i}], b)
  <2>1. box' = [box EXCEPT ![b] = r.box]
    BY <1>2 DEF CableOut, Act
  <2>2. Sound(r.box)
    BY <1>1, OnLinksSound
  <2> HIDE DEF r
  <2>3. QED BY <2>1, <2>2, OneBoxKeeps
<1>3. CASE CableIn(b, i)
  <2> DEFINE r == OnLinks([box[b] EXCEPT !.up = box[b].up \cup {i}], b)
  <2>1. box' = [box EXCEPT ![b] = r.box]
    BY <1>3 DEF CableIn, Poked
  <2>2. Sound(r.box)
    BY <1>1, OnLinksSound
  <2> HIDE DEF r
  <2>3. QED BY <2>1, <2>2, OneBoxKeeps
<1>4. QED BY <1>2, <1>3

LEMMA SetConfigKeeps ==
  ASSUME IInv, NEW b \in Boxes, SwitchAdvert(b) \/ Reconfigure(b)
  PROVE  IInv'
<1>1. CASE SwitchAdvert(b)
  <2>1. PICK v \in Adverts : box' = [box EXCEPT ![b] = Quiet(SetAdvert(box[b], v)).box]
    BY <1>1 DEF SwitchAdvert, Act
  <2>2. v \in BOOLEAN
    BY <2>1, HaAssumption
  <2>3. Sound(SetAdvert(box[b], v))
    BY <2>2, SoundBox, SetAdvertSound
  <2>4. Sound(Quiet(SetAdvert(box[b], v)).box)
    BY <2>3, QuietSound
  <2>5. QED BY <2>1, <2>4, OneBoxKeeps
<1>2. CASE Reconfigure(b)
  <2>1. PICK on \in BOOLEAN, p \in Prios : box' = [box EXCEPT ![b] = SetConfig(box[b], b, on, p).box]
    BY <1>2 DEF Reconfigure, Act
  <2>2. Sound(SetConfig(box[b], b, on, p).box)
    BY SoundBox, SetConfigSound
  <2>3. QED BY <2>1, <2>2, OneBoxKeeps
<1>3. QED BY <1>1, <1>2

LEMMA StepIInv == IInv /\ [Next]_vars => IInv'
<1> SUFFICES ASSUME IInv, [Next]_vars PROVE IInv'
  OBVIOUS
<1>1. ASSUME NEW i \in Ifaces, NEW b \in Boxes, Deliver(i, b) PROVE IInv'
  BY <1>1, DeliverKeeps
<1>2. ASSUME NEW b \in Boxes, ExpireAdvert(b) PROVE IInv'
  BY <1>2, ExpireAdvertKeeps
<1>3. ASSUME NEW b \in Boxes, ExpireWatch(b) PROVE IInv'
  BY <1>3, ExpireWatchKeeps
<1>4. ASSUME NEW b \in Boxes, ExpireArmed(b) PROVE IInv'
  BY <1>4, ExpireArmedKeeps
<1>5. CASE Tick
  BY <1>5, TickKeeps
<1>6. ASSUME NEW b \in Boxes, NEW i \in Ifaces, CableOut(b, i) \/ CableIn(b, i) PROVE IInv'
  BY <1>6, CableKeeps
<1>7. ASSUME box' = box PROVE IInv'
  BY <1>7 DEF IInv
<1>8. ASSUME NEW i \in Ifaces, Split(i) \/ Join(i) PROVE IInv'
  BY <1>7, <1>8 DEF Split, Join, Poked
<1>9. ASSUME NEW b \in Boxes, SwitchAdvert(b) \/ Reconfigure(b) PROVE IInv'
  BY <1>9, SetConfigKeeps
<1>10. ASSUME NEW i \in Ifaces, NEW b \in Boxes, Lose(i, b) PROVE IInv'
  BY <1>7, <1>10 DEF Lose
<1>11. CASE UNCHANGED vars
  BY <1>7, <1>11 DEF vars
<1>12. QED
  BY <1>1, <1>2, <1>3, <1>4, <1>5, <1>6, <1>8, <1>9, <1>10, <1>11 DEF Next, Work, Change

\* A gateway that could serve and is not master always has something that will
\* make it act: its countdown, or a known master that is watched where adverts
\* are periodic.  It holds for any number of gateways, interfaces and priorities
\* and whatever is pulled, lost or reconfigured (ha.ts: start, resign, handle).
THEOREM SomebodyAlwaysWaits == Spec => []SomebodyWaits
<1>1. QED BY InitIInv, StepIInv, IInvImplies, PTL DEF Spec

-------------------------------------------------------------------------------
(* The second inductive invariant: who is master, what is on the wires, and    *)
(* what the edge switches know.                                                *)

Top == MasterDown + Skew(0)

BoxT ==
  [on : BOOLEAN, prio : Prios, advert : BOOLEAN, state : {"init", "backup", "master"},
   known : BOOLEAN, ready : BOOLEAN, armed : Timer(Top), adv : Timer(AdvertInterval),
   watch : Timer(Top), up : SUBSET Ifaces]

\* A box takes part in the election while it is on, and a master can serve.
Fit(x) ==
  /\ x \in BoxT
  /\ x.on <=> x.state # "init"
  /\ x.state = "master" => Eff(x) > 0

Edges == [Ifaces -> [Boxes -> Boxes \cup {None}]]

\* An advert of b, one of b as master, is on its way to the edge of c on segment i.
From(w, i, c, b)    == \E k \in DOMAIN w[i][c] : w[i][c][k].from = b
Virtual(w, i, c, b) == \E k \in DOMAIN w[i][c] : w[i][c][k].from = b /\ w[i][c][k].vmac

\* No edge switch is sent the adverts of its own box.
Wires ==
  {w \in [Ifaces -> [Boxes -> Seq(Advertisement)]] :
     \A i \in Ifaces, c \in Boxes : ~ From(w, i, c, c)}

IsMaster(x) == x.state = "master"

\* The edge of a master does not point elsewhere.
OwnEdge(bx, a, b) == IsMaster(bx[b]) => \A i \in Ifaces : a[i][b] \in {b, None}

\* An edge that points to its own box c is about to hear of the master b, or b of c.
Told(bx, w, a, b, c) ==
  IsMaster(bx[b]) =>
    \A i \in joined : a[i][c] = c => Virtual(w, i, c, b) \/ From(w, i, b, c)

\* Of two masters one is about to hear of the other.
Settling(bx, w, b, c) ==
  IsMaster(bx[b]) /\ IsMaster(bx[c]) => \A i \in joined : From(w, i, c, b) \/ From(w, i, b, c)

Typed ==
  /\ box \in [Boxes -> BoxT] /\ wire \in Wires /\ at \in Edges
  /\ joined \subseteq Ifaces /\ edits \in 0 .. MaxEdits /\ losses \in 0 .. MaxLosses

MInv ==
  /\ Typed
  /\ \A b \in Boxes : Fit(box[b]) /\ OwnEdge(box, at, b)
  /\ losses = 0 =>
       \A b \in Boxes : \A c \in Boxes \ {b} : Told(box, wire, at, b, c) /\ Settling(box, wire, b, c)

LEMMA MInvType == MInv => TypeOK
<1>1. ASSUME MInv, NEW i \in Ifaces, NEW b \in Boxes
      PROVE  wire[i][b] \in Seq(Advertisement) /\ at[i][b] \in Boxes \cup {None}
  BY <1>1 DEF MInv, Typed, Wires, Edges
<1>2. ASSUME MInv, NEW b \in Boxes PROVE box[b].on <=> box[b].state # "init"
  BY <1>2 DEF MInv, Fit
<1>3. QED BY <1>1, <1>2 DEF MInv, Typed, TypeOK, BoxT, Top

\* At rest nothing is on the wires: then no two masters are on joined segments.
LEMMA MInvOneMaster == MInv => OneMaster
<1> SUFFICES ASSUME MInv, Rest, losses = 0, NEW b \in Boxes, NEW c \in Boxes, b # c,
                    Master(b), Master(c), Hears(b, c)
             PROVE  FALSE
  BY DEF OneMaster
<1>1. PICK i \in joined : i \in box[b].up /\ i \in box[c].up
  BY DEF Hears
<1>2. i \in Ifaces
  BY <1>1 DEF MInv, Typed
<1>3. From(wire, i, c, b) \/ From(wire, i, b, c)
  BY <1>1 DEF MInv, Settling, Master, IsMaster
<1>4. wire[i][b] = <<>> /\ wire[i][c] = <<>>
  BY <1>2 DEF Rest, InFlight
<1>5. QED BY <1>3, <1>4 DEF From

-------------------------------------------------------------------------------
(* Timers and priorities, bounded *)

LEMMA BoxTIsBoxType == \A x \in BoxT : x \in BoxType
<1>1. TopPrio \in Nat
  BY HaAssumption
<1>2. Timer(Top) \subseteq MaybeTimer /\ Timer(AdvertInterval) \subseteq MaybeTimer
  BY <1>1 DEF Timer, MaybeTimer
<1>3. QED BY <1>2 DEF BoxT, BoxType

LEMMA TimersFit ==
  /\ \A p \in 0 .. TopPrio : Skew(p) \in Timer(Top) /\ MasterDown + Skew(p) \in Timer(Top)
  /\ AdvertInterval \in Timer(AdvertInterval) /\ \A top : None \in Timer(top)
<1>1. TopPrio \in Nat
  BY HaAssumption
<1>2. \A p \in 0 .. TopPrio : Skew(p) \in 0 .. Top /\ MasterDown + Skew(p) \in 0 .. Top
  BY <1>1 DEF Skew, MasterDown, Top
<1>3. AdvertInterval \in 0 .. AdvertInterval
  BY DEF AdvertInterval
<1>4. QED BY <1>2, <1>3 DEF Timer

\* The priority of a box that is known to be a number of the range.
LEMMA EffFits ==
  ASSUME NEW x \in BoxT
  PROVE  /\ Eff(x) \in 0 .. TopPrio /\ Eff(x) \in Prios \cup {0}
         /\ x.prio \in Prios /\ x.prio \in Nat /\ x.prio > 0
         /\ Eff(x) > 0 <=> (x.on /\ x.up = Ifaces)
         /\ Eff(x) > 0 => Eff(x) = x.prio
<1>1. x.prio \in Prios
  BY DEF BoxT
<1>2. TopPrio \in Nat /\ \A p \in Prios : p \in 1 .. TopPrio
  BY HaAssumption
<1>3. x.prio \in Nat /\ 1 <= x.prio /\ x.prio <= TopPrio
  BY <1>1, <1>2
<1>4. QED BY <1>1, <1>2, <1>3 DEF Eff

-------------------------------------------------------------------------------
(* What a box does: it stays fit, its adverts are its own, and a box that is   *)
(* master afterwards has said so with the virtual MAC (Loud)                   *)

Says(out, b) == out \in Seq(Advertisement) /\ \A k \in DOMAIN out : out[k].from = b
Good(r, b) == Fit(r.box) /\ Says(r.out, b)
Loud(r) == \E k \in DOMAIN r.out : r.out[k].vmac

LEMMA SaysNothing == \A b : Says(<<>>, b)
BY DEF Says

LEMMA SaysBoth ==
  ASSUME NEW b, NEW s, NEW t, Says(s, b), Says(t, b)
  PROVE  Says(s \o t, b)
<1>1. s \in Seq(Advertisement) /\ t \in Seq(Advertisement)
  BY DEF Says
<1>2. /\ s \o t \in Seq(Advertisement) /\ Len(s) \in Nat /\ Len(t) \in Nat
      /\ DOMAIN s = 1 .. Len(s) /\ DOMAIN t = 1 .. Len(t) /\ DOMAIN (s \o t) = 1 .. Len(s) + Len(t)
      /\ \A k \in DOMAIN (s \o t) : (s \o t)[k] = IF k <= Len(s) THEN s[k] ELSE t[k - Len(s)]
  BY <1>1, ConcatProperties, SMT
<1>3. ASSUME NEW k \in DOMAIN (s \o t) PROVE (s \o t)[k].from = b
  <2>1. CASE k <= Len(s)
    BY <1>2, <2>1 DEF Says
  <2>2. CASE ~ (k <= Len(s))
    <3>1. k - Len(s) \in DOMAIN t
      BY <1>2, <2>2
    <3>2. QED BY <1>2, <2>2, <3>1 DEF Says
  <2>3. QED BY <2>1, <2>2
<1>4. QED BY <1>2, <1>3 DEF Says

LEMMA SaysOne ==
  ASSUME NEW x \in BoxT, NEW b \in Boxes, NEW p \in Prios \cup {0}, NEW cand \in BOOLEAN
  PROVE  /\ Says(<<Advert(x, b, p, cand)>>, b)
         /\ IsMaster(x) /\ p > 0 => Loud(Does(x, <<Advert(x, b, p, cand)>>))
<1> DEFINE a == Advert(x, b, p, cand)
<1>1. (x.state = "master" /\ p > 0) \in BOOLEAN
  OBVIOUS
<1>2. a \in Advertisement /\ a.from = b /\ (a.vmac <=> (x.state = "master" /\ p > 0))
  BY <1>1 DEF Advert, Advertisement
<1> HIDE DEF a
<1>3. <<a>> \in Seq(Advertisement) /\ DOMAIN <<a>> = {1} /\ <<a>>[1] = a
  BY <1>2
<1>4. QED BY <1>2, <1>3 DEF Says, Loud, Does, IsMaster, a

LEMMA LoudOut == \A x, y, out : Loud(Does(x, out)) => Loud(Does(y, out))
BY DEF Loud, Does

\* A box whose timers, readiness and knowledge of a master change stays fit.
LEMMA FitKept ==
  ASSUME NEW x, Fit(x), NEW y \in BoxT, y.on = x.on, y.up = x.up, y.prio = x.prio, y.state = x.state
  PROVE  Fit(y) /\ Eff(y) = Eff(x)
BY DEF Fit, Eff

LEMMA TimersSet ==
  ASSUME NEW x \in BoxT
  PROVE  /\ ScheduleAdvert(x) \in BoxT /\ Watch(x) \in BoxT
         /\ \A y \in {ScheduleAdvert(x), Watch(x)} :
              y.on = x.on /\ y.up = x.up /\ y.prio = x.prio /\ y.state = x.state
         /\ \A p \in 0 .. TopPrio :
              Arm(x, Skew(p)) \in BoxT /\ Arm(x, MasterDown + Skew(p)) \in BoxT
         /\ \A t \in Timer(Top) :
              Arm(x, t).on = x.on /\ Arm(x, t).up = x.up /\ Arm(x, t).prio = x.prio /\ Arm(x, t).state = x.state
<1>1. MasterDown + Skew(Eff(x)) \in Timer(Top) /\ AdvertInterval \in Timer(AdvertInterval)
  BY EffFits, TimersFit
<1>2. /\ \A t \in Timer(AdvertInterval) : [x EXCEPT !.adv = t] \in BoxT
      /\ \A t \in Timer(Top) : [x EXCEPT !.watch = t] \in BoxT /\ [x EXCEPT !.armed = t] \in BoxT
  BY DEF BoxT
<1>3. ScheduleAdvert(x) \in BoxT /\ Watch(x) \in BoxT
  BY <1>1, <1>2 DEF ScheduleAdvert, Watch
<1>4. \A y \in {ScheduleAdvert(x), Watch(x)} :
        y.on = x.on /\ y.up = x.up /\ y.prio = x.prio /\ y.state = x.state
  BY DEF ScheduleAdvert, Watch, BoxT
<1>5. \A p \in 0 .. TopPrio : Arm(x, Skew(p)) \in BoxT /\ Arm(x, MasterDown + Skew(p)) \in BoxT
  BY <1>2, TimersFit DEF Arm
<1>6. \A t \in Timer(Top) :
        Arm(x, t).on = x.on /\ Arm(x, t).up = x.up /\ Arm(x, t).prio = x.prio /\ Arm(x, t).state = x.state
  BY DEF Arm, BoxT
<1>7. QED BY <1>3, <1>4, <1>5, <1>6

LEMMA QuietGood ==
  ASSUME NEW x, Fit(x), NEW b
  PROVE  Good(Quiet(x), b)
BY SaysNothing DEF Good, Quiet, Does

\* A box that starts is backup.
LEMMA StartGood ==
  ASSUME NEW x \in BoxT, x.on, NEW b \in Boxes
  PROVE  Good(Start(x, b), b) /\ ~ IsMaster(Start(x, b).box) /\ Start(x, b).box.up = x.up
<1> DEFINE y == [x EXCEPT !.state = "backup", !.ready = Eff(x) > 0]
<1>1. (Eff(x) > 0) \in BOOLEAN
  OBVIOUS
<1>2. y \in BoxT /\ y.state = "backup" /\ y.on /\ y.up = x.up
  BY <1>1 DEF BoxT
<1>3. Fit(y)
  BY <1>2 DEF Fit
<1>4. Start(x, b) = IF Eff(x) = 0 THEN Quiet(y)
                    ELSE Does(Arm(y, MasterDown + Skew(Eff(x))), <<Advert(y, b, Eff(x), TRUE)>>)
  BY DEF Start
<1> HIDE DEF y
<1>5. CASE Eff(x) = 0
  BY <1>2, <1>3, <1>4, <1>5, QuietGood DEF Quiet, Does, IsMaster
<1>6. CASE Eff(x) # 0
  <2> DEFINE z == Arm(y, MasterDown + Skew(Eff(x)))
  <2>1. Eff(x) \in 0 .. TopPrio /\ Eff(x) \in Prios \cup {0}
    BY EffFits
  <2>2. z \in BoxT /\ z.on = y.on /\ z.up = y.up /\ z.prio = y.prio /\ z.state = y.state
    BY <1>2, <2>1, TimersSet, TimersFit
  <2>3. Says(<<Advert(y, b, Eff(x), TRUE)>>, b)
    BY <1>2, <2>1, SaysOne
  <2> HIDE DEF z
  <2>4. Start(x, b) = Does(z, <<Advert(y, b, Eff(x), TRUE)>>)
    BY <1>4, <1>6 DEF z
  <2>5. Fit(z)
    BY <1>3, <2>2, FitKept
  <2>6. QED BY <1>2, <2>2, <2>3, <2>4, <2>5 DEF Good, Does, IsMaster
<1>7. QED BY <1>5, <1>6

\* A box that becomes master can serve, and says so.
LEMMA BecomeMasterGood ==
  ASSUME NEW x, Fit(x), Eff(x) > 0, NEW b \in Boxes
  PROVE  Good(BecomeMaster(x, b), b) /\ Loud(BecomeMaster(x, b))
<1> DEFINE y == [x EXCEPT !.state = "master", !.known = FALSE, !.watch = None]
<1>1. x \in BoxT /\ x.on
  BY EffFits DEF Fit
<1>2. y \in BoxT /\ y.state = "master" /\ y.on /\ y.up = x.up /\ y.prio = x.prio
  BY <1>1, TimersFit DEF BoxT
<1>3. Eff(y) > 0 /\ y.prio \in Prios /\ y.prio > 0
  BY <1>1, <1>2, EffFits
<1>4. Fit(y)
  BY <1>2, <1>3 DEF Fit
<1>5. BecomeMaster(x, b) = Does(ScheduleAdvert(y), <<Advert(y, b, y.prio, FALSE)>>)
  BY DEF BecomeMaster
<1> HIDE DEF y
<1>6. Fit(ScheduleAdvert(y))
  BY <1>2, <1>4, TimersSet, FitKept
<1>7. Says(<<Advert(y, b, y.prio, FALSE)>>, b) /\ Loud(Does(y, <<Advert(y, b, y.prio, FALSE)>>))
  BY <1>2, <1>3, SaysOne DEF IsMaster
<1>8. Loud(BecomeMaster(x, b))
  BY <1>5, <1>7, LoudOut
<1>9. QED BY <1>5, <1>6, <1>7, <1>8 DEF Good, Does

\* A master that speaks as one is heard as one.
LEMMA MasterSays ==
  ASSUME NEW x, Fit(x), IsMaster(x), NEW b \in Boxes, NEW y, Fit(y)
  PROVE  LET r == Does(y, <<Advert(x, b, x.prio, FALSE)>>) IN Good(r, b) /\ Loud(r)
<1>1. x \in BoxT /\ x.prio \in Prios /\ x.prio > 0
  BY EffFits DEF Fit
<1>2. Says(<<Advert(x, b, x.prio, FALSE)>>, b) /\ Loud(Does(x, <<Advert(x, b, x.prio, FALSE)>>))
  BY <1>1, SaysOne
<1>3. Loud(Does(y, <<Advert(x, b, x.prio, FALSE)>>))
  BY <1>2, LoudOut
<1>4. QED BY <1>2, <1>3 DEF Good, Does

\* Resigning needs no more than a box that is on and of its type.
LEMMA ResignGood ==
  ASSUME NEW x \in BoxT, x.on, x.state # "init", NEW b \in Boxes
  PROVE  /\ Good(Resign(x, b), b) /\ ~ IsMaster(Resign(x, b).box)
         /\ Resign(x, b).box.up = x.up
<1>1. CASE x.state # "master"
  <2>1. Resign(x, b) = Quiet(x)
    BY <1>1 DEF Resign
  <2>2. Fit(x)
    BY <1>1 DEF Fit
  <2>3. QED BY <1>1, <2>1, <2>2, QuietGood DEF Quiet, Does, IsMaster
<1>2. CASE x.state = "master"
  <2> DEFINE y == [x EXCEPT !.state = "backup", !.adv = None]
  <2>1. y \in BoxT /\ y.state = "backup" /\ y.on /\ y.up = x.up
    BY TimersFit DEF BoxT
  <2>2. Resign(x, b) = Does(Watch(y), <<Advert(y, b, 0, FALSE)>>)
    BY <1>2 DEF Resign
  <2> HIDE DEF y
  <2>3. Fit(y)
    BY <2>1 DEF Fit
  <2>4. /\ Fit(Watch(y)) /\ Watch(y).state = "backup" /\ Watch(y).up = x.up
    BY <2>1, <2>3, TimersSet, FitKept
  <2>5. Says(<<Advert(y, b, 0, FALSE)>>, b)
    BY <2>1, SaysOne
  <2>6. QED BY <2>2, <2>4, <2>5 DEF Good, Does, IsMaster
<1>3. QED BY <1>1, <1>2

\* Hearing an advert: who is master afterwards has answered it.
LEMMA HandleGood ==
  ASSUME NEW x, Fit(x), NEW b \in Boxes, NEW m \in Advertisement
  PROVE  /\ Good(Handle(x, b, m), b)
         /\ IsMaster(Handle(x, b, m).box) => Loud(Handle(x, b, m))
         /\ Handle(x, b, m).box.up = x.up
<1>0. x \in BoxT /\ Eff(x) \in 0 .. TopPrio /\ Eff(x) \in Prios \cup {0}
  BY EffFits DEF Fit
<1>1. CASE ~ x.on
  BY <1>1, QuietGood DEF Handle, Quiet, Does, Fit, IsMaster
<1>2. CASE x.on /\ x.state = "master"
  <2>1. Handle(x, b, m) = HeardByMaster(x, b, m)
    BY <1>2 DEF Handle
  <2>2. CASE m.prio > 0 /\ Outranks(m, Eff(x), b)
    <3> DEFINE y == [x EXCEPT !.known = TRUE]
    <3>1. y \in BoxT /\ y.on /\ y.state = "master" /\ y.up = x.up
      BY <1>0, <1>2 DEF BoxT
    <3>2. HeardByMaster(x, b, m) = Resign(y, b)
      BY <2>2 DEF HeardByMaster
    <3> HIDE DEF y
    <3>3. QED BY <2>1, <3>1, <3>2, ResignGood
  <2>3. CASE ~ (m.prio > 0 /\ Outranks(m, Eff(x), b))
    <3>1. HeardByMaster(x, b, m) = Does(x, <<Advert(x, b, x.prio, FALSE)>>)
      BY <2>3 DEF HeardByMaster
    <3>2. Good(HeardByMaster(x, b, m), b) /\ Loud(HeardByMaster(x, b, m))
      BY <1>2, <3>1, MasterSays DEF IsMaster
    <3>3. QED BY <2>1, <3>1, <3>2 DEF Does
  <2>4. QED BY <2>2, <2>3
<1>3. CASE x.on /\ x.state # "master" /\ m.prio = 0
  <2>1. Handle(x, b, m) = HeardLeave(x)
    BY <1>3 DEF Handle
  <2>2. CASE Eff(x) = 0
    BY <1>3, <2>1, <2>2, QuietGood DEF HeardLeave, Quiet, Does, IsMaster
  <2>3. CASE Eff(x) # 0
    <3> DEFINE y == [x EXCEPT !.known = FALSE]
               z == Arm(y, Skew(Eff(x)))
    <3>1. y \in BoxT /\ y.on = x.on /\ y.up = x.up /\ y.prio = x.prio /\ y.state = x.state
      BY <1>0 DEF BoxT
    <3>2. HeardLeave(x) = Quiet(z)
      BY <2>3 DEF HeardLeave
    <3> HIDE DEF y
    <3>3. z \in BoxT /\ z.on = y.on /\ z.up = y.up /\ z.prio = y.prio /\ z.state = y.state
      BY <1>0, <3>1, TimersSet, TimersFit
    <3> HIDE DEF z
    <3>4. Fit(z)
      BY <3>1, <3>3, FitKept
    <3>5. QED BY <1>3, <2>1, <3>1, <3>2, <3>3, <3>4, QuietGood DEF Quiet, Does, IsMaster
  <2>4. QED BY <2>2, <2>3
<1>4. CASE x.on /\ x.state # "master" /\ m.prio # 0 /\ m.prio > 0 /\ Outranks(m, Eff(x), b)
  <2>1. Handle(x, b, m) = HeardBetter(x, m)
    BY <1>4 DEF Handle
  <2>2. CASE m.cand
    BY <1>4, <2>1, <2>2, QuietGood DEF HeardBetter, Quiet, Does, IsMaster
  <2>3. CASE ~ m.cand
    <3> DEFINE y == [x EXCEPT !.armed = None, !.known = TRUE]
    <3>1. y \in BoxT /\ y.on = x.on /\ y.up = x.up /\ y.prio = x.prio /\ y.state = x.state
      BY <1>0, TimersFit DEF BoxT
    <3>2. HeardBetter(x, m) = Quiet(Watch(y))
      BY <2>3 DEF HeardBetter
    <3> HIDE DEF y
    <3>3. Fit(Watch(y)) /\ Watch(y).state = x.state /\ Watch(y).up = x.up
      BY <3>1, TimersSet, FitKept
    <3>4. QED BY <1>4, <2>1, <3>2, <3>3, QuietGood DEF Quiet, Does, IsMaster
  <2>4. QED BY <2>2, <2>3
<1>5. CASE x.on /\ x.state # "master" /\ m.prio # 0 /\ ~ (m.prio > 0 /\ Outranks(m, Eff(x), b))
  <2> DEFINE z == Arm(x, Skew(Eff(x)))
  <2>1. Handle(x, b, m) = Does(z, <<Advert(x, b, Eff(x), TRUE)>>)
    BY <1>5 DEF Handle, HeardWorse
  <2>2. z \in BoxT /\ z.on = x.on /\ z.up = x.up /\ z.prio = x.prio /\ z.state = x.state
    BY <1>0, TimersSet, TimersFit
  <2>3. Says(<<Advert(x, b, Eff(x), TRUE)>>, b)
    BY <1>0, SaysOne
  <2> HIDE DEF z
  <2>4. Fit(z)
    BY <2>2, FitKept
  <2>5. QED BY <1>5, <2>1, <2>2, <2>3, <2>4 DEF Good, Does, IsMaster
<1>6. QED BY <1>1, <1>2, <1>3, <1>4, <1>5

\* A cable of b pulled or plugged: b, which then is short of one or was before,
\* is not master afterwards.
LEMMA OnLinksGood ==
  ASSUME NEW x, Fit(x), NEW b \in Boxes, NEW up \in SUBSET Ifaces,
         up # Ifaces \/ x.state # "master"
  PROVE  LET r == OnLinks([x EXCEPT !.up = up], b)
         IN Good(r, b) /\ ~ IsMaster(r.box) /\ r.box.up = up
<1> DEFINE z == [x EXCEPT !.up = up]
           y == [z EXCEPT !.ready = Eff(z) > 0]
<1>1. z \in BoxT /\ z.on = x.on /\ z.state = x.state /\ z.up = up
  BY DEF Fit, BoxT
<1> SUFFICES LET r == OnLinks(z, b) IN Good(r, b) /\ ~ IsMaster(r.box) /\ r.box.up = up
  BY DEF z
<1> HIDE DEF z
<1>2. (Eff(z) > 0) \in BOOLEAN
  OBVIOUS
<1>3. y \in BoxT /\ y.on = z.on /\ y.state = z.state /\ y.up = up
  BY <1>1, <1>2 DEF BoxT
<1>4. OnLinks(z, b) = CASE ~ z.on -> Quiet(z)
                        [] z.on /\ z.state = "master" /\ Eff(z) = 0 -> Resign(y, b)
                        [] z.on /\ z.state # "master" /\ Eff(z) > 0 /\ ~ z.ready -> Start(y, b)
                        [] OTHER -> Quiet(y)
  BY DEF OnLinks
<1>5. Eff(z) \in 0 .. TopPrio /\ (Eff(z) > 0 <=> (z.on /\ z.up = Ifaces))
  BY <1>1, EffFits
<1>6. z.on <=> z.state # "init"
  BY <1>1 DEF Fit
<1> HIDE DEF y
<1>7. CASE ~ z.on
  <2>1. OnLinks(z, b) = Quiet(z) /\ Fit(z) /\ ~ IsMaster(z)
    BY <1>1, <1>4, <1>6, <1>7 DEF Fit, IsMaster
  <2>2. QED BY <1>1, <2>1, QuietGood DEF Quiet, Does
<1>8. CASE z.on /\ z.state = "master" /\ Eff(z) = 0
  <2>1. OnLinks(z, b) = Resign(y, b)
    BY <1>4, <1>8
  <2>2. QED BY <1>3, <1>8, <2>1, ResignGood
<1>9. CASE z.on /\ z.state # "master" /\ Eff(z) > 0 /\ ~ z.ready
  <2>1. OnLinks(z, b) = Start(y, b)
    BY <1>4, <1>9
  <2>2. QED BY <1>3, <1>9, <2>1, StartGood
<1>10. CASE z.on /\ z.state # "master" /\ ~ (Eff(z) > 0 /\ ~ z.ready)
  <2>1. OnLinks(z, b) = Quiet(y) /\ Fit(y) /\ ~ IsMaster(y)
    BY <1>3, <1>4, <1>6, <1>10 DEF Fit, IsMaster
  <2>2. QED BY <1>3, <2>1, QuietGood DEF Quiet, Does
<1>11. z.state = "master" => Eff(z) = 0
  BY <1>1, <1>5
<1>12. Eff(z) = 0 \/ Eff(z) > 0
  BY <1>5
<1>13. QED BY <1>7, <1>8, <1>9, <1>10, <1>11, <1>12

\* A box with a new configuration is not master.
LEMMA SetConfigGood ==
  ASSUME NEW x, Fit(x), NEW on \in BOOLEAN, NEW p \in Prios, NEW b \in Boxes
  PROVE  Good(SetConfig(x, b, on, p), b) /\ ~ IsMaster(SetConfig(x, b, on, p).box)
<1> DEFINE q == Resign(x, b)
           y == [q.box EXCEPT !.on = on, !.prio = p, !.state = "init", !.known = FALSE,
                              !.adv = None, !.watch = None]
           s == IF on THEN Start(y, b) ELSE Quiet(y)
<1>1. Good(q, b)
  <2>1. CASE x.state = "master"
    BY <2>1, ResignGood DEF Fit
  <2>2. CASE x.state # "master"
    BY <2>2, QuietGood DEF Resign
  <2>3. QED BY <2>1, <2>2
<1> HIDE DEF q
<1>2. q.box \in BoxT
  BY <1>1 DEF Good, Fit
<1>3. y \in BoxT /\ y.on = on /\ y.state = "init"
  BY <1>2, TimersFit DEF BoxT
<1> HIDE DEF y
<1>4. Good(s, b) /\ ~ IsMaster(s.box)
  <2>1. CASE on
    BY <1>3, <2>1, StartGood
  <2>2. CASE ~ on
    <3>1. Fit(y)
      BY <1>3, <2>2 DEF Fit
    <3>2. QED BY <1>3, <2>2, <3>1, QuietGood DEF Quiet, Does, IsMaster
  <2>3. QED BY <2>1, <2>2
<1> HIDE DEF s
<1>5. SetConfig(x, b, on, p) = Does(s.box, q.out \o s.out)
  BY DEF SetConfig, Then, q, y, s
<1>6. Says(q.out \o s.out, b)
  BY <1>1, <1>4, SaysBoth DEF Good
<1>7. QED BY <1>4, <1>5, <1>6 DEF Good, Does

\* Switching the periodic advert changes no mastership.
LEMMA SetAdvertGood ==
  ASSUME NEW x, Fit(x), NEW v \in BOOLEAN, NEW b
  PROVE  Good(Quiet(SetAdvert(x, v)), b) /\ SetAdvert(x, v).state = x.state
<1> DEFINE y == [x EXCEPT !.advert = v, !.adv = None, !.watch = None]
<1>1. y \in BoxT /\ y.on = x.on /\ y.up = x.up /\ y.prio = x.prio /\ y.state = x.state
  BY TimersFit DEF Fit, BoxT
<1>2. SetAdvert(x, v) \in {ScheduleAdvert(y), Watch(y), y}
  BY DEF SetAdvert
<1> HIDE DEF y
<1>3. \A z \in {ScheduleAdvert(y), Watch(y), y} : Fit(z) /\ z.state = x.state
  BY <1>1, TimersSet, FitKept
<1>4. QED BY <1>2, <1>3, QuietGood

-------------------------------------------------------------------------------
(* Sequences of adverts: nothing is forgotten by appending, and only the first *)
(* by taking the first away.                                                   *)

LEMMA Appended ==
  ASSUME NEW S, NEW s \in Seq(S), NEW t \in Seq(S)
  PROVE  /\ s \o t \in Seq(S)
         /\ \A k \in DOMAIN s : \E n \in DOMAIN (s \o t) : (s \o t)[n] = s[k]
         /\ \A k \in DOMAIN t : \E n \in DOMAIN (s \o t) : (s \o t)[n] = t[k]
         /\ \A n \in DOMAIN (s \o t) :
              (\E k \in DOMAIN s : (s \o t)[n] = s[k]) \/ \E k \in DOMAIN t : (s \o t)[n] = t[k]
<1>1. /\ s \o t \in Seq(S) /\ Len(s) \in Nat /\ Len(t) \in Nat
      /\ DOMAIN s = 1 .. Len(s) /\ DOMAIN t = 1 .. Len(t) /\ DOMAIN (s \o t) = 1 .. Len(s) + Len(t)
      /\ \A k \in DOMAIN (s \o t) : (s \o t)[k] = IF k <= Len(s) THEN s[k] ELSE t[k - Len(s)]
  BY ConcatProperties, SMT
<1>2. ASSUME NEW k \in DOMAIN s PROVE \E n \in DOMAIN (s \o t) : (s \o t)[n] = s[k]
  BY <1>1, k \in DOMAIN (s \o t)
<1>3. ASSUME NEW k \in DOMAIN t PROVE \E n \in DOMAIN (s \o t) : (s \o t)[n] = t[k]
  <2>1. Len(s) + k \in DOMAIN (s \o t) /\ ~ (Len(s) + k <= Len(s)) /\ (Len(s) + k) - Len(s) = k
    BY <1>1
  <2>2. (s \o t)[Len(s) + k] = t[k]
    BY <1>1, <2>1
  <2>3. QED BY <2>1, <2>2
<1>4. ASSUME NEW n \in DOMAIN (s \o t)
      PROVE  (\E k \in DOMAIN s : (s \o t)[n] = s[k]) \/ \E k \in DOMAIN t : (s \o t)[n] = t[k]
  <2>1. CASE n <= Len(s)
    BY <1>1, <2>1, n \in DOMAIN s
  <2>2. CASE ~ (n <= Len(s))
    BY <1>1, <2>2, n - Len(s) \in DOMAIN t
  <2>3. QED BY <2>1, <2>2
<1>5. QED BY <1>1, <1>2, <1>3, <1>4

LEMMA FirstTaken ==
  ASSUME NEW S, NEW s \in Seq(S), s # <<>>
  PROVE  /\ Head(s) \in S /\ Tail(s) \in Seq(S)
         /\ \E k \in DOMAIN s : s[k] = Head(s)
         /\ \A k \in DOMAIN s : s[k] = Head(s) \/ \E n \in DOMAIN Tail(s) : Tail(s)[n] = s[k]
         /\ \A n \in DOMAIN Tail(s) : \E k \in DOMAIN s : Tail(s)[n] = s[k]
<1>1. /\ Head(s) \in S /\ Tail(s) \in Seq(S) /\ Head(s) = s[1]
      /\ Len(s) \in Nat /\ DOMAIN s = 1 .. Len(s) /\ DOMAIN Tail(s) = 1 .. Len(s) - 1
      /\ Len(s) > 0 /\ \A n \in DOMAIN Tail(s) : Tail(s)[n] = s[n + 1]
  BY EmptySeq, HeadTailProperties, SMT
<1>2. ASSUME NEW k \in DOMAIN s, k # 1 PROVE \E n \in DOMAIN Tail(s) : Tail(s)[n] = s[k]
  <2>1. k - 1 \in DOMAIN Tail(s) /\ (k - 1) + 1 = k
    BY <1>1, <1>2
  <2>2. QED BY <1>1, <2>1
<1>3. ASSUME NEW n \in DOMAIN Tail(s) PROVE \E k \in DOMAIN s : Tail(s)[n] = s[k]
  BY <1>1, n + 1 \in DOMAIN s
<1>4. 1 \in DOMAIN s
  BY <1>1
<1>5. QED BY <1>1, <1>2, <1>3, <1>4

\* A finite set written as a sequence: all of it, and nothing else.
LEMMA SetToSeqHas ==
  ASSUME NEW S, IsFiniteSet(S)
  PROVE  /\ Cardinality(S) \in Nat
         /\ SetToSeq(S) \in [1 .. Cardinality(S) -> S]
         /\ \A e \in S : \E k \in 1 .. Cardinality(S) : SetToSeq(S)[k] = e
<1> DEFINE n == Cardinality(S)
           f == SetToSeq(S)
<1>1. n \in Nat /\ ExistsBijection(1 .. n, S)
  BY FS_CardinalityType
<1>2. PICK g \in Bijection(1 .. n, S) : TRUE
  BY <1>1, Fun_ExistsBij
<1>3. g \in [1 .. n -> S] /\ IsInjective(g)
  BY <1>2 DEF Bijection, Injection
<1>4. f \in [1 .. n -> S] /\ IsInjective(f)
  BY <1>3 DEF SetToSeq
<1> HIDE DEF f
<1>5. f \in Injection(1 .. n, S)
  BY <1>4 DEF Injection
<1>6. IsFiniteSet(1 .. n) /\ Cardinality(1 .. n) = n
  BY <1>1, FS_Interval
<1>7. f \in Surjection(1 .. n, S)
  BY <1>5, <1>6, FS_Injection
<1>8. QED BY <1>1, <1>4, <1>7 DEF Surjection, f

-------------------------------------------------------------------------------
(* What is sent, learnt and arrives                                            *)

LEMMA SentHas ==
  ASSUME NEW w \in Wires, NEW b \in Boxes, NEW r, Good(r, b)
  PROVE  LET v == Sent(w, b, r)
         IN /\ v \in Wires
            /\ \A i \in Ifaces, c \in Boxes, m \in Boxes :
                 (From(w, i, c, m) => From(v, i, c, m)) /\ (Virtual(w, i, c, m) => Virtual(v, i, c, m))
            /\ \A i \in Ifaces, c \in Boxes \ {b} :
                 (i \in joined /\ i \in r.box.up /\ Loud(r)) => From(v, i, c, b) /\ Virtual(v, i, c, b)
<1> DEFINE v == Sent(w, b, r)
<1>1. r.out \in Seq(Advertisement) /\ \A k \in DOMAIN r.out : r.out[k].from = b
  BY DEF Good, Says
<1>2. \A i \in Ifaces, c \in Boxes :
        /\ w[i][c] \in Seq(Advertisement)
        /\ v[i][c] = IF c # b /\ i \in joined /\ i \in r.box.up THEN w[i][c] \o r.out ELSE w[i][c]
  BY DEF Wires, Sent
<1>3. ASSUME NEW i \in Ifaces, NEW c \in Boxes
      PROVE  /\ v[i][c] \in Seq(Advertisement)
             /\ \A k \in DOMAIN w[i][c] : \E n \in DOMAIN v[i][c] : v[i][c][n] = w[i][c][k]
             /\ (c # b /\ i \in joined /\ i \in r.box.up) =>
                  \A k \in DOMAIN r.out : \E n \in DOMAIN v[i][c] : v[i][c][n] = r.out[k]
             /\ \A n \in DOMAIN v[i][c] :
                  \/ \E k \in DOMAIN w[i][c] : v[i][c][n] = w[i][c][k]
                  \/ c # b /\ \E k \in DOMAIN r.out : v[i][c][n] = r.out[k]
  <2> DEFINE t == v[i][c]
             s == w[i][c]
             o == r.out
             new == c # b /\ i \in joined /\ i \in r.box.up
  <2>1. s \in Seq(Advertisement) /\ o \in Seq(Advertisement) /\ t = IF new THEN s \o o ELSE s
    BY <1>1, <1>2
  <2> SUFFICES /\ t \in Seq(Advertisement)
               /\ \A k \in DOMAIN s : \E n \in DOMAIN t : t[n] = s[k]
               /\ new => \A k \in DOMAIN o : \E n \in DOMAIN t : t[n] = o[k]
               /\ \A n \in DOMAIN t : \/ \E k \in DOMAIN s : t[n] = s[k]
                                      \/ new /\ \E k \in DOMAIN o : t[n] = o[k]
    OBVIOUS
  <2> HIDE DEF s, o, t, new
  <2>2. CASE new
    <3>1. t = s \o o
      BY <2>1, <2>2
    <3>2. t \in Seq(Advertisement) /\ \A k \in DOMAIN s : \E n \in DOMAIN t : t[n] = s[k]
      BY <2>1, <3>1, Appended
    <3>3. \A k \in DOMAIN o : \E n \in DOMAIN t : t[n] = o[k]
      BY <2>1, <3>1, Appended
    <3>4. \A n \in DOMAIN t : (\E k \in DOMAIN s : t[n] = s[k]) \/ \E k \in DOMAIN o : t[n] = o[k]
      BY <2>1, <3>1, Appended
    <3>5. QED BY <2>2, <3>2, <3>3, <3>4
  <2>3. CASE ~ new
    BY <2>1, <2>3
  <2>4. QED BY <2>2, <2>3
<1>4. ASSUME NEW i \in Ifaces, NEW c \in Boxes \ {b}, i \in joined, i \in r.box.up, Loud(r)
      PROVE  From(v, i, c, b) /\ Virtual(v, i, c, b)
  <2> HIDE DEF v
  <2>1. PICK k \in DOMAIN r.out : r.out[k].vmac
    BY <1>4 DEF Loud
  <2>2. PICK n \in DOMAIN v[i][c] : v[i][c][n] = r.out[k]
    BY <1>3, <1>4
  <2>3. QED BY <1>1, <2>1, <2>2 DEF From, Virtual
<1>5. v \in Wires
  <2>1. /\ v = [i \in Ifaces |-> v[i]]
        /\ \A i \in Ifaces : v[i] = [c \in Boxes |-> v[i][c]]
    BY DEF Sent
  <2> HIDE DEF v
  <2>2. ASSUME NEW i \in Ifaces, NEW c \in Boxes PROVE ~ From(v, i, c, c)
    <3>1. \A k \in DOMAIN w[i][c] : w[i][c][k].from # c
      BY DEF From, Wires
    <3>2. ASSUME NEW n \in DOMAIN v[i][c] PROVE v[i][c][n].from # c
      BY <1>1, <1>3, <3>1
    <3>3. QED BY <3>2 DEF From
  <2>3. \A i \in Ifaces : v[i] \in [Boxes -> Seq(Advertisement)]
    BY <1>3, <2>1
  <2>4. QED BY <2>1, <2>2, <2>3 DEF Wires
<1> HIDE DEF v
<1>6. ASSUME NEW i \in Ifaces, NEW c \in Boxes, NEW m \in Boxes
      PROVE  (From(w, i, c, m) => From(v, i, c, m)) /\ (Virtual(w, i, c, m) => Virtual(v, i, c, m))
  BY <1>3 DEF From, Virtual
<1>7. QED BY <1>4, <1>5, <1>6 DEF v

LEMMA LearntKnows ==
  ASSUME NEW a \in Edges, NEW b \in Boxes, NEW r
  PROVE  /\ Learnt(a, b, r) \in Edges
         /\ \A i \in Ifaces, c \in Boxes :
              Learnt(a, b, r)[i][c] = IF c = b /\ i \in r.box.up /\ Loud(r) THEN b ELSE a[i][c]
<1>1. \A i \in Ifaces : a[i] \in [Boxes -> Boxes \cup {None}]
  BY DEF Edges
<1>2. \A i \in Ifaces : Learnt(a, b, r)[i] = IF i \in r.box.up /\ Loud(r) THEN [a[i] EXCEPT ![b] = b] ELSE a[i]
  BY DEF Learnt, Loud
<1>3. Learnt(a, b, r) = [i \in Ifaces |-> Learnt(a, b, r)[i]]
  BY DEF Learnt
<1>4. \A i \in Ifaces : Learnt(a, b, r)[i] \in [Boxes -> Boxes \cup {None}]
  BY <1>1, <1>2
<1>5. Learnt(a, b, r) \in Edges
  BY <1>3, <1>4 DEF Edges
<1>6. QED BY <1>1, <1>2, <1>5

LEMMA ArrivingHas ==
  ASSUME NEW r, \A c \in Boxes : Good(r[c], c), NEW j, NEW i, NEW b \in Boxes
  PROVE  /\ Arriving(r, j, i, b) \in Seq(Advertisement)
         /\ \A c \in Boxes \ {b} :
              i \in j /\ Speaks(r, i, c) =>
                \E k \in DOMAIN Arriving(r, j, i, b) : Arriving(r, j, i, b)[k] = Head(r[c].out)
         /\ \A k \in DOMAIN Arriving(r, j, i, b) : Arriving(r, j, i, b)[k].from # b
<1> DEFINE S == {c \in Boxes \ {b} : i \in j /\ Speaks(r, i, c)}
           s == SetToSeq(S)
           n == Cardinality(S)
<1>1. IsFiniteSet(S)
  <2>1. S \in SUBSET Boxes /\ IsFiniteSet(Boxes)
    BY HaAssumption
  <2>2. QED BY <2>1, FS_Subset
<1>2. n \in Nat /\ s \in [1 .. n -> S] /\ \A e \in S : \E k \in 1 .. n : s[k] = e
  BY <1>1, SetToSeqHas
<1>3. \A c \in S : Head(r[c].out) \in Advertisement /\ Head(r[c].out).from # b
  <2>1. \A c \in S : /\ r[c].out \in Seq(Advertisement) /\ r[c].out # <<>>
                     /\ \A k \in DOMAIN r[c].out : r[c].out[k].from = c
    BY DEF Good, Says, Speaks
  <2>2. \A c \in S : /\ Head(r[c].out) \in Advertisement
                     /\ \E k \in DOMAIN r[c].out : r[c].out[k] = Head(r[c].out)
    BY <2>1, FirstTaken
  <2>3. \A c \in S : c # b
    OBVIOUS
  <2>4. QED BY <2>1, <2>2, <2>3
<1>4. Arriving(r, j, i, b) = [k \in DOMAIN s |-> Head(r[s[k]].out)]
  BY DEF Arriving
<1> HIDE DEF s, n
<1>5. Arriving(r, j, i, b) \in [1 .. n -> Advertisement] /\ DOMAIN Arriving(r, j, i, b) = 1 .. n
  BY <1>2, <1>3, <1>4
<1>6. Arriving(r, j, i, b) \in Seq(Advertisement)
  BY <1>2, <1>5, SeqDef
<1>7. ASSUME NEW c \in Boxes \ {b}, i \in j, Speaks(r, i, c)
      PROVE  \E k \in DOMAIN Arriving(r, j, i, b) : Arriving(r, j, i, b)[k] = Head(r[c].out)
  <2>1. PICK k \in 1 .. n : s[k] = c
    BY <1>2, <1>7
  <2>2. QED BY <1>2, <1>4, <1>5, <2>1
<1>8. \A k \in DOMAIN Arriving(r, j, i, b) : Arriving(r, j, i, b)[k].from # b
  BY <1>2, <1>3, <1>4, <1>5
<1>9. QED BY <1>6, <1>7, <1>8

-------------------------------------------------------------------------------
(* One box acts                                                                *)

\* A master has all its cables.
LEMMA MastersAreUp ==
  ASSUME NEW x, Fit(x), IsMaster(x)
  PROVE  x.up = Ifaces
BY EffFits DEF Fit, IsMaster

\* What was true of the masters before box b acted stays true, and what b changes
\* it says aloud.
LEMMA ActKeeps ==
  ASSUME Typed, \A m \in Boxes : Fit(box[m]),
         NEW b \in Boxes, NEW r, Good(r, b), NEW w \in Wires, NEW a \in Edges,
         Act(b, r, w, a), joined' = joined,
         edits' \in 0 .. MaxEdits, losses' \in 0 .. MaxLosses,
         \A m \in Boxes : OwnEdge(box', a, m) \/ (m = b /\ Loud(r)),
         losses' = 0 => \A m \in Boxes : \A d \in Boxes \ {m} :
           /\ Told(box', w, a, m, d) \/ (m = b /\ Loud(r))
           /\ Settling(box', w, m, d) \/ (b \in {m, d} /\ Loud(r))
  PROVE  MInv'
<1>1. box' = [box EXCEPT ![b] = r.box] /\ wire' = Sent(w, b, r) /\ at' = Learnt(a, b, r)
  BY DEF Act
<1>2. r.box \in BoxT /\ Fit(r.box)
  BY DEF Good, Fit
<1>3. box' \in [Boxes -> BoxT] /\ box'[b] = r.box /\ \A m \in Boxes : Fit(box'[m])
  BY <1>1, <1>2 DEF Typed
<1>4. /\ wire' \in Wires /\ at' \in Edges
      /\ \A i \in Ifaces, c \in Boxes, m \in Boxes :
           (From(w, i, c, m) => From(wire', i, c, m)) /\ (Virtual(w, i, c, m) => Virtual(wire', i, c, m))
      /\ \A i \in Ifaces, c \in Boxes \ {b} :
           (i \in joined /\ i \in r.box.up /\ Loud(r)) => From(wire', i, c, b) /\ Virtual(wire', i, c, b)
      /\ \A i \in Ifaces, c \in Boxes :
           at'[i][c] = IF c = b /\ i \in r.box.up /\ Loud(r) THEN b ELSE a[i][c]
  <2> DEFINE v == Sent(w, b, r)
             e == Learnt(a, b, r)
  <2>1. /\ v \in Wires
        /\ \A i \in Ifaces, c \in Boxes, m \in Boxes :
             (From(w, i, c, m) => From(v, i, c, m)) /\ (Virtual(w, i, c, m) => Virtual(v, i, c, m))
        /\ \A i \in Ifaces, c \in Boxes \ {b} :
             (i \in joined /\ i \in r.box.up /\ Loud(r)) => From(v, i, c, b) /\ Virtual(v, i, c, b)
    BY SentHas
  <2>2. /\ e \in Edges
        /\ \A i \in Ifaces, c \in Boxes :
             e[i][c] = IF c = b /\ i \in r.box.up /\ Loud(r) THEN b ELSE a[i][c]
    BY LearntKnows
  <2>3. wire' = v /\ at' = e
    BY <1>1
  <2> HIDE DEF v, e
  <2>4. QED BY <2>1, <2>2, <2>3
<1>5. Typed'
  BY <1>3, <1>4 DEF Typed
<1>6. joined \subseteq Ifaces
  BY DEF Typed
<1>7. ASSUME NEW m \in Boxes PROVE OwnEdge(box, at, m)'
  <2> SUFFICES ASSUME IsMaster(box'[m]), NEW i \in Ifaces PROVE at'[i][m] \in {m, None}
    BY DEF OwnEdge
  <2>1. CASE OwnEdge(box', a, m)
    BY <1>4, <2>1 DEF OwnEdge
  <2>2. CASE m = b /\ Loud(r)
    BY <1>3, <1>4, <2>2, MastersAreUp
  <2>3. QED BY <2>1, <2>2
<1>8. ASSUME losses' = 0, NEW m \in Boxes, NEW d \in Boxes \ {m} PROVE Told(box, wire, at, m, d)'
  <2> SUFFICES ASSUME IsMaster(box'[m]), NEW i \in joined, at'[i][d] = d
               PROVE  Virtual(wire', i, d, m) \/ From(wire', i, m, d)
    BY DEF Told
  <2>1. CASE m = b /\ Loud(r)
    BY <1>3, <1>4, <1>6, <2>1, MastersAreUp
  <2>2. CASE Told(box', w, a, m, d)
    <3>1. CASE a[i][d] = d
      BY <1>4, <1>6, <2>2, <3>1 DEF Told
    <3>2. CASE a[i][d] # d
      <4>1. d = b /\ i \in r.box.up /\ Loud(r)
        BY <1>4, <1>6, <3>2
      <4>2. QED BY <1>4, <1>6, <4>1
    <3>3. QED BY <3>1, <3>2
  <2>3. QED BY <1>8, <2>1, <2>2
<1>9. ASSUME losses' = 0, NEW m \in Boxes, NEW d \in Boxes \ {m} PROVE Settling(box, wire, m, d)'
  <2> SUFFICES ASSUME IsMaster(box'[m]), IsMaster(box'[d]), NEW i \in joined
               PROVE  From(wire', i, d, m) \/ From(wire', i, m, d)
    BY DEF Settling
  <2>1. CASE Settling(box', w, m, d)
    BY <1>4, <1>6, <2>1 DEF Settling
  <2>2. CASE m = b /\ Loud(r)
    BY <1>3, <1>4, <1>6, <2>2, MastersAreUp
  <2>3. CASE d = b /\ Loud(r)
    BY <1>3, <1>4, <1>6, <2>3, MastersAreUp
  <2>4. QED BY <1>9, <2>1, <2>2, <2>3
<1>10. QED BY <1>3, <1>5, <1>7, <1>8, <1>9 DEF MInv

-------------------------------------------------------------------------------
(* Every master is poked                                                       *)

LEMMA PokeGood ==
  ASSUME NEW x, Fit(x), NEW b \in Boxes
  PROVE  LET r == Poke(x, b)
         IN /\ Good(r, b) /\ r.box = x
            /\ IsMaster(x) => r.out # <<>> /\ Head(r.out).from = b /\ Head(r.out).vmac
<1>1. CASE IsMaster(x)
  <2>1. x \in BoxT /\ x.on
    BY <1>1 DEF Fit, IsMaster
  <2>2. Poke(x, b) = Does(x, <<Advert(x, b, x.prio, FALSE)>>)
    BY <1>1, <2>1 DEF Poke, IsMaster
  <2>3. Good(Poke(x, b), b)
    BY <1>1, <2>2, MasterSays
  <2>4. x.prio > 0
    BY <2>1, EffFits
  <2>5. Advert(x, b, x.prio, FALSE).from = b /\ Advert(x, b, x.prio, FALSE).vmac
    BY <1>1, <2>4 DEF Advert, IsMaster
  <2>6. /\ Poke(x, b).box = x /\ Poke(x, b).out # <<>>
        /\ Head(Poke(x, b).out) = Advert(x, b, x.prio, FALSE)
    BY <2>2 DEF Does
  <2>7. QED BY <2>3, <2>5, <2>6
<1>2. CASE ~ IsMaster(x)
  BY <1>2, QuietGood DEF Poke, IsMaster, Quiet, Does
<1>3. QED BY <1>1, <1>2

LEMMA PokedKeeps ==
  ASSUME NEW bx \in [Boxes -> BoxT], \A m \in Boxes : Fit(bx[m]),
         NEW w \in Wires, NEW a \in Edges, NEW j \in SUBSET Ifaces, joined' = j,
         Poked(bx, w, a, j), edits' \in 0 .. MaxEdits, losses' \in 0 .. MaxLosses
  PROVE  MInv'
<1> DEFINE r == [b \in Boxes |-> Poke(bx[b], b)]
<1>1. \A c \in Boxes :
        /\ Good(r[c], c) /\ r[c].box = bx[c]
        /\ IsMaster(bx[c]) => r[c].out # <<>> /\ Head(r[c].out).from = c /\ Head(r[c].out).vmac
  BY PokeGood
<1>2. /\ box' = bx
      /\ wire' = [i \in Ifaces |-> [c \in Boxes |-> w[i][c] \o Arriving(r, j, i, c)]]
      /\ at' = [i \in Ifaces |-> [c \in Boxes |-> IF Speaks(r, i, c) THEN c ELSE a[i][c]]]
  BY DEF Poked
<1> HIDE DEF r
<1>3. \A c \in Boxes, i \in Ifaces : IsMaster(bx[c]) => Speaks(r, i, c)
  BY <1>1, MastersAreUp DEF Speaks
<1>4. ASSUME NEW i \in Ifaces, NEW c \in Boxes
      PROVE  /\ wire'[i][c] \in Seq(Advertisement)
             /\ ~ From(wire', i, c, c)
             /\ \A m \in Boxes \ {c} : i \in j /\ IsMaster(bx[m]) =>
                  From(wire', i, c, m) /\ Virtual(wire', i, c, m)
  <2> DEFINE s == w[i][c]
             t == Arriving(r, j, i, c)
             u == wire'[i][c]
  <2>1. s \in Seq(Advertisement) /\ u = s \o t /\ \A k \in DOMAIN s : s[k].from # c
    BY <1>2 DEF Wires, From
  <2>2. /\ t \in Seq(Advertisement)
        /\ \A m \in Boxes \ {c} :
             i \in j /\ Speaks(r, i, m) => \E k \in DOMAIN t : t[k] = Head(r[m].out)
        /\ \A k \in DOMAIN t : t[k].from # c
    BY <1>1, ArrivingHas
  <2> HIDE DEF s, t, u
  <2>3. u \in Seq(Advertisement) /\ \A k \in DOMAIN t : \E n \in DOMAIN u : u[n] = t[k]
    BY <2>1, <2>2, Appended
  <2>5. \A n \in DOMAIN u : u[n].from # c
    BY <2>1, <2>2, Appended
  <2>4. ASSUME NEW m \in Boxes \ {c}, i \in j, IsMaster(bx[m])
        PROVE  \E n \in DOMAIN u : u[n].from = m /\ u[n].vmac
    <3>1. PICK n \in DOMAIN u : u[n] = Head(r[m].out)
      BY <1>3, <2>2, <2>3, <2>4
    <3>2. QED BY <1>1, <2>4, <3>1
  <2>6. QED BY <2>3, <2>4, <2>5 DEF From, Virtual, u
<1>5. /\ wire' \in Wires
      /\ at' \in Edges
      /\ \A m \in Boxes, i \in Ifaces : IsMaster(bx[m]) => at'[i][m] = m
  <2>1. \A i \in Ifaces : wire'[i] = [c \in Boxes |-> wire'[i][c]]
    BY <1>2
  <2>2. \A i \in Ifaces : wire'[i] \in [Boxes -> Seq(Advertisement)]
    BY <1>4, <2>1
  <2>3. wire' \in Wires
    BY <1>2, <1>4, <2>2 DEF Wires
  <2>4. \A i \in Ifaces, c \in Boxes : a[i][c] \in Boxes \cup {None}
    BY DEF Edges
  <2>5. at' \in Edges
    BY <1>2, <2>4 DEF Edges
  <2>6. QED BY <1>2, <1>3, <2>3, <2>5
<1>6. Typed' /\ \A m \in Boxes : Fit(box'[m])
  BY <1>2, <1>5 DEF Typed
<1>7. \A m \in Boxes : OwnEdge(box, at, m)'
  BY <1>2, <1>5 DEF OwnEdge
<1>8. \A m \in Boxes : \A d \in Boxes \ {m} : Told(box, wire, at, m, d)' /\ Settling(box, wire, m, d)'
  BY <1>2, <1>4 DEF Told, Settling
<1>9. QED BY <1>6, <1>7, <1>8 DEF MInv

-------------------------------------------------------------------------------
(* Each action keeps the invariant                                             *)

\* A box acts of itself: who becomes master says so.
LEMMA SelfKeeps ==
  ASSUME MInv, NEW b \in Boxes, NEW r, Good(r, b), Act(b, r, wire, at), joined' = joined,
         edits' \in 0 .. MaxEdits, losses' = losses,
         IsMaster(r.box) => IsMaster(box[b]) \/ Loud(r)
  PROVE  MInv'
<1>1. Typed /\ wire \in Wires /\ at \in Edges /\ losses' \in 0 .. MaxLosses /\ \A m \in Boxes : Fit(box[m])
  BY DEF MInv, Typed
<1>2. box' = [box EXCEPT ![b] = r.box]
  BY DEF Act
<1>3. \A m \in Boxes : (IsMaster(box'[m]) => IsMaster(box[m])) \/ (m = b /\ Loud(r))
  BY <1>1, <1>2 DEF Typed
<1>4. \A m \in Boxes : OwnEdge(box', at, m) \/ (m = b /\ Loud(r))
  BY <1>3 DEF MInv, OwnEdge
<1>5. losses' = 0 => \A m \in Boxes : \A d \in Boxes \ {m} :
        /\ Told(box', wire, at, m, d) \/ (m = b /\ Loud(r))
        /\ Settling(box', wire, m, d) \/ (b \in {m, d} /\ Loud(r))
  BY <1>3 DEF MInv, Told, Settling
<1>6. QED BY <1>1, <1>4, <1>5, ActKeeps

LEMMA ExpireKeepsMInv ==
  ASSUME MInv, NEW b \in Boxes, ExpireAdvert(b) \/ ExpireWatch(b) \/ ExpireArmed(b)
  PROVE  MInv'
<1>1. Fit(box[b]) /\ box[b] \in BoxT /\ edits \in 0 .. MaxEdits
  BY DEF MInv, Typed
<1>2. CASE ExpireAdvert(b)
  <2> DEFINE x == [box[b] EXCEPT !.adv = None]
             r == IF x.on /\ x.state = "master"
                    THEN Does(ScheduleAdvert(x), <<Advert(x, b, x.prio, FALSE)>>)
                    ELSE Quiet(x)
  <2>1. Act(b, r, wire, at) /\ joined' = joined /\ edits' = edits /\ losses' = losses
    BY <1>2 DEF ExpireAdvert
  <2>2. /\ x \in BoxT /\ x.on = box[b].on /\ x.up = box[b].up
        /\ x.prio = box[b].prio /\ x.state = box[b].state
    BY <1>1, TimersFit DEF BoxT
  <2> HIDE DEF x
  <2>3. Fit(x)
    BY <1>1, <2>2, FitKept
  <2>4. Fit(ScheduleAdvert(x))
    BY <2>2, <2>3, TimersSet, FitKept
  <2>5. Good(r, b) /\ (IsMaster(r.box) => IsMaster(box[b]) \/ Loud(r))
    <3>1. CASE x.on /\ x.state = "master"
      <4>1. r = Does(ScheduleAdvert(x), <<Advert(x, b, x.prio, FALSE)>>)
        BY <3>1
      <4>2. IsMaster(x)
        BY <3>1 DEF IsMaster
      <4> HIDE DEF r
      <4>3. QED BY <2>3, <2>4, <4>1, <4>2, MasterSays
    <3>2. CASE ~ (x.on /\ x.state = "master")
      <4>1. r = Quiet(x)
        BY <3>2
      <4> HIDE DEF r
      <4>2. QED BY <2>2, <2>3, <4>1, QuietGood DEF IsMaster, Quiet, Does
    <3>3. QED BY <3>1, <3>2
  <2> HIDE DEF r
  <2>6. QED BY <1>1, <2>1, <2>5, SelfKeeps
<1>3. CASE ExpireWatch(b)
  <2> DEFINE x == [box[b] EXCEPT !.watch = None]
             r == IF x.state = "master" \/ x.armed # None \/ Eff(x) = 0 THEN Quiet(x) ELSE BecomeMaster(x, b)
  <2>1. Act(b, r, wire, at) /\ joined' = joined /\ edits' = edits /\ losses' = losses
    BY <1>3 DEF ExpireWatch
  <2>2. /\ x \in BoxT /\ x.on = box[b].on /\ x.up = box[b].up
        /\ x.prio = box[b].prio /\ x.state = box[b].state
    BY <1>1, TimersFit DEF BoxT
  <2> HIDE DEF x
  <2>3. Fit(x) /\ Eff(x) \in 0 .. TopPrio
    BY <1>1, <2>2, FitKept, EffFits
  <2>4. Good(r, b) /\ (IsMaster(r.box) => IsMaster(box[b]) \/ Loud(r))
    <3>1. CASE r = Quiet(x)
      BY <2>2, <2>3, <3>1, QuietGood DEF IsMaster, Quiet, Does
    <3>2. CASE r = BecomeMaster(x, b) /\ Eff(x) # 0
      BY <2>3, <3>2, BecomeMasterGood
    <3>3. QED BY <3>1, <3>2
  <2> HIDE DEF r
  <2>5. QED BY <1>1, <2>1, <2>4, SelfKeeps
<1>4. CASE ExpireArmed(b)
  <2> DEFINE x == [box[b] EXCEPT !.armed = None]
             r == IF x.state = "master" \/ Eff(x) = 0 THEN Quiet(x) ELSE BecomeMaster(x, b)
  <2>1. Act(b, r, wire, at) /\ joined' = joined /\ edits' = edits /\ losses' = losses
    BY <1>4 DEF ExpireArmed
  <2>2. /\ x \in BoxT /\ x.on = box[b].on /\ x.up = box[b].up
        /\ x.prio = box[b].prio /\ x.state = box[b].state
    BY <1>1, TimersFit DEF BoxT
  <2> HIDE DEF x
  <2>3. Fit(x) /\ Eff(x) \in 0 .. TopPrio
    BY <1>1, <2>2, FitKept, EffFits
  <2>4. Good(r, b) /\ (IsMaster(r.box) => IsMaster(box[b]) \/ Loud(r))
    <3>1. CASE r = Quiet(x)
      BY <2>2, <2>3, <3>1, QuietGood DEF IsMaster, Quiet, Does
    <3>2. CASE r = BecomeMaster(x, b) /\ Eff(x) # 0
      BY <2>3, <3>2, BecomeMasterGood
    <3>3. QED BY <3>1, <3>2
  <2> HIDE DEF r
  <2>5. QED BY <1>1, <2>1, <2>4, SelfKeeps
<1>5. QED BY <1>2, <1>3, <1>4

LEMMA ConfigKeepsMInv ==
  ASSUME MInv, NEW b \in Boxes, SwitchAdvert(b) \/ Reconfigure(b)
  PROVE  MInv'
<1>1. Fit(box[b]) /\ edits \in 0 .. MaxEdits /\ MaxEdits \in Nat
  BY HaAssumption DEF MInv, Typed
<1>2. edits' \in 0 .. MaxEdits /\ joined' = joined /\ losses' = losses
  <2>1. Edit /\ joined' = joined /\ losses' = losses
    BY DEF SwitchAdvert, Reconfigure
  <2>2. QED BY <1>1, <2>1 DEF Edit
<1>3. CASE SwitchAdvert(b)
  <2>1. PICK v \in Adverts : Act(b, Quiet(SetAdvert(box[b], v)), wire, at)
    BY <1>3 DEF SwitchAdvert
  <2>2. v \in BOOLEAN
    BY <2>1, HaAssumption
  <2>3. Good(Quiet(SetAdvert(box[b], v)), b) /\ SetAdvert(box[b], v).state = box[b].state
    BY <1>1, <2>2, SetAdvertGood
  <2>4. IsMaster(Quiet(SetAdvert(box[b], v)).box) => IsMaster(box[b])
    BY <2>3 DEF Quiet, Does, IsMaster
  <2>5. QED BY <1>2, <2>1, <2>3, <2>4, SelfKeeps
<1>4. CASE Reconfigure(b)
  <2>1. PICK on \in BOOLEAN, q \in Prios : Act(b, SetConfig(box[b], b, on, q), wire, at)
    BY <1>4 DEF Reconfigure
  <2>2. Good(SetConfig(box[b], b, on, q), b) /\ ~ IsMaster(SetConfig(box[b], b, on, q).box)
    BY <1>1, SetConfigGood
  <2>3. QED BY <1>2, <2>1, <2>2, SelfKeeps
<1>5. QED BY <1>3, <1>4

LEMMA PlugKeepsMInv ==
  ASSUME MInv, NEW b \in Boxes, NEW i \in Ifaces, CableIn(b, i)
  PROVE  MInv'
<1> DEFINE up == box[b].up \cup {i}
           r == OnLinks([box[b] EXCEPT !.up = up], b)
           bx == [box EXCEPT ![b] = r.box]
<1>1. /\ Poked(bx, Sent(wire, b, r), Learnt(at, b, r), joined) /\ i \notin box[b].up
      /\ Edit /\ joined' = joined /\ losses' = losses
  BY DEF CableIn
<1>2. /\ \A m \in Boxes : Fit(box[m]) /\ box[m].up \subseteq Ifaces
      /\ box \in [Boxes -> BoxT] /\ wire \in Wires /\ at \in Edges /\ joined \subseteq Ifaces
      /\ edits \in 0 .. MaxEdits /\ losses \in 0 .. MaxLosses /\ MaxEdits \in Nat
  BY HaAssumption DEF MInv, Typed, BoxT
<1>3. box[b].state # "master"
  BY <1>1, <1>2, MastersAreUp DEF IsMaster
<1>4. up \in SUBSET Ifaces
  BY <1>2
<1>5. Good(r, b)
  BY <1>2, <1>3, <1>4, OnLinksGood
<1> HIDE DEF r
<1>6. bx \in [Boxes -> BoxT] /\ \A m \in Boxes : Fit(bx[m])
  BY <1>2, <1>5 DEF Good, Fit
<1>7. Sent(wire, b, r) \in Wires /\ Learnt(at, b, r) \in Edges
  BY <1>2, <1>5, SentHas, LearntKnows
<1>8. edits' \in 0 .. MaxEdits /\ losses' \in 0 .. MaxLosses /\ joined \in SUBSET Ifaces
  BY <1>1, <1>2 DEF Edit
<1> HIDE DEF bx
<1>9. QED BY <1>1, <1>6, <1>7, <1>8, PokedKeeps

LEMMA JoinKeepsMInv ==
  ASSUME MInv, NEW i \in Ifaces, Join(i)
  PROVE  MInv'
<1>1. /\ Poked(box, wire, at, joined') /\ joined' \in SUBSET Ifaces
      /\ edits' \in 0 .. MaxEdits /\ losses' \in 0 .. MaxLosses
  BY HaAssumption DEF Join, Edit, MInv, Typed
<1>2. box \in [Boxes -> BoxT] /\ wire \in Wires /\ at \in Edges /\ \A m \in Boxes : Fit(box[m])
  BY DEF MInv, Typed
<1>3. QED BY <1>1, <1>2, PokedKeeps

LEMMA SplitKeepsMInv ==
  ASSUME MInv, NEW i \in Ifaces, Split(i)
  PROVE  MInv'
<1>1. /\ box' = box /\ joined' = joined \ {i} /\ losses' = losses
      /\ wire' = [wire EXCEPT ![i] = [c \in Boxes |-> <<>>]]
      /\ at' = [at EXCEPT ![i] = [c \in Boxes |-> IF @[c] = c THEN c ELSE None]]
  BY DEF Split
<1>2. edits' \in 0 .. MaxEdits
  BY HaAssumption DEF Split, Edit, MInv, Typed
<1>3. /\ wire \in Wires /\ at \in Edges
      /\ wire \in [Ifaces -> [Boxes -> Seq(Advertisement)]]
      /\ \A j \in Ifaces, c \in Boxes : ~ From(wire, j, c, c)
  BY DEF MInv, Typed, Wires
<1>4. /\ \A j \in Ifaces : j # i => wire'[j] = wire[j] /\ at'[j] = at[j]
      /\ \A c \in Boxes : at'[i][c] \in {c, None} /\ wire'[i][c] = <<>>
  BY <1>1, <1>3 DEF Edges
<1>5. wire' \in Wires
  <2>1. <<>> \in Seq(Advertisement)
    OBVIOUS
  <2>2. wire' \in [Ifaces -> [Boxes -> Seq(Advertisement)]]
    BY <1>1, <1>3, <2>1
  <2>3. ASSUME NEW j \in Ifaces, NEW c \in Boxes PROVE ~ From(wire', j, c, c)
    <3>1. CASE j = i
      BY <1>4, <3>1 DEF From
    <3>2. CASE j # i
      BY <1>3, <1>4, <3>2 DEF From
    <3>3. QED BY <3>1, <3>2
  <2>4. QED BY <2>2, <2>3 DEF Wires
<1>6. at' \in Edges
  BY <1>1, <1>3 DEF Edges
<1>7. Typed'
  BY <1>1, <1>2, <1>5, <1>6 DEF MInv, Typed
<1>8. ASSUME NEW m \in Boxes PROVE Fit(box[m])' /\ OwnEdge(box, at, m)'
  BY <1>1, <1>4 DEF MInv, OwnEdge
<1>9. ASSUME losses' = 0, NEW m \in Boxes, NEW d \in Boxes \ {m}
      PROVE  Told(box, wire, at, m, d)' /\ Settling(box, wire, m, d)'
  <2>1. Told(box, wire, at, m, d) /\ Settling(box, wire, m, d)
    BY <1>1, <1>9 DEF MInv
  <2>2. \A j \in joined' : j \in joined /\ wire'[j] = wire[j] /\ at'[j] = at[j]
    BY <1>1, <1>4 DEF MInv, Typed
  <2>3. QED BY <1>1, <2>1, <2>2 DEF Told, Settling, Virtual, From
<1>10. QED BY <1>7, <1>8, <1>9 DEF MInv

LEMMA UnplugKeepsMInv ==
  ASSUME MInv, NEW b \in Boxes, NEW i \in Ifaces, CableOut(b, i)
  PROVE  MInv'
<1> DEFINE up == box[b].up \ {i}
           r == OnLinks([box[b] EXCEPT !.up = up], b)
           a == IF at[i][b] = b THEN [at EXCEPT ![i][b] = None] ELSE at
           cut == [wire EXCEPT ![i] = [c \in Boxes |-> Vanish(wire[i][c], b)]]
<1>1. PICK w \in {wire, cut} : Act(b, r, w, a)
  BY DEF CableOut
<1>2. joined' = joined /\ losses' = losses /\ Edit /\ i \in box[b].up
  BY DEF CableOut
<1>3. /\ Typed /\ \A m \in Boxes : Fit(box[m]) /\ box[m].up \subseteq Ifaces
      /\ box \in [Boxes -> BoxT] /\ wire \in Wires /\ at \in Edges /\ joined \subseteq Ifaces
      /\ edits \in 0 .. MaxEdits /\ losses \in 0 .. MaxLosses /\ MaxEdits \in Nat
  BY HaAssumption DEF MInv, Typed, BoxT
<1>4. up \in SUBSET Ifaces /\ up # Ifaces
  BY <1>3
<1>5. Good(r, b) /\ ~ IsMaster(r.box)
  BY <1>3, <1>4, OnLinksGood
<1> HIDE DEF r
<1>6. edits' \in 0 .. MaxEdits /\ losses' \in 0 .. MaxLosses
  BY <1>2, <1>3 DEF Edit
<1>7. box' = [box EXCEPT ![b] = r.box]
  BY <1>1 DEF Act
<1>8. ~ IsMaster(box'[b]) /\ \A m \in Boxes : m # b => box'[m] = box[m]
  BY <1>3, <1>5, <1>7
<1>9. /\ a \in Edges /\ a[i][b] # b
      /\ \A j \in Ifaces, c \in Boxes : a[j][c] = at[j][c] \/ (j = i /\ c = b /\ a[j][c] = None)
  <2>1. \A c \in Boxes : c # None
    BY HaAssumption
  <2>2. QED BY <1>3, <2>1 DEF Edges
<1>10. ASSUME NEW j \in Ifaces, NEW c \in Boxes
       PROVE  /\ cut[j][c] \in Seq(Advertisement) /\ ~ From(cut, j, c, c)
              /\ \A m \in Boxes : m # b \/ j # i =>
                   (From(wire, j, c, m) => From(cut, j, c, m)) /\ (Virtual(wire, j, c, m) => Virtual(cut, j, c, m))
  <2>1. wire[j][c] \in Seq(Advertisement) /\ ~ From(wire, j, c, c)
    BY <1>3 DEF Wires
  <2>2. CASE j # i
    <3>1. cut[j] = wire[j]
      BY <1>3, <2>2 DEF Wires
    <3>2. QED BY <2>1, <3>1 DEF From, Virtual
  <2>3. CASE j = i
    <3> DEFINE s == wire[j][c]
               t == cut[j][c]
    <3>1. t = Vanish(s, b)
      BY <1>3, <2>3 DEF Wires
    <3>2. s \in Seq(Advertisement) /\ ~ \E k \in DOMAIN s : s[k].from = c
      BY <2>1 DEF From
    <3>3. Vanished \in Advertisement /\ \A m \in Boxes : Vanished.from # m
      BY HaAssumption DEF Vanished, Advertisement
    <3> HIDE DEF s, t
    <3>4. /\ DOMAIN t = DOMAIN s
          /\ \A k \in DOMAIN s : t[k] = IF s[k].from = b THEN Vanished ELSE s[k]
      BY <3>1 DEF Vanish
    <3>5. t \in Seq(Advertisement)
      <4>1. Len(s) \in Nat /\ DOMAIN s = 1 .. Len(s) /\ \A k \in DOMAIN s : s[k] \in Advertisement
        BY <3>2, LenProperties
      <4>2. t \in [1 .. Len(s) -> Advertisement]
        BY <3>1, <3>3, <3>4, <4>1 DEF Vanish
      <4>3. QED BY <4>1, <4>2, SeqDef
    <3>6. ~ \E k \in DOMAIN t : t[k].from = c
      BY <3>2, <3>3, <3>4
    <3>7. \A m \in Boxes : m # b =>
            /\ (\E k \in DOMAIN s : s[k].from = m) => \E k \in DOMAIN t : t[k].from = m
            /\ (\E k \in DOMAIN s : s[k].from = m /\ s[k].vmac) => \E k \in DOMAIN t : t[k].from = m /\ t[k].vmac
      BY <3>4
    <3>8. QED BY <2>3, <3>5, <3>6, <3>7 DEF From, Virtual, s, t
  <2>4. QED BY <2>2, <2>3
<1>11. cut \in Wires
  <2>1. \A j \in Ifaces : cut[j] = [c \in Boxes |-> cut[j][c]]
    BY <1>3 DEF Wires
  <2>2. cut = [j \in Ifaces |-> cut[j]]
    BY <1>3 DEF Wires
  <2> HIDE DEF cut
  <2>3. \A j \in Ifaces : cut[j] \in [Boxes -> Seq(Advertisement)]
    BY <1>10, <2>1
  <2>4. QED BY <1>10, <2>2, <2>3 DEF Wires
<1> HIDE DEF cut, a
<1>12. /\ w \in Wires
       /\ \A j \in Ifaces, c \in Boxes, m \in Boxes : m # b \/ j # i =>
            (From(wire, j, c, m) => From(w, j, c, m)) /\ (Virtual(wire, j, c, m) => Virtual(w, j, c, m))
  BY <1>3, <1>10, <1>11
<1>13. \A m \in Boxes : OwnEdge(box', a, m)
  BY <1>8, <1>9 DEF MInv, OwnEdge
<1>14. ASSUME losses' = 0, NEW m \in Boxes, NEW d \in Boxes \ {m}
       PROVE  Told(box', w, a, m, d)
  <2> SUFFICES ASSUME IsMaster(box'[m]), NEW j \in joined, a[j][d] = d
               PROVE  Virtual(w, j, d, m) \/ From(w, j, m, d)
    BY DEF Told
  <2>1. m # b /\ IsMaster(box[m]) /\ j \in Ifaces
    BY <1>3, <1>8
  <2>2. at[j][d] = d /\ (d # b \/ j # i)
    <3>1. d # None
      BY HaAssumption
    <3>2. QED BY <1>9, <2>1, <3>1
  <2>3. Told(box, wire, at, m, d)
    BY <1>2, <1>14 DEF MInv
  <2>4. Virtual(wire, j, d, m) \/ From(wire, j, m, d)
    BY <2>1, <2>2, <2>3 DEF Told
  <2>5. QED BY <1>12, <2>1, <2>2, <2>4
<1>15. ASSUME losses' = 0, NEW m \in Boxes, NEW d \in Boxes \ {m}
       PROVE  Settling(box', w, m, d)
  <2> SUFFICES ASSUME IsMaster(box'[m]), IsMaster(box'[d]), NEW j \in joined
               PROVE  From(w, j, d, m) \/ From(w, j, m, d)
    BY DEF Settling
  <2>1. m # b /\ d # b /\ IsMaster(box[m]) /\ IsMaster(box[d]) /\ j \in Ifaces
    BY <1>3, <1>8
  <2>2. Settling(box, wire, m, d)
    BY <1>2, <1>15 DEF MInv
  <2>3. QED BY <1>12, <2>1, <2>2 DEF Settling
<1>16. QED BY <1>1, <1>2, <1>3, <1>5, <1>6, <1>9, <1>12, <1>13, <1>14, <1>15, ActKeeps

\* The first advert leaves a wire: the others stay.
LEMMA TakenHas ==
  ASSUME NEW w \in Wires, NEW i \in Ifaces, NEW b \in Boxes, w[i][b] # <<>>
  PROVE  LET v == [w EXCEPT ![i][b] = Tail(@)]
             h == Head(w[i][b])
         IN /\ v \in Wires /\ h \in Advertisement /\ h.from # b
            /\ \A j \in Ifaces, c \in Boxes, m \in Boxes :
                 /\ From(w, j, c, m) => From(v, j, c, m) \/ (j = i /\ c = b /\ h.from = m)
                 /\ Virtual(w, j, c, m) => Virtual(v, j, c, m) \/ (j = i /\ c = b /\ h.from = m /\ h.vmac)
<1> DEFINE v == [w EXCEPT ![i][b] = Tail(@)]
           s == w[i][b]
           t == v[i][b]
           h == Head(s)
<1>1. /\ w \in [Ifaces -> [Boxes -> Seq(Advertisement)]]
      /\ \A j \in Ifaces, c \in Boxes : ~ From(w, j, c, c)
      /\ s \in Seq(Advertisement)
  BY DEF Wires
<1>2. /\ t = Tail(s)
      /\ \A j \in Ifaces, c \in Boxes : (j = i /\ c = b) \/ v[j][c] = w[j][c]
  BY <1>1
<1>3. ~ \E k \in DOMAIN s : s[k].from = b
  BY <1>1 DEF From
<1>4. v \in [Ifaces -> [Boxes -> Seq(Advertisement)]]
  <2>1. Tail(s) \in Seq(Advertisement)
    BY <1>1, FirstTaken
  <2>2. QED BY <1>1, <2>1
<1> HIDE DEF v, s, t
<1>5. /\ h \in Advertisement /\ \E k \in DOMAIN s : s[k] = h
      /\ \A k \in DOMAIN s : s[k] = h \/ \E n \in DOMAIN t : t[n] = s[k]
      /\ \A n \in DOMAIN t : \E k \in DOMAIN s : t[n] = s[k]
  BY <1>1, <1>2, FirstTaken DEF s
<1> HIDE DEF h
<1>6. h.from # b /\ ~ \E n \in DOMAIN t : t[n].from = b
  BY <1>3, <1>5
<1>7. \A m \in Boxes :
        /\ (\E k \in DOMAIN s : s[k].from = m) => (\E n \in DOMAIN t : t[n].from = m) \/ h.from = m
        /\ (\E k \in DOMAIN s : s[k].from = m /\ s[k].vmac) =>
             (\E n \in DOMAIN t : t[n].from = m /\ t[n].vmac) \/ (h.from = m /\ h.vmac)
  BY <1>5
<1>8. \A m \in Boxes :
        /\ From(w, i, b, m) => From(v, i, b, m) \/ h.from = m
        /\ Virtual(w, i, b, m) => Virtual(v, i, b, m) \/ (h.from = m /\ h.vmac)
  BY <1>7 DEF From, Virtual, s, t
<1>9. \A j \in Ifaces, c \in Boxes, m \in Boxes : ~ (j = i /\ c = b) =>
        (From(w, j, c, m) <=> From(v, j, c, m)) /\ (Virtual(w, j, c, m) <=> Virtual(v, j, c, m))
  BY <1>2 DEF From, Virtual
<1>10. ASSUME NEW j \in Ifaces, NEW c \in Boxes PROVE ~ From(v, j, c, c)
  <2>1. CASE j = i /\ c = b
    BY <1>6, <2>1 DEF From, t
  <2>2. CASE ~ (j = i /\ c = b)
    BY <1>1, <1>9, <2>2
  <2>3. QED BY <2>1, <2>2
<1>11. v \in Wires
  BY <1>4, <1>10 DEF Wires
<1>12. QED BY <1>5, <1>6, <1>8, <1>9, <1>11 DEF v, h, s

\* Who is reached by an advert and stays master answers it; who is not reached
\* has lost a cable, and is not master.
LEMMA DeliverKeepsMInv ==
  ASSUME MInv, NEW i \in Ifaces, NEW b \in Boxes, Deliver(i, b)
  PROVE  MInv'
<1> DEFINE h == Head(wire[i][b])
           w == [wire EXCEPT ![i][b] = Tail(@)]
           a == IF h.vmac THEN [at EXCEPT ![i][b] = h.from] ELSE at
           heard == i \in box[b].up /\ h # Vanished
           r == IF heard THEN Handle(box[b], b, h) ELSE Quiet(box[b])
<1>1. /\ wire[i][b] # <<>> /\ Act(b, r, w, a)
      /\ joined' = joined /\ edits' = edits /\ losses' = losses
  BY DEF Deliver
<1>2. /\ Typed /\ (\A m \in Boxes : Fit(box[m])) /\ box \in [Boxes -> BoxT]
      /\ wire \in Wires /\ at \in Edges /\ joined \subseteq Ifaces
      /\ edits' \in 0 .. MaxEdits /\ losses' \in 0 .. MaxLosses
  BY <1>1 DEF MInv, Typed
<1>3. /\ w \in Wires /\ h \in Advertisement /\ h.from # b
      /\ \A j \in Ifaces, c \in Boxes, m \in Boxes :
           /\ From(wire, j, c, m) => From(w, j, c, m) \/ (j = i /\ c = b /\ h.from = m)
           /\ Virtual(wire, j, c, m) => Virtual(w, j, c, m) \/ (j = i /\ c = b /\ h.from = m /\ h.vmac)
  BY <1>1, <1>2, TakenHas
<1>4. Good(r, b) /\ (heard => (IsMaster(r.box) => Loud(r))) /\ (~ heard => r.box = box[b])
  <2>1. CASE heard
    BY <1>2, <1>3, <2>1, HandleGood
  <2>2. CASE ~ heard
    BY <1>2, <2>2, QuietGood DEF Quiet, Does
  <2>3. QED BY <2>1, <2>2
<1>5. ~ heard => ~ IsMaster(box[b]) \/ (h.from = None /\ ~ h.vmac)
  <2>1. i \notin box[b].up => ~ IsMaster(box[b])
    BY <1>2, MastersAreUp
  <2>2. QED BY <2>1 DEF Vanished
<1> HIDE DEF w, r, h, heard
<1>6. a \in Edges /\ \A j \in Ifaces, c \in Boxes :
        a[j][c] = IF j = i /\ c = b /\ h.vmac THEN h.from ELSE at[j][c]
  <2>1. h.from \in Boxes \cup {None}
    BY <1>3 DEF Advertisement
  <2>2. QED BY <1>2, <2>1 DEF Edges
<1> HIDE DEF a
<1>7. box' = [box EXCEPT ![b] = r.box]
  BY <1>1 DEF Act
<1>8. /\ \A m \in Boxes : m # b => box'[m] = box[m]
      /\ IsMaster(box'[b]) => Loud(r) \/ (IsMaster(box[b]) /\ h.from = None /\ ~ h.vmac)
  BY <1>2, <1>4, <1>5, <1>7
<1>9. \A m \in Boxes : m # None
  BY HaAssumption
<1>10. ASSUME NEW m \in Boxes PROVE OwnEdge(box', a, m) \/ (m = b /\ Loud(r))
  <2>1. OwnEdge(box, at, m)
    BY DEF MInv
  <2>2. CASE m # b
    BY <1>6, <1>8, <2>1, <2>2 DEF OwnEdge
  <2>3. CASE m = b
    BY <1>6, <1>8, <2>1, <2>3 DEF OwnEdge
  <2>4. QED BY <2>2, <2>3
<1>11. ASSUME losses' = 0, NEW m \in Boxes, NEW d \in Boxes \ {m}
       PROVE  Told(box', w, a, m, d) \/ (m = b /\ Loud(r))
  <2> SUFFICES ASSUME IsMaster(box'[m]), ~ (m = b /\ Loud(r)), NEW j \in joined, a[j][d] = d
               PROVE  Virtual(w, j, d, m) \/ From(w, j, m, d)
    BY DEF Told
  <2>1. IsMaster(box[m]) /\ j \in Ifaces
    BY <1>2, <1>8
  <2>2. Told(box, wire, at, m, d)
    BY <1>1, <1>11 DEF MInv
  <2>3. at[j][d] = d /\ ~ (j = i /\ d = b /\ h.vmac)
    BY <1>3, <1>6, <2>1
  <2>4. Virtual(wire, j, d, m) \/ From(wire, j, m, d)
    BY <2>1, <2>2, <2>3 DEF Told
  <2>5. Virtual(wire, j, d, m) => Virtual(w, j, d, m)
    BY <1>3, <2>1, <2>3
  <2>6. From(wire, j, m, d) => From(w, j, m, d)
    BY <1>3, <1>8, <1>9, <2>1
  <2>7. QED BY <2>4, <2>5, <2>6
<1>12. ASSUME losses' = 0, NEW m \in Boxes, NEW d \in Boxes \ {m}
       PROVE  Settling(box', w, m, d) \/ (b \in {m, d} /\ Loud(r))
  <2> SUFFICES ASSUME IsMaster(box'[m]), IsMaster(box'[d]), ~ (b \in {m, d} /\ Loud(r)), NEW j \in joined
               PROVE  From(w, j, d, m) \/ From(w, j, m, d)
    BY DEF Settling
  <2>1. IsMaster(box[m]) /\ IsMaster(box[d]) /\ j \in Ifaces
    BY <1>2, <1>8
  <2>2. Settling(box, wire, m, d)
    BY <1>1, <1>12 DEF MInv
  <2>3. From(wire, j, d, m) \/ From(wire, j, m, d)
    BY <2>1, <2>2 DEF Settling
  <2>4. From(wire, j, d, m) => From(w, j, d, m)
    BY <1>3, <1>8, <1>9, <2>1
  <2>5. From(wire, j, m, d) => From(w, j, m, d)
    BY <1>3, <1>8, <1>9, <2>1
  <2>6. QED BY <2>3, <2>4, <2>5
<1>13. QED BY <1>1, <1>2, <1>3, <1>4, <1>6, <1>10, <1>11, <1>12, ActKeeps

LEMMA LoseKeepsMInv ==
  ASSUME MInv, NEW i \in Ifaces, NEW b \in Boxes, Lose(i, b)
  PROVE  MInv'
<1>1. /\ wire[i][b] # <<>> /\ wire' = [wire EXCEPT ![i][b] = Tail(@)]
      /\ losses < MaxLosses /\ losses' = losses + 1
      /\ box' = box /\ joined' = joined /\ at' = at /\ edits' = edits
  BY DEF Lose
<1>2. Typed /\ losses \in Nat /\ MaxLosses \in Nat
  BY HaAssumption DEF MInv, Typed
<1>3. wire' \in Wires
  BY <1>1, <1>2, TakenHas DEF Typed
<1>4. Typed' /\ losses' # 0
  BY <1>1, <1>2, <1>3 DEF Typed
<1>5. \A m \in Boxes : Fit(box[m])' /\ OwnEdge(box, at, m)'
  BY <1>1 DEF MInv, OwnEdge
<1>6. QED BY <1>4, <1>5 DEF MInv

\* Time runs on every box alike.
LEMMA TickKeepsMInv == ASSUME MInv, Tick PROVE MInv'
<1>1. /\ box' = [m \in Boxes |-> [box[m] EXCEPT !.adv = Down(@), !.watch = Down(@), !.armed = Down(@)]]
      /\ \A m \in Boxes : ~ Due(box[m])
      /\ wire' = wire /\ joined' = joined /\ at' = at /\ edits' = edits /\ losses' = losses
  BY DEF Tick
<1>2. Typed /\ \A m \in Boxes : Fit(box[m])
  BY DEF MInv
<1>3. \A top \in Nat : \A t \in Timer(top) : t # 0 => Down(t) \in Timer(top)
  <2>1. ASSUME NEW top \in Nat, NEW t \in Timer(top), t # 0 PROVE Down(t) \in Timer(top)
    <3>1. CASE t = None
      BY <3>1 DEF Down, Timer
    <3>2. CASE t # None
      <4>1. t \in 1 .. top
        BY <2>1, <3>2 DEF Timer
      <4>2. QED BY <3>2, <4>1 DEF Down, Timer
    <3>3. QED BY <3>1, <3>2
  <2>2. QED BY <2>1
<1>4. Top \in Nat /\ AdvertInterval \in Nat
  BY HaAssumption DEF Top, AdvertInterval, MasterDown, Skew
<1>5. ASSUME NEW m \in Boxes
      PROVE  box'[m] \in BoxT /\ Fit(box'[m]) /\ box'[m].state = box[m].state
  <2> DEFINE x == box[m]
             y == [x EXCEPT !.adv = Down(@), !.watch = Down(@), !.armed = Down(@)]
  <2>1. x \in BoxT /\ Fit(x) /\ x.adv # 0 /\ x.watch # 0 /\ x.armed # 0
    BY <1>1, <1>2 DEF Due, Fit
  <2>2. box'[m] = y
    BY <1>1
  <2> HIDE DEF x
  <2>3. Down(x.adv) \in Timer(AdvertInterval) /\ Down(x.watch) \in Timer(Top) /\ Down(x.armed) \in Timer(Top)
    BY <1>3, <1>4, <2>1 DEF BoxT
  <2>4. y \in BoxT /\ y.on = x.on /\ y.up = x.up /\ y.prio = x.prio /\ y.state = x.state
    BY <2>1, <2>3 DEF BoxT
  <2> HIDE DEF y
  <2>5. QED BY <2>1, <2>2, <2>4, FitKept DEF x
<1>6. Typed'
  BY <1>1, <1>2, <1>5 DEF Typed
<1>7. \A m \in Boxes : IsMaster(box'[m]) <=> IsMaster(box[m])
  BY <1>5 DEF IsMaster
<1>8. \A m \in Boxes : Fit(box[m])' /\ OwnEdge(box, at, m)'
  BY <1>1, <1>5, <1>7 DEF MInv, OwnEdge
<1>9. losses' = 0 => \A m \in Boxes : \A d \in Boxes \ {m} :
        Told(box, wire, at, m, d)' /\ Settling(box, wire, m, d)'
  BY <1>1, <1>7 DEF MInv, Told, Settling
<1>10. QED BY <1>6, <1>8, <1>9 DEF MInv

\* To begin with nobody is master.
LEMMA InitMInv == Init => MInv
<1> SUFFICES ASSUME Init PROVE MInv
  OBVIOUS
<1>1. PICK prio \in [Boxes -> Prios], advert \in Adverts :
        LET r == [b \in Boxes |-> Start(Fresh(prio[b], advert, Ifaces), b)]
        IN /\ box = [b \in Boxes |-> r[b].box]
           /\ wire = [i \in Ifaces |-> [c \in Boxes |-> Arriving(r, joined, i, c)]]
  BY DEF Init
<1> DEFINE r == [b \in Boxes |-> Start(Fresh(prio[b], advert, Ifaces), b)]
<1>2. /\ box = [b \in Boxes |-> r[b].box]
      /\ wire = [i \in Ifaces |-> [c \in Boxes |-> Arriving(r, joined, i, c)]]
  BY <1>1
<1>3. \A b \in Boxes : Good(r[b], b) /\ ~ IsMaster(r[b].box)
  <2> SUFFICES ASSUME NEW b \in Boxes PROVE Good(r[b], b) /\ ~ IsMaster(r[b].box)
    OBVIOUS
  <2> DEFINE x == Fresh(prio[b], advert, Ifaces)
  <2>1. x \in BoxT /\ x.on
    BY TimersFit, HaAssumption DEF Fresh, BoxT
  <2> HIDE DEF x
  <2>2. r[b] = Start(x, b)
    BY DEF x
  <2>3. QED BY <2>1, <2>2, StartGood
<1> HIDE DEF r
<1>4. box \in [Boxes -> BoxT] /\ \A b \in Boxes : Fit(box[b]) /\ ~ IsMaster(box[b])
  BY <1>2, <1>3 DEF Good, Fit
<1>5. ASSUME NEW i \in Ifaces, NEW c \in Boxes
      PROVE  wire[i][c] \in Seq(Advertisement) /\ ~ From(wire, i, c, c)
  <2>1. wire[i][c] = Arriving(r, joined, i, c)
    BY <1>2
  <2>2. /\ Arriving(r, joined, i, c) \in Seq(Advertisement)
        /\ \A k \in DOMAIN Arriving(r, joined, i, c) : Arriving(r, joined, i, c)[k].from # c
    BY <1>3, ArrivingHas
  <2>3. QED BY <2>1, <2>2 DEF From
<1>6. wire \in Wires
  <2>1. \A i \in Ifaces : wire[i] \in [Boxes -> Seq(Advertisement)]
    <3>1. \A i \in Ifaces : wire[i] = [c \in Boxes |-> wire[i][c]]
      BY <1>2
    <3>2. QED BY <1>5, <3>1
  <2>2. wire \in [Ifaces -> [Boxes -> Seq(Advertisement)]]
    BY <1>2, <2>1
  <2>3. QED BY <1>5, <2>2 DEF Wires
<1>7. at \in Edges /\ joined \subseteq Ifaces /\ edits \in 0 .. MaxEdits /\ losses \in 0 .. MaxLosses
  BY HaAssumption DEF Init, Edges
<1>8. QED BY <1>4, <1>6, <1>7 DEF MInv, Typed, OwnEdge, Told, Settling

LEMMA StepMInv == MInv /\ [Next]_vars => MInv'
<1> SUFFICES ASSUME MInv, [Next]_vars PROVE MInv'
  OBVIOUS
<1>1. ASSUME NEW i \in Ifaces, NEW b \in Boxes, Deliver(i, b) PROVE MInv'
  BY <1>1, DeliverKeepsMInv
<1>2. ASSUME NEW b \in Boxes, ExpireAdvert(b) \/ ExpireWatch(b) \/ ExpireArmed(b) PROVE MInv'
  BY <1>2, ExpireKeepsMInv
<1>3. CASE Tick
  BY <1>3, TickKeepsMInv
<1>4. ASSUME NEW b \in Boxes, NEW i \in Ifaces, CableOut(b, i) PROVE MInv'
  BY <1>4, UnplugKeepsMInv
<1>5. ASSUME NEW b \in Boxes, NEW i \in Ifaces, CableIn(b, i) PROVE MInv'
  BY <1>5, PlugKeepsMInv
<1>6. ASSUME NEW i \in Ifaces, Split(i) PROVE MInv'
  BY <1>6, SplitKeepsMInv
<1>7. ASSUME NEW i \in Ifaces, Join(i) PROVE MInv'
  BY <1>7, JoinKeepsMInv
<1>8. ASSUME NEW b \in Boxes, SwitchAdvert(b) \/ Reconfigure(b) PROVE MInv'
  BY <1>8, ConfigKeepsMInv
<1>9. ASSUME NEW i \in Ifaces, NEW b \in Boxes, Lose(i, b) PROVE MInv'
  BY <1>9, LoseKeepsMInv
<1>10. CASE UNCHANGED vars
  <2>1. box' = box /\ wire' = wire /\ joined' = joined /\ at' = at /\ edits' = edits /\ losses' = losses
    BY <1>10 DEF vars
  <2>2. QED BY <2>1 DEF MInv, Typed, OwnEdge, Told, Settling
<1>11. QED
  BY <1>1, <1>2, <1>3, <1>4, <1>5, <1>6, <1>7, <1>8, <1>9, <1>10 DEF Next, Work, Change

\* Nothing on the wire: an edge that points to its own box, or to nobody, is right
\* if that box is the master, and none of two boxes points past the other.
LEMMA MInvWayToMaster == MInv /\ Cardinality(Boxes) <= 2 => WayToMaster
<1> SUFFICES ASSUME MInv, Cardinality(Boxes) <= 2, ~ InFlight, losses = 0,
                    NEW b \in Boxes, Master(b), NEW i \in Ifaces, NEW c \in Boxes, c = b \/ i \in joined
             PROVE  at[i][c] \in {b, None}
  BY DEF WayToMaster
<1>1. at[i][c] \in Boxes \cup {None}
  BY DEF MInv, Typed, Edges
<1>2. CASE c = b
  BY <1>2 DEF MInv, OwnEdge, Master, IsMaster
<1>3. CASE c # b /\ i \in joined
  <2>1. Told(box, wire, at, b, c)
    BY <1>3 DEF MInv
  <2>2. wire[i][b] = <<>> /\ wire[i][c] = <<>>
    BY DEF InFlight
  <2>3. at[i][c] # c
    BY <1>3, <2>1, <2>2 DEF Told, From, Virtual, Master, IsMaster
  <2>4. Boxes = {b, c}
    <3>1. {b, c} \in SUBSET Boxes /\ IsFiniteSet(Boxes) /\ Cardinality(Boxes) \in Nat
      BY HaAssumption, FS_CardinalityType
    <3>2. Cardinality({c}) = 1 /\ IsFiniteSet({c})
      BY FS_Singleton
    <3>3. Cardinality({c} \cup {b}) = Cardinality({c}) + 1
      BY <1>3, <3>2, FS_AddElement, b \notin {c}
    <3>4. Cardinality({b, c}) = 2 /\ Cardinality({b, c}) <= Cardinality(Boxes)
      BY <3>1, <3>2, <3>3, FS_Subset, {c} \cup {b} = {b, c}
    <3>5. Cardinality(Boxes) = Cardinality({b, c})
      BY <3>1, <3>4
    <3>6. QED BY <3>1, <3>5, FS_Subset
  <2>5. QED BY <1>1, <2>3, <2>4
<1>4. QED BY <1>2, <1>3

\* The state has its type, for any number of gateways and interfaces; what is on
\* the wires too.
THEOREM TypeCorrect == Spec => []TypeOK
<1>1. QED BY InitMInv, StepMInv, MInvType, PTL DEF Spec

\* However the network was cut and joined and whoever was set up anew: once it
\* rests, and no advert was lost, no two gateways that hear each other are both
\* master, for any number of gateways (ha.ts: handle, poke; netSync.ts:184).
THEOREM OneMasterHolds == Spec => []OneMaster
<1>1. QED BY InitMInv, StepMInv, MInvOneMaster, PTL DEF Spec

\* Of a pair, which is what the code's HA is for, no edge switch is left pointing
\* at the box that was master before (ha.ts:268, switch.ts: learning).
THEOREM PairFindsItsMaster == Cardinality(Boxes) <= 2 /\ Spec => []WayToMaster
<1>1. ASSUME Cardinality(Boxes) <= 2 PROVE MInv => WayToMaster
  BY <1>1, MInvWayToMaster
<1>2. Cardinality(Boxes) <= 2 => (Spec => []WayToMaster)
  <2> SUFFICES ASSUME Cardinality(Boxes) <= 2 PROVE Spec => []WayToMaster
    OBVIOUS
  <2>1. MInv => WayToMaster
    BY <1>1
  <2>2. QED BY InitMInv, StepMInv, <2>1, PTL DEF Spec
<1>3. QED BY <1>2, PTL
=============================================================================
