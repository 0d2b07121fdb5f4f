------------------------------- MODULE Editor -------------------------------
(***************************************************************************)
(* The editor and the simulation it keeps in step: the drawing with its    *)
(* undo history, selection and clipboard (model/store.ts), the links that  *)
(* follow from where wireless stations stand (topo/wireless.ts), and the   *)
(* difference each change makes to the running network (model/netSync.ts,  *)
(* model/sim.ts).  An edit runs its synchronisation before anything else   *)
(* happens; what the devices then say to each other is in other modules.   *)
(*                                                                         *)
(* A device carries one setting, the text in its field; "half" is an       *)
(* address the user has not finished typing, "default" the one a router    *)
(* has from the factory.                                                   *)
(***************************************************************************)
EXTENDS Naturals, Sequences, FiniteSets, SequencesExt, TLC

CONSTANTS
  Drawings,       \* what the page may hold at first, and which operations are looked at
  Wired, Radio,   \* ports of each kind of device
  WifiRange,      \* how far a base reaches
  HistoryCap,     \* steps that can be undone (100 in the code)
  None,
  MaxFaults       \* bound: synchronisations that throw

VARIABLES
  page,      \* where the drawing began, what is done to it, how often (a bound)
  topology,  \* the drawing: devices in order, cables in order
  history,   \* past, future, and whether a drag or a text field is open
  selection, \* what is selected, what the clipboard holds
  net,       \* the network: nodes with their setting, links with their ports
  synced,    \* what NetworkSync believes it has applied: settings and cables
  slotTable, \* the slot each station last had at a base
  file,      \* a drawing downloaded earlier
  count,     \* ids given, edits made, synchronisations that threw
  saga       \* history variables: the steps of the user's story, what was done by hand

vars == <<page, topology, history, selection, net, synced, slotTable, file, count, saga>>

-----------------------------------------------------------------------------
(* The drawing.                                                            *)

Items(s) == {s[i] : i \in DOMAIN s}
Ids(s) == {x.id : x \in Items(s)}
Item(s, id) == CHOOSE x \in Items(s) : x.id = id
Without(s, ids) == SelectSeq(s, LAMBDA x : x.id \notin ids)
Changed(s, id, y) == [i \in DOMAIN s |-> IF s[i].id = id THEN y ELSE s[i]]
PortsOf(kind) == Wired[kind] \cup Radio[kind]

PortFree(t, end, except) ==
  \A c \in Items(t.cables) : c.id # except => end \notin c.ends

\* Two devices are joined by one cable at most, between free ports that are no radios
Joinable(t, a, b) ==
  /\ a[1] # b[1]
  /\ a[2] \in Wired[Item(t.devices, a[1]).kind] /\ b[2] \in Wired[Item(t.devices, b[1]).kind]
  /\ \A c \in Items(t.cables) : {e[1] : e \in c.ends} # {a[1], b[1]}
  /\ PortFree(t, a, None) /\ PortFree(t, b, None)

NextMac(devices) == 1 + CHOOSE m \in {0} \cup {d.mac : d \in Items(devices)} :
                          \A d \in Items(devices) : d.mac <= m

-----------------------------------------------------------------------------
(* Wireless links.                                                         *)

Apart(p, q) == IF p > q THEN p - q ELSE q - p
IsBase(d) == Radio[d.kind] # {} /\ d.kind \in {"ap", "router"} /\ d.text # "off"
RadioOf(kind) == CHOOSE p \in Radio[kind] : TRUE
OnCable(t, d) == d.kind = "laptop" /\ \E c \in Items(t.cables) : <<d.id, 0>> \in c.ends

\* the nearest base within range; of two as near, the one drawn first
BaseOf(t, c) ==
  LET near == {i \in DOMAIN t.devices :
                 IsBase(t.devices[i]) /\ Apart(t.devices[i].place, c.place) <= WifiRange}
      best == {i \in near : \A j \in near :
                 LET di == Apart(t.devices[i].place, c.place)
                     dj == Apart(t.devices[j].place, c.place)
                 IN di < dj \/ (di = dj /\ i <= j)}
  IN IF near = {} THEN None ELSE t.devices[CHOOSE i \in best : TRUE]

\* The stations in reach of a base, in the order they were drawn
Reached(t) ==
  SelectSeq([i \in DOMAIN t.devices |->
               [device |-> t.devices[i], cabled |-> OnCable(t, t.devices[i]),
                base |-> IF t.devices[i].kind \in {"phone", "laptop"} THEN BaseOf(t, t.devices[i]) ELSE None]],
            LAMBDA w : w.base # None)

At(w) == <<w.base.id, w.device.id>>
HeldAt(slots, base) == {slots[x] : x \in {y \in DOMAIN slots : y[1] = base}}
Over(slots, table) == [x \in DOMAIN table \cup DOMAIN slots |-> IF x \in DOMAIN slots THEN slots[x] ELSE table[x]]

\* A station keeps the slot it had; one that has none takes a free one, those in use before
\* those that stand by for a cable
Allotted(stations, table) ==
  LET keep(slots, w) ==
        IF /\ At(w) \in DOMAIN table
           /\ table[At(w)] \in Radio[w.base.kind] \ HeldAt(slots, w.base.id)
        THEN Over(At(w) :> table[At(w)], slots) ELSE slots
      take(slots, w) ==
        IF At(w) \in DOMAIN slots \/ Radio[w.base.kind] \subseteq HeldAt(slots, w.base.id) THEN slots
        ELSE Over(At(w) :> Min(Radio[w.base.kind] \ HeldAt(slots, w.base.id)), slots)
  IN FoldLeft(take, FoldLeft(keep, <<>>, stations),
              SelectSeq(stations, LAMBDA w : ~w.cabled) \o SelectSeq(stations, LAMBDA w : w.cabled))

Slots(t, table) == Allotted(Reached(t), table)

\* A wireless link is a cable whose id names the station, the base and the slot
AirLink(kind, x, slot) ==
  [id |-> <<x[2], x[1], slot>>, ends |-> {<<x[2], RadioOf(kind)>>, <<x[1], slot>>}, loss |-> FALSE]

Air(t, slots) ==
  LET linked == SelectSeq(t.devices, LAMBDA d : \E x \in DOMAIN slots : x[2] = d.id)
  IN [i \in DOMAIN linked |->
        LET x == CHOOSE y \in DOMAIN slots : y[2] = linked[i].id IN AirLink(linked[i].kind, x, slots[x])]

-----------------------------------------------------------------------------
(* The difference a drawing makes to the network.                          *)

\* What a text means to the simulation: an unfinished address is none at all, but a router
\* and a DHCP server go on with the one they have.  The key that tells a change knows
\* nothing of the node
HostText(text) == IF text = "half" THEN None ELSE text
PoolText(text, current) == IF text = "half" THEN current ELSE text
RouterText(text, current) ==
  IF text # "half" THEN text ELSE IF current = None THEN "default" ELSE current
Effective(d, current) ==
  CASE d.kind = "router" -> RouterText(d.text, current)
    [] d.kind = "server" -> PoolText(d.text, current)
    [] OTHER -> HostText(d.text)
Key(d) == Effective(d, None)

OverAir(l) == Len(l.id) = 3
EmptyNet == [nodes |-> <<>>, links |-> {}]
EmptySync == [config |-> <<>>, cables |-> <<>>]

HeldIn(n) == UNION {l.ends : l \in n.links}

\* Network.connect refuses a port that is held; a cable that failed is recorded all the
\* same, not to be tried again on every change, a wireless link is not
Plug(s, l) ==
  LET known == l.id \in DOMAIN s.sync.cables
      fits == \A e \in l.ends : e[1] \in DOMAIN s.net.nodes /\ e \notin HeldIn(s.net)
      links == IF known THEN {IF x.id = l.id THEN [x EXCEPT !.loss = l.loss] ELSE x : x \in s.net.links}
               ELSE s.net.links \cup (IF fits THEN {l} ELSE {})
  IN IF ~known /\ ~fits /\ OverAir(l) THEN s ELSE
     [net |-> [s.net EXCEPT !.links = links],
      sync |-> [s.sync EXCEPT !.cables = [c \in DOMAIN @ \cup {l.id} |-> IF c = l.id THEN l.loss ELSE @[c]]]]

\* Devices go before their cables do, then cables, then settings, then new cables
AppliedTo(n, s, t, wanted) ==
  LET stay == DOMAIN s.config \cap Ids(t.devices)
      setting(d) == IF d.id \notin stay THEN Effective(d, None)
                    ELSE IF s.config[d.id] = Key(d) THEN n.nodes[d.id].text
                    ELSE Effective(d, n.nodes[d.id].text)
      ready == [net |-> [nodes |-> [id \in Ids(t.devices) |->
                           [text |-> setting(Item(t.devices, id)),
                            mac |-> IF id \in stay THEN n.nodes[id].mac ELSE Item(t.devices, id).mac]],
                         links |-> {l \in n.links : l.id \in Ids(wanted) /\ \A e \in l.ends : e[1] \in stay}],
                sync |-> [config |-> [id \in Ids(t.devices) |-> Key(Item(t.devices, id))],
                          cables |-> [c \in DOMAIN s.cables \cap Ids(wanted) |-> s.cables[c]]]]
  IN FoldLeft(Plug, ready, wanted)
Applied(n, s, t, slots) == AppliedTo(n, s, t, t.cables \o Air(t, slots))

\* A network made from nothing; what it believes
Fresh(t, slots) == Applied(EmptyNet, EmptySync, t, slots)

\* The page follows a drawing.  If applying throws, the simulator starts again from nothing,
\* and shows an empty network if that throws too
Outcome(t, thrown, slots) ==
  CASE thrown = 0 -> Applied(net, synced, t, slots)
    [] thrown = 1 -> Fresh(t, slots)
    [] OTHER -> [net |-> EmptyNet, sync |-> EmptySync]
Follow(t, thrown) ==
  \E slots \in {Slots(t, slotTable)} :
    /\ slotTable' = Over(slots, slotTable)
    /\ \E made \in {Outcome(t, thrown, slots)} : net' = made.net /\ synced' = made.sync

\* sim.reset, and the page opened again: a network made from nothing
Restart(t, table) ==
  \E slots \in {Slots(t, table)} :
    /\ slotTable' = Over(slots, table)
    /\ \E made \in {Fresh(t, slots)} : net' = made.net /\ synced' = made.sync

-----------------------------------------------------------------------------
(* The story of the edits.                                                 *)

Doing(op) == op \in page.ops /\ count.ops < page.edits
Capped(s) == IF Len(s) > HistoryCap THEN Tail(s) ELSE s

\* history variable: the drawings the user saw, one for each step, which one this is, and
\* how many of the oldest no longer fit
Forgotten == IF Len(history.past) >= HistoryCap THEN 1 ELSE 0
Told(t) == [saga EXCEPT !.steps = Append(SubSeq(@, 1, saga.at), t), !.at = @ + 1]
Noted(t) == IF history.open THEN saga ELSE [Told(t) EXCEPT !.lost = @ + Forgotten]

\* Every edit goes through here
Record(t) ==
  /\ topology' = t
  /\ history' = IF history.open THEN [history EXCEPT !.touched = TRUE]
                ELSE [history EXCEPT !.past = Capped(Append(@, topology)), !.future = <<>>]

\* ids: how many are given out; byHand: what the user did that the simulation does not follow
SetTopology(t, ids, byHand) ==
  /\ Record(t)
  /\ saga' = [Noted(t) EXCEPT !.byHand = @ \cup byHand]
  /\ \E thrown \in 0 .. 2 :
       /\ thrown > 0 => "throw" \in page.ops /\ count.faults < MaxFaults
       /\ Follow(t, thrown)
       /\ count' = [count EXCEPT !.ops = @ + 1, !.id = @ + ids, !.faults = IF thrown > 0 THEN @ + 1 ELSE @]

Chosen(of, ids) == [selection EXCEPT !.of = of, !.ids = ids]

AddDevice(kind, place) ==
  /\ Doing("add")
  /\ SetTopology([topology EXCEPT !.devices = Append(@, [id |-> count.id, kind |-> kind, text |-> "default",
                                                         place |-> place, mac |-> NextMac(@)])], 1, {})
  /\ selection' = Chosen("device", {count.id})
  /\ UNCHANGED <<page, file>>

\* connectDevices: the ports dropped on, or any free ones
Connect(a, b) ==
  /\ Doing("connect") /\ Joinable(topology, a, b)
  /\ SetTopology([topology EXCEPT !.cables = Append(@, [id |-> <<count.id>>, ends |-> {a, b}, loss |-> FALSE])], 1, {})
  /\ selection' = Chosen("cable", {<<count.id>>})
  /\ UNCHANGED <<page, file>>

\* moveCableEnd: a cable keeps its id when one of its ends goes to another port
MoveCableEnd(c, from, port) ==
  /\ Doing("moveEnd")
  /\ from[2] # port /\ port \in Wired[Item(topology.devices, from[1]).kind]
  /\ PortFree(topology, <<from[1], port>>, c.id)
  /\ SetTopology([topology EXCEPT !.cables = Changed(@, c.id, [c EXCEPT !.ends = (@ \ {from}) \cup {<<from[1], port>>}])],
                 0, {"cable"})
  /\ UNCHANGED <<page, selection, file>>

Type(d, text) ==
  /\ Doing("type") /\ d.text # text
  /\ SetTopology([topology EXCEPT !.devices = Changed(@, d.id, [d EXCEPT !.text = text])], 0,
                 IF text = "half" THEN {"text"} ELSE {})
  /\ UNCHANGED <<page, selection, file>>

SetLoss(c) ==
  /\ Doing("loss")
  /\ SetTopology([topology EXCEPT !.cables = Changed(@, c.id, [c EXCEPT !.loss = ~@])], 0, {})
  /\ UNCHANGED <<page, selection, file>>

\* a drag moves what is selected, aligning it does too
MoveDevices(place) ==
  /\ Doing("move") /\ selection.of = "device" /\ selection.ids # {}
  /\ SetTopology([topology EXCEPT !.devices =
       [i \in DOMAIN @ |-> IF @[i].id \in selection.ids THEN [@[i] EXCEPT !.place = place] ELSE @[i]]], 0, {})
  /\ UNCHANGED <<page, selection, file>>

RemoveSelected ==
  /\ Doing("remove") /\ selection.ids # {}
  /\ SetTopology(IF selection.of = "cable"
                 THEN [topology EXCEPT !.cables = Without(@, selection.ids)]
                 ELSE [devices |-> Without(topology.devices, selection.ids),
                       cables |-> SelectSeq(topology.cables, LAMBDA c : \A e \in c.ends : e[1] \notin selection.ids)],
                 0, {})
  /\ selection' = Chosen("device", {})
  /\ UNCHANGED <<page, file>>

Select(of, ids) ==
  /\ "select" \in page.ops
  /\ of = selection.of => ids # selection.ids
  /\ selection' = Chosen(of, ids)
  /\ UNCHANGED <<page, topology, history, net, synced, slotTable, file, count, saga>>

Copy ==
  /\ "paste" \in page.ops /\ selection.of = "device" /\ selection.ids # {}
  /\ selection' = [selection EXCEPT !.clipboard = <<topology, selection.ids>>]
  /\ UNCHANGED <<page, topology, history, net, synced, slotTable, file, count, saga>>

\* cloneDevices: the copies get new ids and MACs, the cables among them come along
Cloned(from, chosen) ==
  LET picked == SelectSeq(from.devices, LAMBDA d : d.id \in chosen)
      inner == SelectSeq(from.cables, LAMBDA c : \A e \in c.ends : e[1] \in chosen)
      new(id) == count.id - 1 + CHOOSE i \in DOMAIN picked : picked[i].id = id
  IN [devices |-> [i \in DOMAIN picked |->
        [picked[i] EXCEPT !.id = new(@), !.mac = NextMac(topology.devices) + i - 1]],
      cables |-> [i \in DOMAIN inner |->
        [inner[i] EXCEPT !.id = <<count.id + Len(picked) + i - 1>>, !.ends = {<<new(e[1]), e[2]>> : e \in @}]]]

Paste ==
  /\ Doing("paste") /\ selection.clipboard # None
  /\ \E copies \in {Cloned(selection.clipboard[1], selection.clipboard[2])} :
       /\ SetTopology([devices |-> topology.devices \o copies.devices, cables |-> topology.cables \o copies.cables],
                      Len(copies.devices) + Len(copies.cables), {})
       /\ selection' = Chosen("device", Ids(copies.devices))
  /\ UNCHANGED <<page, file>>

\* beginCoalesce, endCoalesce: a drag, or a text field that has the focus, is one step
Begin ==
  /\ "gesture" \in page.ops /\ ~history.open /\ count.ops < page.edits
  /\ history' = [past |-> Capped(Append(history.past, topology)), future |-> <<>>, open |-> TRUE, touched |-> FALSE]
  /\ saga' = [saga EXCEPT !.steps = SubSeq(@, 1, saga.at), !.lost = @ + Forgotten]
  /\ UNCHANGED <<page, topology, selection, net, synced, slotTable, file, count>>

\* one that changed nothing leaves no step
End ==
  /\ history.open
  /\ history' = [history EXCEPT !.open = FALSE, !.touched = FALSE,
                                !.past = IF history.touched THEN @ ELSE Front(@)]
  /\ saga' = IF history.touched THEN Told(topology) ELSE saga
  /\ UNCHANGED <<page, topology, selection, net, synced, slotTable, file, count>>

\* pruneSelection: nothing stays selected that is no longer drawn
Pruned(t) ==
  [selection EXCEPT !.ids = @ \cap (IF selection.of = "cable" THEN Ids(t.cables) ELSE Ids(t.devices))]

Goes(t, past, future, step) ==
  /\ topology' = t
  /\ history' = [history EXCEPT !.past = past, !.future = future]
  /\ selection' = Pruned(t)
  /\ saga' = [saga EXCEPT !.at = step]
  /\ Follow(t, 0)
  /\ count' = [count EXCEPT !.ops = @ + 1]
  /\ UNCHANGED <<page, file>>

Undo ==
  /\ Doing("undo") /\ ~history.open /\ history.past # <<>>
  /\ Goes(Last(history.past), Front(history.past), Append(history.future, topology), saga.at - 1)

Redo ==
  /\ Doing("undo") /\ ~history.open /\ history.future # <<>>
  /\ Goes(Last(history.future), Append(history.past, topology), Front(history.future), saga.at + 1)

-----------------------------------------------------------------------------
(* Beginning again.                                                        *)

Download ==
  /\ "file" \in page.ops /\ file # topology /\ file' = topology
  /\ UNCHANGED <<page, topology, history, selection, net, synced, slotTable, count, saga>>

\* a file, an example or an empty drawing takes the place of this one: a step like any
\* other, after which the simulation is started again
Replace(t) ==
  /\ Doing("file") /\ t # None
  /\ Record(t) /\ Restart(t, slotTable)
  /\ saga' = [Noted(t) EXCEPT !.byHand = {}]
  /\ selection' = Chosen("device", {})
  /\ count' = [count EXCEPT !.ops = @ + 1]
  /\ UNCHANGED <<page, file>>

\* the page is closed and opened again: the drawing was stored with every change, the rest is gone
Reload ==
  /\ Doing("reload") /\ Restart(topology, <<>>)
  /\ history' = [past |-> <<>>, future |-> <<>>, open |-> FALSE, touched |-> FALSE]
  /\ selection' = [of |-> "device", ids |-> {}, clipboard |-> None]
  /\ saga' = [steps |-> <<topology>>, at |-> 1, lost |-> 0, byHand |-> {}]
  /\ count' = [count EXCEPT !.ops = @ + 1]
  /\ UNCHANGED <<page, topology, file>>

Init ==
  /\ page \in Drawings
  /\ topology = page.drawn
  /\ history = [past |-> <<>>, future |-> <<>>, open |-> FALSE, touched |-> FALSE]
  /\ selection = [of |-> "device", ids |-> {}, clipboard |-> None]
  /\ slotTable = Slots(topology, <<>>)
  /\ \E made \in {Fresh(topology, slotTable)} : net = made.net /\ synced = made.sync
  /\ file = None
  /\ count = [id |-> 10, ops |-> 0, faults |-> 0]
  /\ saga = [steps |-> <<topology>>, at |-> 1, lost |-> 0, byHand |-> {}]

FreeEnds == UNION {{<<d.id, p>> : p \in Wired[d.kind]} : d \in Items(topology.devices)}

\* clicks select one thing or all of them (bound: any subset in the code)
Picks(ids) == ({ids} \cup {{x} : x \in ids}) \ {{}}

Next ==
  \/ \E kind \in page.kinds, place \in page.places : AddDevice(kind, place)
  \/ \E a, b \in FreeEnds : Connect(a, b)
  \/ \E c \in Items(topology.cables) : \E from \in c.ends, p \in 0 .. 3 : MoveCableEnd(c, from, p)
  \/ \E d \in Items(topology.devices), text \in page.texts : Type(d, text)
  \/ \E c \in Items(topology.cables) : SetLoss(c)
  \/ \E place \in page.places : MoveDevices(place)
  \/ RemoveSelected \/ Copy \/ Paste
  \/ \E ids \in Picks(Ids(topology.devices)) : Select("device", ids)
  \/ \E ids \in Picks(Ids(topology.cables)) : Select("cable", ids)
  \/ Begin \/ End \/ Undo \/ Redo \/ Download \/ Reload
  \/ Replace(file)
  \/ Replace([devices |-> <<>>, cables |-> <<>>])

Spec == Init /\ [][Next]_vars

-----------------------------------------------------------------------------
(* Properties.                                                             *)

\* The state has the shape the code relies on
TypeOK ==
  /\ history.open \in BOOLEAN /\ history.touched \in BOOLEAN
  /\ Len(history.past) <= HistoryCap /\ Len(history.future) <= page.edits
  /\ selection.of \in {"device", "cable"}
  /\ saga.at \in DOMAIN saga.steps /\ saga.byHand \subseteq {"cable", "text"}
  /\ \A d \in Items(topology.devices) : d.kind \in DOMAIN Wired /\ d.mac \in Nat
  /\ \A l \in net.links : Cardinality(l.ends) = 2 /\ l.loss \in BOOLEAN
  /\ DOMAIN synced.config = DOMAIN net.nodes

Started == DOMAIN net.nodes # {} \/ topology.devices = <<>>

\* netSync.ts: the simulation that runs is the one drawn.  Every device is there with the
\* setting its field spells out, every cable and every wireless link with its ports and its
\* loss, and nothing else, however edits, undo, redo, failures and restarts follow each other:
\* as long as no cable end was moved by hand, and but for a router whose factory address was
\* typed in after its field was left unfinished
InStep ==
  Started =>
    /\ DOMAIN net.nodes = Ids(topology.devices)
    /\ \A d \in Items(topology.devices) :
         /\ net.nodes[d.id].mac = d.mac
         /\ d.text # "half" => \/ net.nodes[d.id].text = d.text
                               \/ d.kind = "router" /\ d.text = "default" /\ "text" \in saga.byHand
    /\ "cable" \notin saga.byHand => net.links = Items(topology.cables \o Air(topology, Slots(topology, slotTable)))

\* store.ts: the steps that can be undone and redone are the drawings the user went through,
\* in their order, a drag or a field being one of them
StoryKept ==
  LET steps == SubSeq(saga.steps, 1, IF history.open THEN saga.at ELSE saga.at - 1) IN
    /\ ~history.open => topology = saga.steps[saga.at]
    /\ history.past = SubSeq(steps, saga.lost + 1, Len(steps))
    /\ history.future = Reverse(SubSeq(saga.steps, saga.at + 1, Len(saga.steps)))

\* store.ts: whatever is selected is drawn, so a command never acts on what is gone
SelectionDrawn ==
  selection.ids \subseteq (IF selection.of = "cable" THEN Ids(topology.cables) ELSE Ids(topology.devices))

\* device.ts: no two devices of a drawing have one id or one MAC, no port two cables, whatever
\* was pasted, undone or read from a file
NoDoubles ==
  /\ \A i, j \in DOMAIN topology.devices :
       i # j => topology.devices[i].id # topology.devices[j].id /\ topology.devices[i].mac # topology.devices[j].mac
  /\ \A c, d \in Items(topology.cables) : c # d => c.id # d.id /\ c.ends \cap d.ends = {}

\* a cable joins in the network the ports it joins in the drawing
CablesFollow ==
  Started => \A c \in Items(topology.cables) : \E l \in net.links : l.id = c.id /\ l.ends = c.ends
=============================================================================
