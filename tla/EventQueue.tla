----------------------------- MODULE EventQueue -----------------------------
(***************************************************************************)
(* What the simulator's event queue promises (core/scheduler.ts, line 1):  *)
(* a deterministic queue that hands events back in the order of their      *)
(* time, then of their priority, then of the order they were pushed in.    *)
(* The queue is a set; the binary heap of Scheduler.tla implements it.     *)
(***************************************************************************)
EXTENDS Integers

CONSTANTS
    Times,          \* the instants (ms) events are pushed for
    Priorities,     \* 0: deliveries and timers, 1: the user's actions
    MaxSeq,         \* bound of the model: at most MaxSeq events are pushed
    NoItem          \* what pop and peek return on an empty queue

VARIABLES
    pending,        \* the events pushed and not popped
    seq,            \* the number of events pushed so far
    out             \* what the last pop returned

vars == <<pending, seq, out>>

Item == [time : Times, priority : Priorities, seq : 0 .. MaxSeq - 1]

\* The order of service: ties in time go to the smaller priority, ties in
\* both to the event pushed first.
Before(a, b) ==
    \/ a.time < b.time
    \/ a.time = b.time /\ a.priority < b.priority
    \/ a.time = b.time /\ a.priority = b.priority /\ a.seq < b.seq

Init == pending = {} /\ seq = 0 /\ out = NoItem

Push(t, p) ==
    /\ seq < MaxSeq
    /\ pending' = pending \cup {[time |-> t, priority |-> p, seq |-> seq]}
    /\ seq' = seq + 1
    /\ UNCHANGED out

Pop(m) ==
    /\ \A e \in pending \ {m} : Before(m, e)
    /\ pending' = pending \ {m}
    /\ out' = m
    /\ UNCHANGED seq

PopNothing == pending = {} /\ out' = NoItem /\ UNCHANGED <<pending, seq>>

Next ==
    \/ \E t \in Times, p \in Priorities : Push(t, p)
    \/ \E m \in pending : Pop(m)
    \/ PopNothing

Spec == Init /\ [][Next]_vars
=============================================================================
