----------------------------- MODULE Scheduler ------------------------------
(***************************************************************************)
(* core/scheduler.ts: the binary heap behind every event of the simulator. *)
(*                                                                         *)
(* heap[0 .. size-1] is the array of the code, child k hanging below       *)
(* (k - 1) \div 2.  push and pop run to completion in the program; here    *)
(* each iteration of siftUp and siftDown is a step of its own, so that the *)
(* loops are plain actions and the invariant says what holds between two   *)
(* iterations.                                                             *)
(***************************************************************************)
EXTENDS Integers

CONSTANTS Times, Priorities, MaxSeq, NoItem

ASSUME TimesAreInts == Times \subseteq Int /\ Priorities \subseteq Int
ASSUME MaxSeqIsNat == MaxSeq \in Nat

VARIABLES
    heap,   \* the array: a function on 0 .. size - 1
    size,
    seq,    \* the next sequence number
    out,    \* what the last pop returned
    pc,     \* "idle", or the loop that is running: "up", "down"
    i       \* the loop's cursor

vars == <<heap, size, seq, out, pc, i>>

Item == [time : Times, priority : Priorities, seq : 0 .. MaxSeq - 1]

\* Mutant: ties are not broken by the order of arrival.
LessUnstable(a, b) == a.time < b.time \/ (a.time = b.time /\ a.priority < b.priority)

Less(a, b) ==
    \/ a.time < b.time
    \/ a.time = b.time /\ a.priority < b.priority
    \/ a.time = b.time /\ a.priority = b.priority /\ a.seq < b.seq

Parent(k) == (k - 1) \div 2

Swapped(h, j, k) == [h EXCEPT ![j] = h[k], ![k] = h[j]]

Init ==
    /\ heap = [k \in {} |-> NoItem]
    /\ size = 0 /\ seq = 0 /\ out = NoItem
    /\ pc = "idle" /\ i = 0

-----------------------------------------------------------------------------
\* Mutant: the sequence number is not advanced.
PushUncounted(t, p) ==
    /\ pc = "idle" /\ seq < MaxSeq
    /\ heap' = [k \in 0 .. size |->
                  IF k = size THEN [time |-> t, priority |-> p, seq |-> seq] ELSE heap[k]]
    /\ size' = size + 1
    /\ pc' = "up" /\ i' = size
    /\ UNCHANGED <<seq, out>>

\* push appends the item and starts siftUp at the last place.
Push(t, p) ==
    /\ pc = "idle" /\ seq < MaxSeq
    /\ heap' = [k \in 0 .. size |->
                  IF k = size THEN [time |-> t, priority |-> p, seq |-> seq] ELSE heap[k]]
    /\ size' = size + 1
    /\ seq' = seq + 1
    /\ pc' = "up" /\ i' = size
    /\ UNCHANGED out

SiftUpSwap ==
    /\ pc = "up" /\ i > 0 /\ Less(heap[i], heap[Parent(i)])
    /\ heap' = Swapped(heap, i, Parent(i))
    /\ i' = Parent(i)
    /\ UNCHANGED <<size, seq, out, pc>>

SiftUpDone ==
    /\ pc = "up" /\ ~ (i > 0 /\ Less(heap[i], heap[Parent(i)]))
    /\ pc' = "idle"
    /\ UNCHANGED <<heap, size, seq, out, i>>

\* Mutant: siftDown runs on an empty heap.
PopAlwaysSifts ==
    /\ pc = "idle" /\ size > 0
    /\ out' = heap[0]
    /\ size' = size - 1
    /\ heap' = [k \in 0 .. size - 2 |-> IF k = 0 THEN heap[size - 1] ELSE heap[k]]
    /\ pc' = "down" /\ i' = 0
    /\ UNCHANGED seq

\* pop returns heap[0], moves the last item to the root and starts siftDown.
Pop ==
    /\ pc = "idle" /\ size > 0
    /\ out' = heap[0]
    /\ size' = size - 1
    /\ heap' = [k \in 0 .. size - 2 |-> IF k = 0 THEN heap[size - 1] ELSE heap[k]]
    /\ pc' = IF size > 1 THEN "down" ELSE "idle"
    /\ i' = 0
    /\ UNCHANGED seq

PopEmpty ==
    /\ pc = "idle" /\ size = 0
    /\ out' = NoItem
    /\ UNCHANGED <<heap, size, seq, pc, i>>

\* Mutant: the right child is compared with the place, not with the left one.
SmallestOfWrong(k) ==
    LET l == 2 * k + 1
        r == l + 1
    IN  IF r < size /\ Less(heap[r], heap[k]) THEN r
        ELSE IF l < size /\ Less(heap[l], heap[k]) THEN l ELSE k

\* The smallest of a place and its two children (left first, as the code).
SmallestOf(k) ==
    LET l == 2 * k + 1
        r == l + 1
        m == IF l < size /\ Less(heap[l], heap[k]) THEN l ELSE k
    IN  IF r < size /\ Less(heap[r], heap[m]) THEN r ELSE m

SiftDownSwap ==
    /\ pc = "down" /\ SmallestOf(i) # i
    /\ heap' = Swapped(heap, i, SmallestOf(i))
    /\ i' = SmallestOf(i)
    /\ UNCHANGED <<size, seq, out, pc>>

SiftDownDone ==
    /\ pc = "down" /\ SmallestOf(i) = i
    /\ pc' = "idle"
    /\ UNCHANGED <<heap, size, seq, out, i>>

Next ==
    \/ \E t \in Times, p \in Priorities : Push(t, p)
    \/ SiftUpSwap \/ SiftUpDone
    \/ Pop \/ PopEmpty
    \/ SiftDownSwap \/ SiftDownDone

Spec == Init /\ [][Next]_vars

-----------------------------------------------------------------------------
Places == 0 .. size - 1

\* TypeOK: the array is full up to its size, and a running loop's cursor
\* is one of its places.
TypeOK ==
    /\ size \in Nat /\ seq \in 0 .. MaxSeq
    /\ heap \in [Places -> Item]
    /\ out \in Item \cup {NoItem}
    /\ pc \in {"idle", "up", "down"}
    /\ i \in Nat /\ (pc # "idle" => i \in Places)

\* Sequence numbers are never reused: no two places hold the same item, and
\* none holds a number that has not been given out (this.seq++, line 26).
SeqUnique ==
    /\ \A k \in Places : heap[k].seq < seq
    /\ \A j, k \in Places : heap[j].seq = heap[k].seq => j = k

\* Between two operations no item comes before its parent.  While siftUp
\* runs only the cursor may, while siftDown runs only the cursor's children
\* may, and either way the cursor's children do not come before its parent.
HeapOrder ==
    /\ \A k \in Places \ {0} :
          \/ pc = "up" /\ k = i
          \/ pc = "down" /\ Parent(k) = i
          \/ ~ Less(heap[k], heap[Parent(k)])
    /\ pc # "idle" /\ i > 0 =>
          \A k \in Places \ {0} :
             Parent(k) = i => ~ Less(heap[k], heap[Parent(i)])

\* The heap is the queue of EventQueue: whatever the order of pushes and
\* pops, a pop returns the one pending event that comes before all others.
Queue == INSTANCE EventQueue WITH pending <- {heap[k] : k \in Places}

QueueSpec == Queue!Spec
=============================================================================
