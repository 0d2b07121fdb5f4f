--------------------------- MODULE SchedulerProofs --------------------------
(***************************************************************************)
(* Proofs about the binary heap of core/scheduler.ts: it is always well    *)
(* formed, and it implements the ordered queue of EventQueue.              *)
(***************************************************************************)
EXTENDS Scheduler, WellFoundedInduction, TLAPS

-----------------------------------------------------------------------------
(* Facts about numbers and about the order of items.                       *)

NatOrder == {ss \in Nat \X Nat : ss[1] < ss[2]}

\* A non-empty set of naturals has a smallest element.
LEMMA SmallestElement ==
  ASSUME NEW T \in SUBSET Nat, T # {}
  PROVE  \E m \in T : \A k \in T : m <= k
<1>1. IsWellFoundedOn(NatOrder, Nat)
  BY NatLessThanWellFounded DEF NatOrder, OpToRel
<1>2. PICK m \in T : \A y \in T : ~ (<<y, m>> \in NatOrder)
  BY <1>1, WFMin
<1>3. \A k \in T : ~ (k < m)
  BY <1>2 DEF NatOrder
<1>4. QED BY <1>3

\* The parent of a place other than the root is a smaller place.
LEMMA ParentBelow ==
  ASSUME NEW k \in Nat, k > 0
  PROVE  Parent(k) \in Nat /\ Parent(k) < k
BY DEF Parent

\* The two children of a place are the places whose parent it is.
LEMMA Children ==
  ASSUME NEW j \in Nat, NEW k \in Nat, k > 0, Parent(k) = j
  PROVE  k = 2 * j + 1 \/ k = 2 * j + 2
BY DEF Parent

LEMMA ParentOfChildren ==
  ASSUME NEW j \in Nat
  PROVE  Parent(2 * j + 1) = j /\ Parent(2 * j + 2) = j
BY DEF Parent

LEMMA ItemFields ==
  ASSUME NEW a \in Item
  PROVE  a.time \in Int /\ a.priority \in Int /\ a.seq \in Int
<1>1. a.time \in Times /\ a.priority \in Priorities /\ a.seq \in 0 .. MaxSeq - 1
  BY DEF Item
<1>2. Times \subseteq Int /\ Priorities \subseteq Int
  BY TimesAreInts
<1>3. a.time \in Int /\ a.priority \in Int
  BY <1>1, <1>2
<1>4. a.seq \in Int
  BY <1>1, MaxSeqIsNat
<1>5. QED BY <1>3, <1>4

\* "Not before" is transitive.
LEMMA NotLessTransitive ==
  ASSUME NEW a \in Item, NEW b \in Item, NEW c \in Item,
         ~ Less(b, a), ~ Less(c, b)
  PROVE  ~ Less(c, a)
BY ItemFields DEF Less

\* Two items are never before each other.
LEMMA LessAsymmetric ==
  ASSUME NEW a \in Item, NEW b \in Item, Less(a, b)
  PROVE  ~ Less(b, a)
BY ItemFields DEF Less

\* Items with different sequence numbers are comparable.
LEMMA LessTotal ==
  ASSUME NEW a \in Item, NEW b \in Item, a.seq # b.seq
  PROVE  Less(a, b) \/ Less(b, a)
BY ItemFields DEF Less

-----------------------------------------------------------------------------
(* The inductive invariant: the three invariants of the run.               *)

IInv == TypeOK /\ SeqUnique /\ HeapOrder

LEMMA InitIInv == Init => IInv
BY MaxSeqIsNat DEF Init, IInv, TypeOK, SeqUnique, HeapOrder, Places

LEMMA PushIInv ==
  ASSUME IInv, NEW t \in Times, NEW p \in Priorities, Push(t, p)
  PROVE  IInv'
<1> DEFINE new == [time |-> t, priority |-> p, seq |-> seq]
<1>0. /\ pc = "idle" /\ pc' = "up" /\ i' = size /\ size' = size + 1
      /\ seq' = seq + 1 /\ out' = out /\ seq < MaxSeq
      /\ heap' = [k \in 0 .. size |-> IF k = size THEN new ELSE heap[k]]
  BY DEF Push
<1>1. /\ size \in Nat /\ seq \in 0 .. MaxSeq /\ heap \in [0 .. size - 1 -> Item]
      /\ Places = 0 .. size - 1 /\ out \in Item \cup {NoItem}
  BY DEF IInv, TypeOK, Places
<1>2. new \in Item /\ new.seq = seq
  BY <1>0, <1>1, MaxSeqIsNat DEF Item
<1>3. Places' = 0 .. size
  BY <1>0, <1>1 DEF Places
<1>4. \A k \in Places : heap'[k] = heap[k] /\ k # size /\ heap[k] \in Item
  BY <1>0, <1>1
<1>5. heap'[size] = new
  BY <1>0, <1>1
<1>6. \A k \in Places' : k = size \/ k \in Places
  BY <1>1, <1>3
<1>7. TypeOK'
  BY <1>0, <1>1, <1>2, <1>3, MaxSeqIsNat DEF TypeOK
<1>8. SeqUnique'
  <2>1. \A k \in Places : heap[k].seq < seq /\ heap[k].seq \in Int
    BY <1>4, ItemFields DEF IInv, SeqUnique
  <2>2. \A k \in Places' : heap'[k].seq < seq'
    BY <2>1, <1>0, <1>1, <1>2, <1>4, <1>5, <1>6
  <2>3. \A j, k \in Places' : heap'[j].seq = heap'[k].seq => j = k
    BY <2>1, <1>1, <1>2, <1>4, <1>5, <1>6 DEF IInv, SeqUnique
  <2>4. QED BY <2>2, <2>3 DEF SeqUnique
<1>9. HeapOrder'
  <2>1. ASSUME NEW k \in Places' \ {0}, k # i'
        PROVE  ~ Less(heap'[k], heap'[Parent(k)])
    <3>1. k \in Places \ {0}
      BY <2>1, <1>0, <1>6
    <3>2. Parent(k) \in Places
      BY <3>1, <1>1, ParentBelow
    <3>3. ~ Less(heap[k], heap[Parent(k)])
      BY <3>1, <1>0 DEF IInv, HeapOrder
    <3>4. QED BY <3>1, <3>2, <3>3, <1>4
  <2>2. ASSUME NEW k \in Places' \ {0} PROVE Parent(k) # i'
    BY <1>0, <1>1, <1>3, ParentBelow
  <2>3. QED BY <2>1, <2>2, <1>0 DEF HeapOrder
<1>10. QED BY <1>7, <1>8, <1>9 DEF IInv

\* Swapping two places keeps the array well typed and its items distinct.
LEMMA SwapKeeps ==
  ASSUME TypeOK, SeqUnique, NEW j \in Places, NEW k \in Places, j # k,
         heap' = Swapped(heap, j, k), size' = size, seq' = seq
  PROVE  /\ heap' \in [Places -> Item]
         /\ heap'[j] = heap[k] /\ heap'[k] = heap[j]
         /\ \A x \in Places \ {j, k} : heap'[x] = heap[x]
         /\ Places' = Places
         /\ SeqUnique'
<1>1. heap \in [Places -> Item]
  BY DEF TypeOK
<1>2. heap' \in [Places -> Item] /\ heap'[j] = heap[k] /\ heap'[k] = heap[j]
      /\ \A x \in Places \ {j, k} : heap'[x] = heap[x]
  BY <1>1 DEF Swapped
<1>3. Places' = Places
  BY DEF Places
<1>4. SeqUnique'
  BY <1>2, <1>3 DEF SeqUnique
<1>5. QED BY <1>2, <1>3, <1>4

LEMMA SiftUpSwapIInv ==
  ASSUME IInv, SiftUpSwap
  PROVE  IInv'
<1> DEFINE q == Parent(i)
<1>0. /\ pc = "up" /\ pc' = "up" /\ i > 0 /\ Less(heap[i], heap[q])
      /\ heap' = Swapped(heap, i, q) /\ i' = q
      /\ size' = size /\ seq' = seq /\ out' = out
  BY DEF SiftUpSwap
<1>1. /\ TypeOK /\ SeqUnique /\ HeapOrder /\ size \in Nat /\ i \in Places
      /\ Places = 0 .. size - 1 /\ heap \in [Places -> Item]
  BY <1>0 DEF IInv, TypeOK, Places
<1>2. q \in Places /\ q < i /\ q \in Nat /\ i \in Nat
  BY <1>0, <1>1, ParentBelow
<1>3. /\ heap' \in [Places -> Item]
      /\ heap'[i] = heap[q] /\ heap'[q] = heap[i]
      /\ \A x \in Places \ {i, q} : heap'[x] = heap[x]
      /\ Places' = Places
      /\ SeqUnique'
  <2>1. i # q /\ i \in Places /\ q \in Places
    BY <1>1, <1>2
  <2> HIDE DEF q
  <2>2. QED BY <2>1, <1>0, <1>1, SwapKeeps
<1>4. TypeOK'
  BY <1>0, <1>1, <1>2, <1>3 DEF TypeOK
<1>5. ASSUME NEW k \in Places \ {0} PROVE Parent(k) \in Places /\ Parent(k) < k /\ k \in Nat
  BY <1>1, <1>5, ParentBelow
<1>6. ASSUME NEW k \in Places \ {0}, k # q
      PROVE  ~ Less(heap'[k], heap'[Parent(k)])
  <2>1. CASE k = i
    BY <2>1, <1>0, <1>1, <1>2, <1>3, LessAsymmetric
  <2>2. CASE k # i /\ Parent(k) = i
    \* A child of the old cursor: it was not before the old parent of i.
    <3>1. ~ Less(heap[k], heap[q])
      BY <2>2, <1>0, <1>1 DEF HeapOrder
    <3>2. heap'[k] = heap[k] /\ heap'[Parent(k)] = heap[q]
      BY <2>2, <1>3, <1>6
    <3>3. QED BY <3>1, <3>2
  <2>3. CASE k # i /\ Parent(k) = q
    <3>1. ~ Less(heap[k], heap[q])
      BY <2>3, <1>0, <1>1 DEF HeapOrder
    <3>2. ~ Less(heap[q], heap[i])
      BY <1>0, <1>1, <1>2, LessAsymmetric
    <3>3. ~ Less(heap[k], heap[i])
      BY <3>1, <3>2, <1>1, <1>2, <1>6, NotLessTransitive
    <3>4. heap'[k] = heap[k] /\ heap'[Parent(k)] = heap[i]
      BY <2>3, <1>3, <1>6
    <3>5. QED BY <3>3, <3>4
  <2>4. CASE k # i /\ Parent(k) # i /\ Parent(k) # q
    <3>1. ~ Less(heap[k], heap[Parent(k)])
      BY <2>4, <1>0, <1>1 DEF HeapOrder
    <3>2. heap'[k] = heap[k] /\ heap'[Parent(k)] = heap[Parent(k)]
      BY <2>4, <1>3, <1>5, <1>6
    <3>3. QED BY <3>1, <3>2
  <2>5. QED BY <2>1, <2>2, <2>3, <2>4
<1>7. ASSUME q > 0, NEW k \in Places \ {0}, Parent(k) = q
      PROVE  ~ Less(heap'[k], heap'[Parent(q)])
  <2>1. Parent(q) \in Places /\ Parent(q) < q
    BY <1>7, <1>2, <1>5
  <2>2. ~ Less(heap[q], heap[Parent(q)])
    BY <1>7, <1>0, <1>1, <1>2 DEF HeapOrder
  <2>3. heap'[Parent(q)] = heap[Parent(q)]
    BY <2>1, <1>2, <1>3
  <2>4. CASE k = i
    BY <2>2, <2>3, <2>4, <1>3
  <2>5. CASE k # i
    <3>1. ~ Less(heap[k], heap[q])
      BY <2>5, <1>0, <1>1, <1>7 DEF HeapOrder
    <3>2. ~ Less(heap[k], heap[Parent(q)])
      BY <3>1, <2>1, <2>2, <1>1, <1>2, <1>7, NotLessTransitive
    <3>3. k # q /\ heap'[k] = heap[k]
      BY <2>5, <1>3, <1>5, <1>7
    <3>4. QED BY <3>2, <3>3, <2>3
  <2>6. QED BY <2>4, <2>5
<1>8. HeapOrder'
  BY <1>0, <1>3, <1>6, <1>7 DEF HeapOrder
<1>9. QED BY <1>3, <1>4, <1>8 DEF IInv

LEMMA SiftUpDoneIInv ==
  ASSUME IInv, SiftUpDone
  PROVE  IInv'
<1>1. /\ pc = "up" /\ pc' = "idle" /\ ~ (i > 0 /\ Less(heap[i], heap[Parent(i)]))
      /\ heap' = heap /\ size' = size /\ seq' = seq /\ out' = out /\ i' = i
  BY DEF SiftUpDone
<1>2. TypeOK' /\ SeqUnique' /\ Places' = Places
  BY <1>1 DEF IInv, TypeOK, SeqUnique, Places
<1>3. HeapOrder'
  <2>1. ASSUME NEW k \in Places \ {0} PROVE ~ Less(heap[k], heap[Parent(k)])
    <3>1. CASE k = i
      BY <3>1, <1>1 DEF IInv, TypeOK, Places
    <3>2. CASE k # i
      BY <3>2, <1>1 DEF IInv, HeapOrder
    <3>3. QED BY <3>1, <3>2
  <2>2. QED BY <2>1, <1>1, <1>2 DEF HeapOrder
<1>4. QED BY <1>2, <1>3 DEF IInv

LEMMA PopIInv ==
  ASSUME IInv, Pop
  PROVE  IInv'
<1>0. /\ pc = "idle" /\ size > 0 /\ out' = heap[0] /\ size' = size - 1
      /\ heap' = [k \in 0 .. size - 2 |-> IF k = 0 THEN heap[size - 1] ELSE heap[k]]
      /\ pc' = (IF size > 1 THEN "down" ELSE "idle") /\ i' = 0 /\ seq' = seq
  BY DEF Pop
<1>1. /\ size \in Nat /\ Places = 0 .. size - 1 /\ heap \in [Places -> Item]
      /\ seq \in 0 .. MaxSeq
  BY DEF IInv, TypeOK, Places
<1>2. Places' = 0 .. size - 2 /\ Places' \subseteq Places
  BY <1>0, <1>1 DEF Places
<1>3. \A k \in Places' \ {0} : heap'[k] = heap[k] /\ k # size - 1
  BY <1>0, <1>1, <1>2
<1>4. 0 \in Places' => heap'[0] = heap[size - 1]
  BY <1>0, <1>1, <1>2
<1>5. TypeOK'
  BY <1>0, <1>1, <1>2 DEF TypeOK
<1>6. SeqUnique'
  BY <1>0, <1>1, <1>2, <1>3, <1>4 DEF IInv, SeqUnique
<1>7. ASSUME NEW k \in Places' \ {0}, Parent(k) # 0
      PROVE  ~ Less(heap'[k], heap'[Parent(k)])
  <2>1. Parent(k) \in Places' \ {0}
    BY <1>1, <1>2, <1>7, ParentBelow
  <2>2. ~ Less(heap[k], heap[Parent(k)])
    BY <1>0, <1>2 DEF IInv, HeapOrder
  <2>3. QED BY <2>1, <2>2, <1>3
<1>8. size > 1 \/ Places' = {}
  BY <1>0, <1>1, <1>2
<1>9. HeapOrder'
  BY <1>0, <1>7, <1>8 DEF HeapOrder
<1>10. QED BY <1>5, <1>6, <1>9 DEF IInv

\* The place siftDown picks is a child of the cursor, before the cursor and
\* not after the other child.
LEMMA SmallestChild ==
  ASSUME TypeOK, i \in Places, SmallestOf(i) # i
  PROVE  /\ SmallestOf(i) \in Places /\ Parent(SmallestOf(i)) = i
         /\ SmallestOf(i) > i
         /\ Less(heap[SmallestOf(i)], heap[i])
         /\ \A k \in Places \ {0} : Parent(k) = i => ~ Less(heap[k], heap[SmallestOf(i)])
<1> DEFINE l == 2 * i + 1
           r == l + 1
           m == IF l < size /\ Less(heap[l], heap[i]) THEN l ELSE i
<1>1. i \in Nat /\ size \in Nat /\ Places = 0 .. size - 1 /\ heap \in [Places -> Item]
  BY DEF TypeOK, Places
<1>2. SmallestOf(i) = IF r < size /\ Less(heap[r], heap[m]) THEN r ELSE m
  BY DEF SmallestOf
<1>3. Parent(l) = i /\ Parent(r) = i
  BY <1>1, ParentOfChildren
<1>4. (l < size => l \in Places) /\ (r < size => r \in Places) /\ l > i /\ r > i /\ l # r
  BY <1>1
<1>5. \A k \in Places \ {0} : Parent(k) = i => k = l \/ k = r
  BY <1>1, Children
<1>6. \A a \in Item : ~ Less(a, a)
  BY LessAsymmetric
<1>7. \A k \in Places : heap[k] \in Item
  BY <1>1
<1> HIDE DEF l, r
<1>8. CASE l < size /\ Less(heap[l], heap[i])
  <2>1. m = l
    BY <1>8
  <2> HIDE DEF m
  <2>2. CASE r < size /\ Less(heap[r], heap[l])
    <3>1. SmallestOf(i) = r
      BY <1>2, <2>1, <2>2
    <3>2. Less(heap[r], heap[i])
      <4>1. ~ Less(heap[i], heap[l])
        BY <1>4, <1>7, <1>8, LessAsymmetric
      <4>2. SUFFICES ASSUME ~ Less(heap[r], heap[i]) PROVE FALSE
        OBVIOUS
      <4>3. ~ Less(heap[r], heap[l])
        BY <4>1, <4>2, <1>4, <1>7, <1>8, <2>2, NotLessTransitive
      <4>4. QED BY <4>3, <2>2
    <3>3. ~ Less(heap[l], heap[r]) /\ ~ Less(heap[r], heap[r])
      BY <1>4, <1>6, <1>7, <1>8, <2>2, LessAsymmetric
    <3>4. QED BY <3>1, <3>2, <3>3, <1>3, <1>4, <1>5, <2>2
  <2>3. CASE ~ (r < size /\ Less(heap[r], heap[l]))
    <3>1. SmallestOf(i) = l
      BY <1>2, <2>1, <2>3
    <3>2. \A k \in Places : k = r => r < size
      BY <1>1
    <3>3. QED BY <3>1, <3>2, <1>3, <1>4, <1>5, <1>6, <1>7, <1>8, <2>3
  <2>4. QED BY <2>2, <2>3
<1>9. CASE ~ (l < size /\ Less(heap[l], heap[i]))
  <2>1. m = i
    BY <1>9
  <2> HIDE DEF m
  <2>2. SmallestOf(i) = r /\ r < size /\ Less(heap[r], heap[i])
    BY <1>2, <2>1
  <2>3. \A k \in Places : k = l => l < size
    BY <1>1
  <2>4. l < size => ~ Less(heap[l], heap[r])
    <3>1. SUFFICES ASSUME l < size, Less(heap[l], heap[r]) PROVE FALSE
      OBVIOUS
    <3>2. ~ Less(heap[l], heap[i])
      BY <3>1, <1>9
    <3>3. ~ Less(heap[i], heap[r])
      BY <2>2, <1>4, <1>7, LessAsymmetric
    <3>4. ~ Less(heap[l], heap[r])
      BY <3>1, <3>2, <3>3, <2>2, <1>4, <1>7, NotLessTransitive
    <3>5. QED BY <3>1, <3>4
  <2>5. QED BY <2>2, <2>3, <2>4, <1>3, <1>4, <1>5, <1>6, <1>7
<1>10. QED BY <1>8, <1>9

LEMMA SiftDownSwapIInv ==
  ASSUME IInv, SiftDownSwap
  PROVE  IInv'
<1> DEFINE c == SmallestOf(i)
<1>0. /\ pc = "down" /\ pc' = "down" /\ c # i
      /\ heap' = Swapped(heap, i, c) /\ i' = c
      /\ size' = size /\ seq' = seq /\ out' = out
  BY DEF SiftDownSwap
<1>1. /\ TypeOK /\ SeqUnique /\ HeapOrder /\ size \in Nat /\ i \in Places
      /\ Places = 0 .. size - 1 /\ heap \in [Places -> Item]
  BY <1>0 DEF IInv, TypeOK, Places
<1>2. /\ c \in Places /\ Parent(c) = i /\ c > i
      /\ Less(heap[c], heap[i])
      /\ \A k \in Places \ {0} : Parent(k) = i => ~ Less(heap[k], heap[c])
  BY <1>0, <1>1, SmallestChild
<1> HIDE DEF c
<1>3. /\ heap' \in [Places -> Item]
      /\ heap'[i] = heap[c] /\ heap'[c] = heap[i]
      /\ \A x \in Places \ {i, c} : heap'[x] = heap[x]
      /\ Places' = Places
      /\ SeqUnique'
  BY <1>0, <1>1, <1>2, SwapKeeps
<1>4. TypeOK'
  BY <1>0, <1>1, <1>2, <1>3 DEF TypeOK
<1>5. ASSUME NEW k \in Places \ {0} PROVE Parent(k) \in Places /\ Parent(k) < k /\ k \in Nat
  BY <1>1, <1>5, ParentBelow
<1>6. ASSUME NEW k \in Places \ {0}, Parent(k) # c
      PROVE  ~ Less(heap'[k], heap'[Parent(k)])
  <2>1. CASE Parent(k) = i
    <3>1. heap'[Parent(k)] = heap[c]
      BY <2>1, <1>3
    <3>2. CASE k = c
      BY <3>1, <3>2, <1>1, <1>2, <1>3, LessAsymmetric
    <3>3. CASE k # c
      BY <3>1, <3>3, <2>1, <1>2, <1>3, <1>5, <1>6
    <3>4. QED BY <3>2, <3>3
  <2>2. CASE Parent(k) # i /\ k = i
    \* The item moved up to i was a child of i, not before i's parent.
    <3>1. i > 0 /\ c \in Places \ {0}
      BY <2>2, <1>1, <1>2, <1>6
    <3>2. ~ Less(heap[c], heap[Parent(i)])
      BY <3>1, <1>0, <1>1, <1>2 DEF HeapOrder
    <3>3. heap'[Parent(i)] = heap[Parent(i)]
      BY <2>2, <1>3, <1>5, <1>6
    <3>4. QED BY <3>2, <3>3, <2>2, <1>3
  <2>3. CASE Parent(k) # i /\ k # i
    <3>1. k # c
      BY <2>3, <1>2
    <3>2. ~ Less(heap[k], heap[Parent(k)])
      BY <2>3, <1>0, <1>1 DEF HeapOrder
    <3>3. heap'[k] = heap[k] /\ heap'[Parent(k)] = heap[Parent(k)]
      BY <3>1, <2>3, <1>3, <1>5, <1>6
    <3>4. QED BY <3>2, <3>3
  <2>4. QED BY <2>1, <2>2, <2>3
<1>7. ASSUME NEW k \in Places \ {0}, Parent(k) = c
      PROVE  ~ Less(heap'[k], heap'[Parent(c)])
  <2>1. k # c /\ k # i
    BY <1>1, <1>2, <1>5, <1>7
  <2>2. ~ Less(heap[k], heap[c])
    BY <1>0, <1>1, <1>2, <1>7 DEF HeapOrder
  <2>3. QED BY <2>1, <2>2, <1>2, <1>3, <1>7
<1>8. HeapOrder'
  BY <1>0, <1>3, <1>6, <1>7 DEF HeapOrder
<1>9. QED BY <1>3, <1>4, <1>8 DEF IInv

\* When the cursor is not after its children siftDown has repaired the heap.
LEMMA SiftDownDoneIInv ==
  ASSUME IInv, SiftDownDone
  PROVE  IInv'
<1>0. /\ pc = "down" /\ pc' = "idle" /\ SmallestOf(i) = i
      /\ heap' = heap /\ size' = size /\ seq' = seq /\ out' = out /\ i' = i
  BY DEF SiftDownDone
<1>1. TypeOK' /\ SeqUnique' /\ Places' = Places
  BY <1>0 DEF IInv, TypeOK, SeqUnique, Places
<1>2. i \in Places /\ i \in Nat /\ size \in Nat /\ Places = 0 .. size - 1
  BY <1>0 DEF IInv, TypeOK, Places
<1>3. ASSUME NEW k \in Places \ {0}, Parent(k) = i
      PROVE  ~ Less(heap[k], heap[i])
  <2>1. k = 2 * i + 1 \/ k = 2 * i + 2
    BY <1>2, <1>3, Children
  <2>2. k < size
    BY <1>2
  <2>3. ~ (2 * i + 1 < size /\ Less(heap[2 * i + 1], heap[i]))
    <3>1. 2 * i + 1 # i /\ 2 * i + 1 + 1 # i
      BY <1>2
    <3>2. QED BY <3>1, <1>0 DEF SmallestOf
  <2>4. ~ (2 * i + 2 < size /\ Less(heap[2 * i + 2], heap[i]))
    <3>1. 2 * i + 1 + 1 = 2 * i + 2 /\ 2 * i + 2 # i
      BY <1>2
    <3>2. QED BY <3>1, <2>3, <1>0 DEF SmallestOf
  <2>5. QED BY <2>1, <2>2, <2>3, <2>4
<1>4. HeapOrder'
  <2>1. ASSUME NEW k \in Places \ {0} PROVE ~ Less(heap[k], heap[Parent(k)])
    <3>1. CASE Parent(k) = i
      BY <3>1, <1>3
    <3>2. CASE Parent(k) # i
      BY <3>2, <1>0 DEF IInv, HeapOrder
    <3>3. QED BY <3>1, <3>2
  <2>2. QED BY <2>1, <1>0, <1>1 DEF HeapOrder
<1>5. QED BY <1>1, <1>4 DEF IInv

LEMMA NextIInv ==
  ASSUME IInv, [Next]_vars
  PROVE  IInv'
<1>1. CASE \E t \in Times, p \in Priorities : Push(t, p)
  BY <1>1, PushIInv
<1>2. CASE SiftUpSwap
  BY <1>2, SiftUpSwapIInv
<1>3. CASE SiftUpDone
  BY <1>3, SiftUpDoneIInv
<1>4. CASE Pop
  BY <1>4, PopIInv
<1>5. CASE PopEmpty
  BY <1>5 DEF PopEmpty, IInv, TypeOK, SeqUnique, HeapOrder, Places
<1>6. CASE SiftDownSwap
  BY <1>6, SiftDownSwapIInv
<1>7. CASE SiftDownDone
  BY <1>7, SiftDownDoneIInv
<1>8. CASE UNCHANGED vars
  BY <1>8 DEF vars, IInv, TypeOK, SeqUnique, HeapOrder, Places
<1>9. QED BY <1>1, <1>2, <1>3, <1>4, <1>5, <1>6, <1>7, <1>8 DEF Next

\* The array is full up to its size and the cursor of a running loop is one
\* of its places, for every bound on the number of events.
THEOREM TypeCorrect == Spec => []TypeOK
<1>1. IInv => TypeOK
  BY DEF IInv
<1>2. QED BY <1>1, InitIInv, NextIInv, PTL DEF Spec

\* push and pop keep the heap order between any two iterations of their
\* loops (siftUp and siftDown of core/scheduler.ts).
THEOREM HeapOrderHolds == Spec => []HeapOrder
<1>1. IInv => HeapOrder
  BY DEF IInv
<1>2. QED BY <1>1, InitIInv, NextIInv, PTL DEF Spec

-----------------------------------------------------------------------------
(* The heap implements the ordered queue.                                  *)

\* In a heap at rest no item comes before the root: the smallest place
\* holding one would have a parent that comes before the root as well.
LEMMA RootFirst ==
  ASSUME IInv, pc = "idle", NEW k \in Places
  PROVE  ~ Less(heap[k], heap[0])
<1>1. /\ size \in Nat /\ Places = 0 .. size - 1 /\ heap \in [Places -> Item]
      /\ 0 \in Places
  BY DEF IInv, TypeOK, Places
<1> DEFINE Bad == {j \in Places : Less(heap[j], heap[0])}
<1>2. SUFFICES ASSUME Bad # {} PROVE FALSE
  OBVIOUS
<1>3. Bad \in SUBSET Nat
  BY <1>1
<1>4. PICK m \in Bad : \A j \in Bad : m <= j
  <2> HIDE DEF Bad
  <2>1. QED BY <1>2, <1>3, SmallestElement
<1>5. m \in Places /\ m \in Nat /\ Less(heap[m], heap[0])
  BY <1>1, <1>4
<1>6. m # 0
  BY <1>1, <1>5, LessAsymmetric
<1>7. Parent(m) \in Places /\ Parent(m) < m /\ Parent(m) \in Nat
  BY <1>1, <1>5, <1>6, ParentBelow
<1>8. ~ Less(heap[Parent(m)], heap[0])
  BY <1>4, <1>7, <1>3
<1>9. ~ Less(heap[m], heap[Parent(m)])
  BY <1>5, <1>6 DEF IInv, HeapOrder
<1>10. ~ Less(heap[m], heap[0])
  BY <1>1, <1>5, <1>7, <1>8, <1>9, NotLessTransitive
<1>11. QED BY <1>5, <1>10

InHeap == {heap[k] : k \in Places}

\* A step of the loops only rearranges the items.
LEMMA SwapSameItems ==
  ASSUME TypeOK, SeqUnique, NEW j \in Places, NEW k \in Places, j # k,
         heap' = Swapped(heap, j, k), size' = size, seq' = seq
  PROVE  InHeap' = InHeap
<1>1. /\ heap'[j] = heap[k] /\ heap'[k] = heap[j] /\ Places' = Places
      /\ \A x \in Places \ {j, k} : heap'[x] = heap[x]
  BY SwapKeeps
<1>2. \A x \in Places : heap'[x] \in InHeap
  BY <1>1 DEF InHeap
<1>3. \A x \in Places : heap[x] \in {heap'[y] : y \in Places}
  BY <1>1
<1>4. QED BY <1>1, <1>2, <1>3 DEF InHeap

\* The loops only rearrange the items: for the queue they are no step.
LEMMA LoopsStutter ==
  ASSUME IInv, SiftUpSwap \/ SiftUpDone \/ SiftDownSwap \/ SiftDownDone
  PROVE  InHeap' = InHeap /\ seq' = seq /\ out' = out
<1>1. CASE SiftUpSwap
  <2>1. i \in Places /\ Parent(i) \in Places /\ i # Parent(i)
    <3>1. i \in Places /\ i > 0 /\ size \in Nat
      BY <1>1 DEF SiftUpSwap, IInv, TypeOK
    <3>2. QED BY <3>1, ParentBelow DEF Places
  <2>2. QED BY <1>1, <2>1, SwapSameItems DEF SiftUpSwap, IInv
<1>2. CASE SiftDownSwap
  <2>1. i \in Places /\ SmallestOf(i) \in Places /\ i # SmallestOf(i)
    BY <1>2, SmallestChild DEF SiftDownSwap, IInv, TypeOK
  <2>2. QED BY <1>2, <2>1, SwapSameItems DEF SiftDownSwap, IInv
<1>3. CASE SiftUpDone
  BY <1>3 DEF SiftUpDone, InHeap, Places
<1>4. CASE SiftDownDone
  BY <1>4 DEF SiftDownDone, InHeap, Places
<1>5. QED BY <1>1, <1>2, <1>3, <1>4

LEMMA PushPushes ==
  ASSUME IInv, NEW t \in Times, NEW p \in Priorities, Push(t, p)
  PROVE  Queue!Push(t, p)
<1> DEFINE new == [time |-> t, priority |-> p, seq |-> seq]
<1>1. /\ seq < MaxSeq /\ seq' = seq + 1 /\ out' = out /\ size' = size + 1
      /\ heap' = [k \in 0 .. size |-> IF k = size THEN new ELSE heap[k]]
  BY DEF Push
<1>2. size \in Nat /\ Places = 0 .. size - 1 /\ Places' = 0 .. size
  BY <1>1 DEF IInv, TypeOK, Places
<1>3. heap'[size] = new /\ \A k \in Places : heap'[k] = heap[k]
  BY <1>1, <1>2
<1>4. \A k \in Places' : k = size \/ k \in Places
  BY <1>2
<1>5. size \in Places' /\ Places \subseteq Places'
  BY <1>2
<1>6. {heap'[k] : k \in Places'} = {heap[k] : k \in Places} \cup {new}
  BY <1>3, <1>4, <1>5
<1>7. QED BY <1>1, <1>6 DEF Queue!Push

\* pop takes the root, and the root comes before every other item.
LEMMA PopPops ==
  ASSUME IInv, Pop
  PROVE  \E m \in InHeap : Queue!Pop(m)
<1>1. /\ pc = "idle" /\ size > 0 /\ out' = heap[0] /\ size' = size - 1 /\ seq' = seq
      /\ heap' = [k \in 0 .. size - 2 |-> IF k = 0 THEN heap[size - 1] ELSE heap[k]]
  BY DEF Pop
<1>2. /\ size \in Nat /\ Places = 0 .. size - 1 /\ heap \in [Places -> Item]
      /\ 0 \in Places /\ Places' = 0 .. size - 2 /\ size - 1 \in Places
  BY <1>1 DEF IInv, TypeOK, Places
<1>3. heap[0] \in InHeap
  BY <1>2 DEF InHeap
<1>4. ASSUME NEW k \in Places, k # 0
      PROVE  Queue!Before(heap[0], heap[k]) /\ heap[k] # heap[0]
  <2>1. heap[k].seq # heap[0].seq
    BY <1>2, <1>4 DEF IInv, SeqUnique
  <2>2. ~ Less(heap[k], heap[0])
    BY <1>1, <1>4, RootFirst
  <2>3. Less(heap[0], heap[k])
    BY <2>1, <2>2, <1>2, <1>4, LessTotal
  <2>4. QED BY <2>1, <2>3 DEF Less, Queue!Before
<1>5. {heap'[k] : k \in Places'} = InHeap \ {heap[0]}
  <2>1. ASSUME NEW k \in Places'
        PROVE  heap'[k] \in InHeap \ {heap[0]}
    <3>1. CASE k = 0
      <4>1. heap'[k] = heap[size - 1] /\ size - 1 # 0
        BY <3>1, <2>1, <1>1, <1>2
      <4>2. QED BY <4>1, <1>2, <1>4 DEF InHeap
    <3>2. CASE k # 0
      <4>1. heap'[k] = heap[k] /\ k \in Places
        BY <3>2, <2>1, <1>1, <1>2
      <4>2. QED BY <4>1, <3>2, <1>4 DEF InHeap
    <3>3. QED BY <3>1, <3>2
  <2>2. ASSUME NEW k \in Places, k # 0
        PROVE  heap[k] \in {heap'[j] : j \in Places'}
    <3>1. CASE k = size - 1
      <4>1. 0 \in Places' /\ heap'[0] = heap[k]
        BY <3>1, <2>2, <1>1, <1>2
      <4>2. QED BY <4>1
    <3>2. CASE k # size - 1
      <4>1. k \in Places' /\ heap'[k] = heap[k]
        BY <3>2, <2>2, <1>1, <1>2
      <4>2. QED BY <4>1
    <3>3. QED BY <3>1, <3>2
  <2>3. \A x \in InHeap \ {heap[0]} : x \in {heap'[j] : j \in Places'}
    BY <2>2 DEF InHeap
  <2>4. \A x \in {heap'[j] : j \in Places'} : x \in InHeap \ {heap[0]}
    BY <2>1
  <2>5. QED BY <2>3, <2>4
<1>6. \A e \in InHeap \ {heap[0]} : Queue!Before(heap[0], e)
  BY <1>4 DEF InHeap
<1>7. Queue!Pop(heap[0])
  BY <1>1, <1>5, <1>6 DEF Queue!Pop, InHeap
<1>8. QED BY <1>3, <1>7 DEF Queue!Pop

\* core/scheduler.ts line 1: events come back in the order of time, then
\* priority, then sequence, whatever pushes and pops came before.
THEOREM SchedulerIsQueue == Spec => QueueSpec
<1>1. Init => Queue!Init
  BY DEF Init, Queue!Init, Places
<1>2. IInv /\ [Next]_vars => [Queue!Next]_(Queue!vars)
  <2> SUFFICES ASSUME IInv, [Next]_vars
               PROVE  [Queue!Next]_(Queue!vars)
    OBVIOUS
  <2>1. CASE \E t \in Times, p \in Priorities : Push(t, p)
    BY <2>1, PushPushes DEF Queue!Next
  <2>2. CASE SiftUpSwap \/ SiftUpDone \/ SiftDownSwap \/ SiftDownDone
    BY <2>2, LoopsStutter DEF Queue!vars, InHeap
  <2>3. CASE Pop
    BY <2>3, PopPops DEF Queue!Next, InHeap
  <2>4. CASE PopEmpty
    BY <2>4 DEF PopEmpty, Queue!Next, Queue!PopNothing, Places, IInv, TypeOK
  <2>5. CASE UNCHANGED vars
    BY <2>5 DEF vars, Queue!vars, Places
  <2>6. QED BY <2>1, <2>2, <2>3, <2>4, <2>5 DEF Next
<1>3. QED BY <1>1, <1>2, InitIInv, NextIInv, PTL DEF Spec, QueueSpec, Queue!Spec
=============================================================================
