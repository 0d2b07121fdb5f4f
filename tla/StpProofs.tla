------------------------------ MODULE StpProofs ------------------------------
(***************************************************************************)
(* Proofs about the spanning tree (Stp): the state keeps its type, and     *)
(* once things have settled the switches agree on one root and one tree,   *)
(* for any switches, cables and edits.                                     *)
(***************************************************************************)
EXTENDS Stp, FiniteSetTheorems, FunctionTheorems, SequenceTheorems, WellFoundedInduction, TLAPS

-------------------------------------------------------------------------------
(* Numbers and finite sets of them *)

NatOrder == {ss \in Nat \X Nat : ss[1] < ss[2]}

\* A set of numbers has a smallest one.
LEMMA Smallest ==
  ASSUME NEW A \in SUBSET Nat, A # {}
  PROVE  \E m \in A : \A k \in A : m <= k
<1>1. IsWellFoundedOn(NatOrder, Nat)
  BY NatLessThanWellFounded DEF NatOrder, OpToRel
<1>2. PICK m \in A : \A y \in A : ~ (<<y, m>> \in NatOrder)
  BY <1>1, WFMin
<1>3. \A k \in A : ~ (k < m)
  BY <1>2 DEF NatOrder
<1>4. QED BY <1>3

InOrder(q, n, S) == q \in [1 .. n -> S] /\ \A i, j \in 1 .. n : i < j => q[i] < q[j]

\* The elements of a finite set of numbers can be put in order: if not, take a
\* smallest set for which they cannot, and its smallest element away.
LEMMA OrderExists ==
  ASSUME NEW S \in SUBSET Nat, IsFiniteSet(S)
  PROVE  \E q : InOrder(q, Cardinality(S), S)
<1> DEFINE Bad == {n \in Nat : \E T \in SUBSET Nat : /\ IsFiniteSet(T) /\ Cardinality(T) = n
                                                    /\ ~ \E q : InOrder(q, n, T)}
<1>1. SUFFICES ASSUME Bad # {} PROVE FALSE
  BY FS_CardinalityType
<1>2. PICK n \in Bad : \A k \in Bad : n <= k
  BY <1>1, Smallest
<1>3. PICK T \in SUBSET Nat : IsFiniteSet(T) /\ Cardinality(T) = n /\ ~ \E q : InOrder(q, n, T)
  BY <1>2
<1>4. T # {}
  <2> SUFFICES ASSUME T = {} PROVE FALSE
    OBVIOUS
  <2>1. n = 0
    BY <1>3, FS_EmptySet
  <2>2. InOrder([i \in 1 .. 0 |-> 0], n, T)
    BY <2>1 DEF InOrder
  <2>3. QED BY <1>3, <2>2
<1>5. PICK m \in T : \A k \in T : m <= k
  BY <1>4, Smallest
<1>6. IsFiniteSet(T \ {m}) /\ Cardinality(T \ {m}) = n - 1 /\ n \in Nat /\ n - 1 \in Nat
  <2>1. IsFiniteSet(T \ {m}) /\ Cardinality(T \ {m}) = n - 1
    BY <1>3, <1>5, FS_RemoveElement
  <2>2. Cardinality(T \ {m}) \in Nat /\ n \in Nat
    BY <1>2, <2>1, FS_CardinalityType
  <2>3. QED BY <2>1, <2>2
<1>7. n - 1 \notin Bad
  BY <1>2, <1>6
<1>8. PICK q : InOrder(q, n - 1, T \ {m})
  BY <1>3, <1>6, <1>7
<1> HIDE DEF Bad
<1> DEFINE p == [i \in 1 .. n |-> IF i = 1 THEN m ELSE q[i - 1]]
<1>9. \A i \in 2 .. n : i - 1 \in 1 .. n - 1 /\ p[i] = q[i - 1] /\ q[i - 1] \in T \ {m}
  BY <1>6, <1>8 DEF InOrder
<1>0. \A i \in 1 .. n : i = 1 \/ i \in 2 .. n
  BY <1>6
<1>10. p \in [1 .. n -> T] /\ \A i \in 1 .. n : i = 1 => p[i] = m
  <2>1. \A i \in 1 .. n : (IF i = 1 THEN m ELSE q[i - 1]) \in T
    BY <1>0, <1>5, <1>9
  <2>2. QED BY <2>1
<1> HIDE DEF p
<1>11. ASSUME NEW i \in 1 .. n, NEW j \in 1 .. n, i < j PROVE p[i] < p[j]
  <2>1. j \in 2 .. n /\ p[j] = q[j - 1] /\ p[j] \in T \ {m} /\ p[j] \in Nat
    <3>1. j \in 2 .. n
      BY <1>6, <1>11
    <3>2. p[j] = q[j - 1] /\ q[j - 1] \in T \ {m}
      BY <1>9, <3>1
    <3>3. QED BY <3>1, <3>2
  <2>2. CASE i = 1
    BY <1>5, <1>10, <1>11, <2>1, <2>2
  <2>3. CASE i # 1
    <3>1. i \in 2 .. n
      BY <1>6, <2>3
    <3>2. QED BY <1>6, <1>8, <1>9, <1>11, <2>1, <3>1 DEF InOrder
  <2>4. QED BY <2>2, <2>3
<1>12. InOrder(p, n, T)
  BY <1>10, <1>11 DEF InOrder
<1>13. QED BY <1>3, <1>12

LEMMA AscendingFacts ==
  ASSUME NEW S \in SUBSET Nat, IsFiniteSet(S)
  PROVE  /\ Cardinality(S) \in Nat
         /\ Ascending(S) \in [1 .. Cardinality(S) -> S]
         /\ \A i, j \in 1 .. Cardinality(S) : i # j => Ascending(S)[i] # Ascending(S)[j]
         /\ \A l \in S : \E i \in 1 .. Cardinality(S) : Ascending(S)[i] = l
<1>1. Cardinality(S) \in Nat
  BY FS_CardinalityType
<1> DEFINE q == Ascending(S)
           n == Cardinality(S)
<1>2. InOrder(q, n, S)
  <2>1. PICK p : InOrder(p, n, S)
    BY <1>1, OrderExists
  <2>2. QED BY <2>1 DEF Ascending, InOrder
<1> HIDE DEF q
<1>3. ASSUME NEW i \in 1 .. n, NEW j \in 1 .. n, i # j PROVE q[i] # q[j]
  <2>1. q[i] \in Nat /\ q[j] \in Nat
    BY <1>1, <1>2 DEF InOrder
  <2>2. i < j \/ j < i
    BY <1>1, <1>3
  <2>3. QED BY <1>2, <2>1, <2>2 DEF InOrder
<1>4. \A l \in S : \E i \in 1 .. n : q[i] = l
  <2>1. q \in Injection(1 .. n, S)
    BY <1>2, <1>3 DEF InOrder, Injection, IsInjective
  <2>2. Cardinality(1 .. n) = n
    BY <1>1, FS_Interval
  <2>3. q \in Surjection(1 .. n, S)
    BY <1>1, <2>1, <2>2, FS_Injection
  <2>4. QED BY <2>3 DEF Surjection
<1>5. QED BY <1>1, <1>2, <1>3, <1>4 DEF InOrder, q

-------------------------------------------------------------------------------
(* Vectors *)

LEMMA BetterFive ==
  ASSUME NEW u, NEW v, Len(u) = 5
  PROVE  Better(u, v) <=>
           \/ u[1] < v[1]
           \/ u[1] = v[1] /\ u[2] < v[2]
           \/ u[1] = v[1] /\ u[2] = v[2] /\ u[3] < v[3]
           \/ u[1] = v[1] /\ u[2] = v[2] /\ u[3] = v[3] /\ u[4] < v[4]
           \/ u[1] = v[1] /\ u[2] = v[2] /\ u[3] = v[3] /\ u[4] = v[4] /\ u[5] < v[5]
<1>1. Better(u, v) <=> \E k \in 1 .. 5 : u[k] < v[k] /\ \A m \in 1 .. k - 1 : u[m] = v[m]
  BY DEF Better
<1>2. QED BY <1>1

LEMMA BetterFour ==
  ASSUME NEW u, NEW v, Len(u) = 4
  PROVE  Better(u, v) <=>
           \/ u[1] < v[1]
           \/ u[1] = v[1] /\ u[2] < v[2]
           \/ u[1] = v[1] /\ u[2] = v[2] /\ u[3] < v[3]
           \/ u[1] = v[1] /\ u[2] = v[2] /\ u[3] = v[3] /\ u[4] < v[4]
<1>1. Better(u, v) <=> \E k \in 1 .. 4 : u[k] < v[k] /\ \A m \in 1 .. k - 1 : u[m] = v[m]
  BY DEF Better
<1>2. QED BY <1>1

-------------------------------------------------------------------------------
(* The state of one switch *)

Heard == BpduType \cup {None}

SwitchType ==
  [on : BOOLEAN, prio : Nat, live : SUBSET Links, heard : [Links -> Heard], role : [Links -> Roles],
   root : Nat, cost : Nat, port : Links \cup {None}, age : 0 .. MaxAge + 1, pending : BOOLEAN,
   tcSeq : Nat, tcSeen : SUBSET (Switches \X Nat), tcOut : (Switches \X Nat) \cup {None},
   mac : Links \cup {StationPort, None}, seen : SUBSET (1 .. MaxFrames)]

\* Nothing heard is too old.
Young(w) == \A l \in Links : w.heard[l] # None => w.heard[l].age <= MaxAge

\* What the election of root and roles yields: the best of what is heard and of
\* the switch itself.
Elected(s, w) ==
  \/ Offers(s, w) = {} /\ w.root = Me(s, w) /\ w.cost = 0 /\ w.port = None /\ w.age = 0
  \/ /\ w.port \in Offers(s, w)
     /\ \A k \in Offers(s, w) \ {w.port} : Better(Offer(w, w.port), Offer(w, k))
     /\ w.root = w.heard[w.port].root /\ w.cost = w.heard[w.port].cost + PortCost
     /\ w.age = w.heard[w.port].age + 1

Tree(s, w) == Elected(s, w) /\ w.role = [l \in Links |-> RoleOf(s, w, l)]

LEMMA HeardType ==
  ASSUME NEW w \in SwitchType, NEW l \in Links, w.heard[l] # None
  PROVE  /\ w.heard[l] \in BpduType /\ w.heard[l].root \in Nat /\ w.heard[l].cost \in Nat
         /\ w.heard[l].bridge \in Nat /\ w.heard[l].port \in Nat /\ w.heard[l].age \in Nat
<1>1. w.heard[l] \in BpduType
  BY DEF SwitchType, Heard
<1> DEFINE b == w.heard[l]
<1> HIDE DEF b
<1>2. b \in BpduType => b.root \in Nat /\ b.cost \in Nat /\ b.bridge \in Nat /\ b.port \in Links /\ b.age \in 0 .. MaxAge + 1
  BY DEF BpduType
<1>3. b \in BpduType
  BY <1>1 DEF b
<1>4. Links \subseteq Nat /\ MaxAge \in Nat
  BY StpAssumption
<1>5. b.port \in Links /\ b.age \in 0 .. MaxAge + 1
  BY <1>2, <1>3
<1>6. b.port \in Nat
  BY <1>4, <1>5
<1>7. b.age \in Nat
  BY <1>4, <1>5
<1>8. QED BY <1>2, <1>3, <1>6, <1>7 DEF b

LEMMA MeType ==
  ASSUME NEW s \in Switches, NEW w \in SwitchType
  PROVE  Me(s, w) \in Nat
<1>1. w.prio \in Nat /\ s \in Nat /\ MaxMac \in Nat
  BY StpAssumption DEF SwitchType
<1> DEFINE p == w.prio
<1>2. p \in Nat /\ MaxMac + 1 \in Nat /\ s \in Nat
  BY <1>1
<1> HIDE DEF p
<1>3. p * (MaxMac + 1) \in Nat
  BY <1>2
<1>4. p * (MaxMac + 1) + s \in Nat
  BY <1>2, <1>3
<1>5. QED BY <1>4 DEF Me, Id, p

\* The smallest value of f on A.
LEMMA SmallestOf ==
  ASSUME NEW A, A # {}, NEW f, \A x \in A : f[x] \in Nat
  PROVE  \E x \in A : \A y \in A : f[x] <= f[y]
<1> DEFINE B == {f[x] : x \in A}
<1>1. B \in SUBSET Nat /\ B # {}
  OBVIOUS
<1>2. PICK m \in B : \A k \in B : m <= k
  BY <1>1, Smallest
<1>3. QED BY <1>2

LEMMA BestOfferIs ==
  ASSUME NEW s, NEW w \in SwitchType, Offers(s, w) # {}
  PROVE  /\ BestOffer(s, w) \in Offers(s, w)
         /\ \A k \in Offers(s, w) \ {BestOffer(s, w)} : Better(Offer(w, BestOffer(s, w)), Offer(w, k))
<1> DEFINE A == Offers(s, w)
           root == [l \in Links |-> w.heard[l].root]
           cost == [l \in Links |-> w.heard[l].cost + PortCost]
           bridge == [l \in Links |-> w.heard[l].bridge]
           port == [l \in Links |-> w.heard[l].port]
           name == [l \in Links |-> l]
<1>1. A \subseteq Links /\ A # {} /\ \A l \in A : w.heard[l] # None
  BY DEF Offers, SwitchType
<1>2. \A l \in A : root[l] \in Nat /\ cost[l] \in Nat /\ bridge[l] \in Nat /\ port[l] \in Nat /\ name[l] \in Nat
  <2> SUFFICES ASSUME NEW l \in A
               PROVE  root[l] \in Nat /\ cost[l] \in Nat /\ bridge[l] \in Nat /\ port[l] \in Nat /\ name[l] \in Nat
    OBVIOUS
  <2>1. /\ w.heard[l].root \in Nat /\ w.heard[l].cost \in Nat /\ w.heard[l].bridge \in Nat
        /\ w.heard[l].port \in Nat /\ l \in Nat /\ l \in Links
    BY <1>1, HeardType, StpAssumption
  <2>2. w.heard[l].cost + PortCost \in Nat
    BY <2>1, StpAssumption
  <2>3. QED BY <2>1, <2>2
<1>3. \A l \in A : Offer(w, l) = <<root[l], cost[l], bridge[l], port[l], name[l]>> /\ name[l] = l
  BY <1>1 DEF Offer
<1> HIDE DEF A, root, cost, bridge, port, name
<1> DEFINE A1 == {x \in A : \A y \in A : root[x] <= root[y]}
           A2 == {x \in A1 : \A y \in A1 : cost[x] <= cost[y]}
           A3 == {x \in A2 : \A y \in A2 : bridge[x] <= bridge[y]}
           A4 == {x \in A3 : \A y \in A3 : port[x] <= port[y]}
<1>4. A1 # {}
  BY <1>1, <1>2, SmallestOf
<1>5. A2 # {}
  BY <1>2, <1>4, SmallestOf
<1>6. A3 # {}
  BY <1>2, <1>5, SmallestOf
<1>7. A4 # {}
  BY <1>2, <1>6, SmallestOf
<1>8. PICK x \in A4 : \A y \in A4 : name[x] <= name[y]
  BY <1>2, <1>7, SmallestOf
<1>9. ASSUME NEW y \in A, y # x
      PROVE  \/ root[x] < root[y]
             \/ root[x] = root[y] /\ cost[x] < cost[y]
             \/ root[x] = root[y] /\ cost[x] = cost[y] /\ bridge[x] < bridge[y]
             \/ root[x] = root[y] /\ cost[x] = cost[y] /\ bridge[x] = bridge[y] /\ port[x] < port[y]
             \/ root[x] = root[y] /\ cost[x] = cost[y] /\ bridge[x] = bridge[y] /\ port[x] = port[y]
                  /\ name[x] < name[y]
  <2>0. /\ root[x] \in Nat /\ cost[x] \in Nat /\ bridge[x] \in Nat /\ port[x] \in Nat /\ name[x] \in Nat
        /\ root[y] \in Nat /\ cost[y] \in Nat /\ bridge[y] \in Nat /\ port[y] \in Nat /\ name[y] \in Nat
        /\ name[x] # name[y]
    BY <1>2, <1>3, <1>8, <1>9
  <2>1. root[x] <= root[y]
    BY <1>8, <1>9
  <2>2. root[x] = root[y] => y \in A1 /\ cost[x] <= cost[y]
    BY <1>8, <1>9
  <2>3. root[x] = root[y] /\ cost[x] = cost[y] => y \in A2 /\ bridge[x] <= bridge[y]
    BY <1>8, <2>2
  <2>4. root[x] = root[y] /\ cost[x] = cost[y] /\ bridge[x] = bridge[y] => y \in A3 /\ port[x] <= port[y]
    BY <1>8, <2>3
  <2>5. root[x] = root[y] /\ cost[x] = cost[y] /\ bridge[x] = bridge[y] /\ port[x] = port[y] =>
          name[x] <= name[y]
    BY <1>8, <2>4
  <2> HIDE DEF A1, A2, A3, A4
  <2>6. QED BY <2>0, <2>1, <2>2, <2>3, <2>4, <2>5
<1>10. x \in A
  BY <1>8
<1> HIDE DEF A1, A2, A3, A4
<1>11. \A y \in A \ {x} : Better(Offer(w, x), Offer(w, y))
  <2> SUFFICES ASSUME NEW y \in A \ {x} PROVE Better(Offer(w, x), Offer(w, y))
    OBVIOUS
  <2>1. /\ Offer(w, x) = <<root[x], cost[x], bridge[x], port[x], name[x]>>
        /\ Offer(w, y) = <<root[y], cost[y], bridge[y], port[y], name[y]>>
    BY <1>3, <1>10
  <2>3. /\ Offer(w, x)[1] = root[x] /\ Offer(w, x)[2] = cost[x] /\ Offer(w, x)[3] = bridge[x]
        /\ Offer(w, x)[4] = port[x] /\ Offer(w, x)[5] = name[x] /\ Len(Offer(w, x)) = 5
    BY <2>1
  <2>4. /\ Offer(w, y)[1] = root[y] /\ Offer(w, y)[2] = cost[y] /\ Offer(w, y)[3] = bridge[y]
        /\ Offer(w, y)[4] = port[y] /\ Offer(w, y)[5] = name[y]
    BY <2>1
  <2>5. QED BY <1>9, <2>3, <2>4, BetterFive
<1>12. \E l \in Offers(s, w) : \A k \in Offers(s, w) \ {l} : Better(Offer(w, l), Offer(w, k))
  BY <1>10, <1>11 DEF A
<1>13. QED BY <1>12, Zenon DEF BestOffer
\* What the election and the telling of it leave alone.
Same(v, w) ==
  w.on = v.on /\ w.prio = v.prio /\ w.live = v.live /\ w.heard = v.heard

\* What is offered does not depend on what was elected.
LEMMA SameOffers ==
  ASSUME NEW s, NEW v, NEW w, Same(v, w)
  PROVE  /\ Me(s, w) = Me(s, v) /\ Offers(s, w) = Offers(s, v)
         /\ \A l : Offer(w, l) = Offer(v, l)
<1>1. Me(s, w) = Me(s, v)
  BY DEF Same, Me
<1>2. Offers(s, w) = Offers(s, v)
  BY <1>1 DEF Same, Offers
<1>3. \A l : Offer(w, l) = Offer(v, l)
  BY DEF Same, Offer
<1>4. QED BY <1>1, <1>2, <1>3

LEMMA WithRootDoes ==
  ASSUME NEW s \in Switches, NEW v \in SwitchType, Young(v)
  PROVE  /\ WithRoot(s, v) \in SwitchType /\ Same(v, WithRoot(s, v)) /\ Elected(s, WithRoot(s, v))
         /\ WithRoot(s, v).role = v.role /\ WithRoot(s, v).pending = v.pending
         /\ WithRoot(s, v).mac = v.mac
<1> DEFINE w == WithRoot(s, v)
<1>1. CASE Offers(s, v) = {}
  <2>1. w = [v EXCEPT !.root = Me(s, v), !.cost = 0, !.port = None, !.age = 0]
    BY <1>1 DEF WithRoot
  <2>2. Me(s, v) \in Nat /\ 0 \in 0 .. MaxAge + 1
    BY MeType, StpAssumption
  <2>3. \A m \in Nat, a \in 0 .. MaxAge + 1 :
           [v EXCEPT !.root = m, !.cost = 0, !.port = None, !.age = a] \in SwitchType
    BY DEF SwitchType
  <2>4. w \in SwitchType
    BY <2>1, <2>2, <2>3
  <2>5. /\ Same(v, w) /\ w.root = Me(s, v) /\ w.cost = 0 /\ w.port = None /\ w.age = 0
        /\ w.role = v.role /\ w.pending = v.pending /\ w.mac = v.mac
    BY <2>1 DEF SwitchType, Same
  <2>6. Elected(s, w)
    BY <1>1, <2>5, SameOffers DEF Elected
  <2>7. QED BY <2>4, <2>5, <2>6
<1>2. CASE Offers(s, v) # {}
  <2> DEFINE l == BestOffer(s, v)
             h == v.heard[l]
  <2>1. l \in Offers(s, v) /\ \A k \in Offers(s, v) \ {l} : Better(Offer(v, l), Offer(v, k))
    BY <1>2, BestOfferIs
  <2>2. w = [v EXCEPT !.root = h.root, !.cost = h.cost + PortCost, !.port = l, !.age = h.age + 1]
    BY <1>2 DEF WithRoot, Following
  <2> HIDE DEF l
  <2>3. l \in Links /\ h # None
    BY <2>1 DEF Offers, SwitchType
  <2>4. h.root \in Nat /\ h.cost \in Nat /\ h.age \in Nat /\ h.age <= MaxAge
    BY <2>3, HeardType DEF Young
  <2> HIDE DEF h
  <2>5. h.cost + PortCost \in Nat /\ h.age + 1 \in 0 .. MaxAge + 1
    BY <2>4, StpAssumption
  <2>6. \A m \in Nat, c \in Nat, a \in 0 .. MaxAge + 1 :
           [v EXCEPT !.root = m, !.cost = c, !.port = l, !.age = a] \in SwitchType
    BY <2>3 DEF SwitchType
  <2> DEFINE m == h.root
             c == h.cost + PortCost
             a == h.age + 1
  <2>7. w \in SwitchType
    <3>1. m \in Nat /\ c \in Nat /\ a \in 0 .. MaxAge + 1
      BY <2>4, <2>5
    <3>2. w = [v EXCEPT !.root = m, !.cost = c, !.port = l, !.age = a]
      BY <2>2
    <3> HIDE DEF m, c, a, w
    <3>3. QED BY <2>6, <3>1, <3>2
  <2>8. /\ Same(v, w) /\ w.root = h.root /\ w.cost = h.cost + PortCost /\ w.port = l /\ w.age = h.age + 1
        /\ w.role = v.role /\ w.pending = v.pending /\ w.mac = v.mac /\ w.heard = v.heard
    BY <2>2 DEF SwitchType, Same
  <2>9. Elected(s, w)
    <3> HIDE DEF w
    <3>1. Offers(s, w) = Offers(s, v) /\ \A k : Offer(w, k) = Offer(v, k)
      BY <2>8, SameOffers
    <3>2. w.heard[w.port] = h
      BY <2>8 DEF h
    <3>3. QED BY <2>1, <2>8, <3>1, <3>2 DEF Elected
  <2>10. QED BY <2>7, <2>8, <2>9
<1>3. QED BY <1>1, <1>2

LEMMA WithRolesDoes ==
  ASSUME NEW s \in Switches, NEW v \in SwitchType, Elected(s, v)
  PROVE  /\ WithRoles(s, v) \in SwitchType /\ Same(v, WithRoles(s, v)) /\ Tree(s, WithRoles(s, v))
         /\ WithRoles(s, v).pending = v.pending /\ WithRoles(s, v).mac = v.mac
         /\ WithRoles(s, v).root = v.root /\ WithRoles(s, v).cost = v.cost
         /\ WithRoles(s, v).port = v.port /\ WithRoles(s, v).age = v.age
<1> DEFINE role == [l \in Links |-> RoleOf(s, v, l)]
           w == WithRoles(s, v)
<1>1. role \in [Links -> Roles]
  BY DEF RoleOf, Roles
<1> HIDE DEF role
<1>2. w = [v EXCEPT !.role = role]
  BY DEF WithRoles, role
<1>3. w \in SwitchType
  BY <1>1, <1>2 DEF SwitchType
<1>4. /\ Same(v, w) /\ w.role = role /\ w.pending = v.pending /\ w.mac = v.mac /\ w.root = v.root
      /\ w.cost = v.cost /\ w.port = v.port /\ w.age = v.age /\ w.live = v.live /\ w.heard = v.heard
  BY <1>2 DEF SwitchType, Same
<1> HIDE DEF w
<1>5. Elected(s, w)
  BY <1>4, SameOffers DEF Elected
<1>6. \A l : RoleOf(s, w, l) = RoleOf(s, v, l)
  <2>1. \A l : MyVector(s, w, l) = MyVector(s, v, l)
    BY <1>4, SameOffers DEF MyVector
  <2>2. QED BY <1>4, <2>1 DEF RoleOf
<1>7. Tree(s, w)
  BY <1>4, <1>5, <1>6 DEF Tree, role
<1>8. QED BY <1>3, <1>4, <1>7 DEF w

\* Electing and telling are done.
Settles(s, v, force, r) ==
  /\ r.w \in SwitchType /\ Same(v, r.w) /\ Tree(s, r.w)
  /\ v.pending \/ force \/ r.changed => r.w.pending
  /\ ~ v.pending /\ ~ force /\ ~ r.changed => ~ r.w.pending
  /\ r.changed = Changed(v, r.w)
  /\ r.w.mac \in {v.mac, None}

LEMMA RecomputeDoes ==
  ASSUME NEW s \in Switches, NEW v \in SwitchType, Young(v), NEW force \in BOOLEAN
  PROVE  Settles(s, v, force, Recompute(s, v, force))
<1> DEFINE x == WithRoles(s, WithRoot(s, v))
           y == IF MovedTree(v, x) THEN TopologyChange(s, x) ELSE x
           r == Recompute(s, v, force)
<1>1. /\ x \in SwitchType /\ Same(v, x) /\ Tree(s, x) /\ x.pending = v.pending /\ x.mac = v.mac
  BY WithRootDoes, WithRolesDoes DEF Same
<1>2. r.changed = Changed(v, x) /\ r.w = IF Changed(v, x) \/ force THEN Schedule(y) ELSE y
  BY DEF Recompute, Recomputed, Told
<1> HIDE DEF x, r
<1>3. /\ y \in SwitchType /\ Same(x, y) /\ y.role = x.role /\ y.root = x.root /\ y.cost = x.cost
      /\ y.port = x.port /\ y.age = x.age /\ y.pending = x.pending /\ y.mac \in {x.mac, None}
  <2>1. CASE MovedTree(v, x)
    <3> DEFINE n == x.tcSeq + 1
               seen == x.tcSeen \cup {<<s, n>>}
    <3>1. n \in Nat /\ <<s, n>> \in Switches \X Nat /\ seen \in SUBSET (Switches \X Nat)
      BY <1>1 DEF SwitchType
    <3>2. y = [x EXCEPT !.mac = None, !.tcSeq = n, !.tcSeen = seen, !.tcOut = <<s, n>>]
      BY <1>1, <2>1 DEF TopologyChange, Flushed, SwitchType
    <3> HIDE DEF n, seen, y
    <3>3. y \in SwitchType
      BY ZenonT(60), <1>1, <3>1, <3>2 DEF SwitchType
    <3>4. QED BY <1>1, <3>2, <3>3 DEF SwitchType, Same
  <2>2. CASE ~ MovedTree(v, x)
    BY <1>1, <2>2 DEF Same
  <2>3. QED BY <2>1, <2>2
<1> HIDE DEF y
<1>4. /\ r.w \in SwitchType /\ Same(y, r.w) /\ r.w.role = y.role /\ r.w.root = y.root /\ r.w.cost = y.cost
      /\ r.w.port = y.port /\ r.w.age = y.age /\ r.w.mac = y.mac
      /\ r.w.pending = (y.pending \/ force \/ Changed(v, x))
  <2>1. CASE Changed(v, x) \/ force
    <3>1. r.w = [y EXCEPT !.pending = TRUE]
      BY <1>2, <2>1 DEF Schedule
    <3>2. r.w \in SwitchType
      BY <1>3, <3>1 DEF SwitchType
    <3>3. r.w.pending = TRUE
      BY <1>3, <3>1 DEF SwitchType
    <3>4. QED BY ZenonT(60), <1>3, <2>1, <3>1, <3>2, <3>3 DEF SwitchType, Same
  <2>2. CASE ~ (Changed(v, x) \/ force)
    BY <1>2, <1>3, <2>2 DEF Same, SwitchType
  <2>3. QED BY <2>1, <2>2
<1> DEFINE w == r.w
<1>5. w = r.w
  OBVIOUS
<1> HIDE DEF w
<1>6. Same(x, w) /\ Same(v, w)
  BY <1>1, <1>3, <1>4, <1>5 DEF Same
<1>7. w.root = x.root /\ w.cost = x.cost /\ w.port = x.port /\ w.age = x.age /\ w.role = x.role
  BY <1>3, <1>4, <1>5
<1>8. Tree(s, w)
  <2>1. Elected(s, w)
    <3>1. Elected(s, x) /\ Offers(s, w) = Offers(s, x) /\ Me(s, w) = Me(s, x) /\ w.heard = x.heard
          /\ \A l : Offer(w, l) = Offer(x, l)
      BY <1>1, <1>6, SameOffers DEF Tree, Same
    <3>2. QED BY <1>7, <3>1 DEF Elected
  <2>2. \A l : RoleOf(s, w, l) = RoleOf(s, x, l)
    <3>1. \A l : MyVector(s, w, l) = MyVector(s, x, l)
      BY <1>6, <1>7, SameOffers DEF MyVector
    <3>2. w.live = x.live /\ w.heard = x.heard
      BY <1>6 DEF Same
    <3>3. QED BY <1>7, <3>1, <3>2 DEF RoleOf
  <2>3. QED BY <1>1, <1>7, <2>1, <2>2 DEF Tree
<1>9. Changed(v, w) = Changed(v, x)
  BY <1>7, Zenon DEF Changed, NewRoles, LostPort
<1>10. r.changed = Changed(v, w)
  BY <1>2, <1>9
<1>11. w \in SwitchType /\ w.mac \in {v.mac, None} /\ w.pending = (v.pending \/ force \/ Changed(v, x))
  BY <1>1, <1>3, <1>4, <1>5
<1>12. QED BY <1>2, <1>5, <1>6, <1>8, <1>10, <1>11 DEF Settles, r

\* The same switch, as far as its neighbours can tell.
SameSwitch(v, w) ==
  /\ Same(v, w) /\ w.root = v.root /\ w.cost = v.cost /\ w.port = v.port /\ w.age = v.age
  /\ w.role = v.role

LEMMA SameTree ==
  ASSUME NEW s, NEW v, NEW w, SameSwitch(v, w), Tree(s, v)
  PROVE  Tree(s, w)
<1>0. Same(v, w) /\ w.heard = v.heard /\ w.live = v.live
  BY DEF SameSwitch, Same
<1>1. Elected(s, v) /\ Offers(s, w) = Offers(s, v) /\ Me(s, w) = Me(s, v) /\ \A l : Offer(w, l) = Offer(v, l)
  BY <1>0, SameOffers DEF Tree
<1>2. Elected(s, w)
  BY <1>0, <1>1 DEF Elected, SameSwitch
<1>3. \A l : MyVector(s, w, l) = MyVector(s, v, l)
  BY <1>1 DEF MyVector, SameSwitch
<1>4. \A l : RoleOf(s, w, l) = RoleOf(s, v, l)
  BY <1>0, <1>3 DEF RoleOf, SameSwitch
<1>5. QED BY <1>2, <1>4 DEF Tree, SameSwitch

LEMMA HeardTcDoes ==
  ASSUME NEW w \in SwitchType, NEW b \in BpduType
  PROVE  /\ HeardTc(w, b) \in SwitchType /\ SameSwitch(w, HeardTc(w, b))
         /\ w.pending => HeardTc(w, b).pending
<1>1. CASE b.tc = None \/ b.tc \in w.tcSeen
  BY <1>1 DEF HeardTc, SameSwitch, Same
<1>2. CASE ~ (b.tc = None \/ b.tc \in w.tcSeen)
  <2> DEFINE id == b.tc
             seen == w.tcSeen \cup {id}
  <2>1. id \in Switches \X Nat /\ seen \in SUBSET (Switches \X Nat)
    BY <1>2 DEF BpduType, SwitchType
  <2>2. HeardTc(w, b) = [w EXCEPT !.mac = None, !.tcSeen = seen, !.tcOut = id, !.pending = TRUE]
    BY <1>2 DEF HeardTc, Schedule, Flushed, SwitchType
  <2> HIDE DEF seen, id
  <2>3. HeardTc(w, b) \in SwitchType
    BY ZenonT(60), <2>1, <2>2 DEF SwitchType
  <2>4. QED BY <2>2, <2>3 DEF SwitchType, SameSwitch, Same
<1>3. QED BY <1>1, <1>2

\* What is heard on l becomes h.
Hears(w, l, h) == [w EXCEPT !.heard[l] = h]

LEMMA HearsType ==
  ASSUME NEW w \in SwitchType, NEW l \in Links, NEW h \in Heard
  PROVE  /\ Hears(w, l, h) \in SwitchType /\ Hears(w, l, h).heard[l] = h
         /\ \A k \in Links \ {l} : Hears(w, l, h).heard[k] = w.heard[k]
         /\ Hears(w, l, h) = [w EXCEPT !.heard = Hears(w, l, h).heard]
<1> DEFINE g == [w.heard EXCEPT ![l] = h]
<1>1. g \in [Links -> Heard] /\ g[l] = h /\ \A k \in Links \ {l} : g[k] = w.heard[k]
  BY DEF SwitchType
<1>2. Hears(w, l, h) = [w EXCEPT !.heard = g]
  BY DEF Hears, SwitchType
<1> HIDE DEF g
<1>3. [w EXCEPT !.heard = g] \in SwitchType
  BY <1>1 DEF SwitchType
<1>4. [w EXCEPT !.heard = g].heard = g
  BY DEF SwitchType
<1>5. QED BY <1>1, <1>2, <1>3, <1>4

\* A BPDU is refused, or remembered (or forgotten with what was heard, if it is too old).
Believes(s, w, l, b, r) ==
  \/ Refused(w.heard[l], b) /\ r.w = w /\ r.reply = (~ TooOld(b) /\ MustTell(s, w, l, b))
  \/ /\ ~ Refused(w.heard[l], b)
     /\ \E c \in BOOLEAN :
          /\ Settles(s, Hears(w, l, IF TooOld(b) THEN None ELSE b), FALSE, [w |-> r.w, changed |-> c])
          /\ r.reply = (~ TooOld(b) /\ ~ c /\ MustTell(s, r.w, l, b))

LEMMA BelieveDoes ==
  ASSUME NEW s \in Switches, NEW w \in SwitchType, Young(w), NEW l \in Links, NEW b \in BpduType
  PROVE  Believes(s, w, l, b, Believe(s, w, l, b))
<1>1. CASE Refused(w.heard[l], b)
  BY <1>1 DEF Believe, Believes
<1>2. CASE ~ Refused(w.heard[l], b)
  <2> DEFINE h == IF TooOld(b) THEN None ELSE b
             x == Hears(w, l, h)
             q == Recompute(s, x, FALSE)
             r == Believe(s, w, l, b)
  <2>1. h \in Heard /\ (h # None => h.age <= MaxAge)
    BY StpAssumption DEF Heard, TooOld, BpduType
  <2>2. r = Replied(s, l, b, q)
    BY <1>2 DEF Believe, Hears
  <2> HIDE DEF h
  <2>3. x \in SwitchType /\ Young(x)
    BY <2>1, HearsType DEF Young
  <2> HIDE DEF x
  <2>4. Settles(s, x, FALSE, q)
    BY <2>3, RecomputeDoes
  <2> HIDE DEF q, r
  <2>5. r.w = q.w /\ r.reply = (~ TooOld(b) /\ ~ q.changed /\ MustTell(s, q.w, l, b))
    BY <2>2 DEF Replied
  <2>6. q.changed \in BOOLEAN
    BY <2>4 DEF Settles, Changed
  <2>7. Settles(s, x, FALSE, [w |-> r.w, changed |-> q.changed])
    BY <2>4, <2>5 DEF Settles
  <2>8. \E c \in BOOLEAN :
          /\ Settles(s, x, FALSE, [w |-> r.w, changed |-> c])
          /\ r.reply = (~ TooOld(b) /\ ~ c /\ MustTell(s, r.w, l, b))
    BY <2>5, <2>6, <2>7
  <2>9. QED BY <1>2, <2>8 DEF Believes, x, h, r
<1>3. QED BY <1>1, <1>2

\* The state of a switch fits its place.
Fit(s, w) ==
  /\ w.live \subseteq Ports(s) /\ Young(w)
  /\ w.on => w.port \in w.live \cup {None}

\* After an election.
LEMMA SettledFits ==
  ASSUME NEW s \in Switches, NEW v \in SwitchType, v.live \subseteq Ports(s), Young(v),
         NEW force, NEW r, Settles(s, v, force, r)
  PROVE  r.w \in SwitchType /\ Fit(s, r.w) /\ r.w.on = v.on /\ (v.pending => r.w.pending)
<1> DEFINE w == r.w
<1>1. w \in SwitchType /\ Same(v, w) /\ Elected(s, w) /\ (v.pending => w.pending)
  BY DEF Settles, Tree
<1>2. w.live \subseteq Ports(s) /\ Young(w) /\ w.on = v.on
  BY <1>1 DEF Same, Young
<1>3. w.port \in w.live \cup {None}
  BY <1>1 DEF Elected, Offers
<1>4. QED BY <1>1, <1>2, <1>3 DEF Fit

LEMMA HandleFits ==
  ASSUME NEW s \in Switches, NEW w \in SwitchType, Fit(s, w), NEW l \in Links, NEW b \in BpduType
  PROVE  /\ Handle(s, w, l, b).w \in SwitchType /\ Fit(s, Handle(s, w, l, b).w)
         /\ Handle(s, w, l, b).w.on = w.on /\ (w.pending => Handle(s, w, l, b).w.pending)
<1> DEFINE x == HeardTc(w, b)
           r == Believe(s, x, l, b)
<1>1. x \in SwitchType /\ SameSwitch(w, x) /\ (w.pending => x.pending)
  BY HeardTcDoes
<1> HIDE DEF x
<1>2. Fit(s, x) /\ Young(x) /\ x.on = w.on /\ x.live \subseteq Ports(s)
  BY <1>1 DEF Fit, Young, SameSwitch, Same
<1>3. Believes(s, x, l, b, r)
  BY <1>1, <1>2, BelieveDoes
<1>4. Handle(s, w, l, b) = r
  BY DEF Handle, x
<1> HIDE DEF r
<1>5. CASE r.w = x
  BY <1>1, <1>2, <1>4, <1>5
<1>6. CASE r.w # x
  <2> DEFINE h == IF TooOld(b) THEN None ELSE b
             y == Hears(x, l, h)
  <2>1. PICK c \in BOOLEAN : Settles(s, y, FALSE, [w |-> r.w, changed |-> c])
    BY <1>3, <1>6 DEF Believes
  <2>2. h \in Heard /\ (h # None => h.age <= MaxAge)
    BY StpAssumption DEF Heard, TooOld, BpduType
  <2> HIDE DEF h
  <2>3. y \in SwitchType /\ Young(y) /\ y.live = x.live /\ y.on = x.on /\ y.pending = x.pending
    <3>1. /\ y \in SwitchType /\ y.heard[l] = h /\ \A k \in Links \ {l} : y.heard[k] = x.heard[k]
          /\ y = [x EXCEPT !.heard = y.heard]
      BY <1>1, <2>2, HearsType
    <3> HIDE DEF y
    <3>2. Young(y)
      BY <1>2, <2>2, <3>1 DEF Young
    <3>3. QED BY <1>1, <3>1, <3>2 DEF SwitchType
  <2> HIDE DEF y
  <2> DEFINE q == [w |-> r.w, changed |-> c]
  <2>4. Settles(s, y, FALSE, q) /\ q.w = r.w
    BY <2>1
  <2> HIDE DEF q
  <2>5. r.w \in SwitchType /\ Fit(s, r.w) /\ r.w.on = y.on /\ (y.pending => r.w.pending)
    <3>1. y.live \subseteq Ports(s) /\ y \in SwitchType /\ Young(y)
      BY <1>2, <2>3
    <3>2. q.w \in SwitchType /\ Fit(s, q.w) /\ q.w.on = y.on /\ (y.pending => q.w.pending)
      BY <2>4, <3>1, SettledFits
    <3>3. QED BY <2>4, <3>2
  <2>6. QED BY <1>1, <1>2, <1>4, <2>3, <2>5
<1>7. QED BY <1>5, <1>6

LEMMA RelinkedFits ==
  ASSUME NEW s \in Switches, NEW w \in SwitchType, w.live \subseteq Ports(s), Young(w), NEW force \in BOOLEAN
  PROVE  /\ Relinked(s, w, force) \in SwitchType /\ Fit(s, Relinked(s, w, force))
         /\ Relinked(s, w, force).on = w.on /\ (w.pending => Relinked(s, w, force).pending)
<1>1. CASE w.on
  <2> DEFINE r == Recompute(s, w, force)
  <2>1. Settles(s, w, force, r)
    BY RecomputeDoes
  <2>2. Relinked(s, w, force) = r.w
    BY <1>1 DEF Relinked
  <2> HIDE DEF r
  <2>3. QED BY <2>1, <2>2, SettledFits
<1>2. CASE ~ w.on
  BY <1>2 DEF Relinked, Fit
<1>3. QED BY <1>1, <1>2

\* A switch that is reconfigured has forgotten what it heard.
Blank(w, on, prio) ==
  [w EXCEPT !.on = on, !.prio = prio, !.heard = [l \in Links |-> None], !.role = [l \in Links |-> "none"]]

LEMMA BlankType ==
  ASSUME NEW w \in SwitchType, NEW on \in BOOLEAN, NEW prio \in Nat
  PROVE  /\ Blank(w, on, prio) \in SwitchType /\ Young(Blank(w, on, prio))
         /\ Blank(w, on, prio).live = w.live /\ Blank(w, on, prio).on = on
         /\ Blank(w, on, prio).pending = w.pending /\ Blank(w, on, prio).prio = prio
         /\ \A l \in Links : Blank(w, on, prio).heard[l] = None
<1> DEFINE h == [l \in Links |-> None]
           r == [l \in Links |-> "none"]
           b == Blank(w, on, prio)
<1>1. h \in [Links -> Heard] /\ r \in [Links -> Roles] /\ \A l \in Links : h[l] = None
  BY DEF Heard, Roles
<1>2. b = [w EXCEPT !.on = on, !.prio = prio, !.heard = h, !.role = r]
  BY DEF Blank
<1> HIDE DEF h, r, b
<1>3. b \in SwitchType
  BY <1>1, <1>2 DEF SwitchType
<1>4. b.live = w.live /\ b.on = on /\ b.pending = w.pending /\ b.prio = prio /\ b.heard = h
  BY <1>2 DEF SwitchType
<1>5. Young(b) /\ \A l \in Links : b.heard[l] = None
  BY <1>1, <1>4 DEF Young
<1>6. QED BY <1>3, <1>4, <1>5 DEF b

LEMMA SetConfigDoes ==
  ASSUME NEW s \in Switches, NEW w \in SwitchType, NEW on \in BOOLEAN, NEW prio \in Nat
  PROVE  /\ SetConfig(s, w, on, prio).said = w.on
         /\ on = TRUE => SetConfig(s, w, on, prio).w = Recompute(s, Blank(w, on, prio), TRUE).w
         /\ on = FALSE => SetConfig(s, w, on, prio).w = Blank(w, on, prio)
<1> DEFINE b == Blank(w, on, prio)
           r == Recompute(s, b, TRUE).w
           c == SetConfig(s, w, on, prio)
<1>1. c = [w |-> IF on THEN r ELSE b, said |-> w.on]
  BY DEF SetConfig, Blank
<1> HIDE DEF b, r, c
<1>2. c.said = w.on /\ (on = TRUE => c.w = r) /\ (on = FALSE => c.w = b)
  BY <1>1
<1>3. QED BY <1>2 DEF b, r, c

LEMMA SetConfigFits ==
  ASSUME NEW s \in Switches, NEW w \in SwitchType, w.live \subseteq Ports(s), NEW on \in BOOLEAN, NEW prio \in Nat
  PROVE  /\ SetConfig(s, w, on, prio).w \in SwitchType /\ Fit(s, SetConfig(s, w, on, prio).w)
         /\ (w.pending => SetConfig(s, w, on, prio).w.pending)
         /\ SetConfig(s, w, on, prio).w.on = on
<1> DEFINE b == Blank(w, on, prio)
           x == SetConfig(s, w, on, prio).w
<1>1. b \in SwitchType /\ Young(b) /\ b.live \subseteq Ports(s) /\ b.on = on /\ b.pending = w.pending
  BY BlankType
<1>2. on = TRUE => SetConfig(s, w, on, prio).w = Recompute(s, Blank(w, on, prio), TRUE).w
  BY SetConfigDoes
<1>6. on = FALSE => SetConfig(s, w, on, prio).w = Blank(w, on, prio)
  BY SetConfigDoes
<1>7. (on = TRUE => x = Recompute(s, b, TRUE).w) /\ (on = FALSE => x = b)
  BY <1>2, <1>6
<1> HIDE DEF b, x
<1>3. CASE on = TRUE
  <2> DEFINE r == Recompute(s, b, TRUE)
  <2>1. Settles(s, b, TRUE, r) /\ x = r.w
    BY <1>1, <1>3, <1>7, RecomputeDoes
  <2> HIDE DEF r
  <2>2. r.w \in SwitchType /\ Fit(s, r.w) /\ r.w.on = b.on /\ (b.pending => r.w.pending)
    BY <1>1, <2>1, SettledFits
  <2>3. QED BY <1>1, <2>1, <2>2 DEF x
<1>4. CASE on = FALSE
  <2>1. x = b
    BY <1>4, <1>7
  <2>2. Fit(s, b)
    BY <1>1, <1>4 DEF Fit
  <2>3. QED BY <1>1, <2>1, <2>2 DEF x
<1>5. QED BY <1>3, <1>4

\* A cable is unplugged from a switch, or plugged in.
Unplugged(w, l) ==
  [w EXCEPT !.live = @ \ {l}, !.mac = IF @ = l THEN None ELSE @, !.heard[l] = IF w.on THEN None ELSE @]

PluggedIn(w, l) == [w EXCEPT !.live = @ \cup {l}]

LEMMA UnpluggedType ==
  ASSUME NEW w \in SwitchType, NEW l \in Links, Young(w)
  PROVE  /\ Unplugged(w, l) \in SwitchType /\ Young(Unplugged(w, l))
         /\ Unplugged(w, l).live = w.live \ {l} /\ Unplugged(w, l).on = w.on
         /\ Unplugged(w, l).prio = w.prio /\ Unplugged(w, l).pending = w.pending
         /\ Unplugged(w, l).root = w.root /\ Unplugged(w, l).cost = w.cost
         /\ Unplugged(w, l).age = w.age /\ Unplugged(w, l).role = w.role
         /\ \A k \in Links \ {l} : Unplugged(w, l).heard[k] = w.heard[k]
         /\ w.on => Unplugged(w, l).heard[l] = None
<1> DEFINE h == IF w.on THEN None ELSE w.heard[l]
           g == [w.heard EXCEPT ![l] = h]
           m == IF w.mac = l THEN None ELSE w.mac
           live == w.live \ {l}
           u == Unplugged(w, l)
<1>1. /\ g \in [Links -> Heard] /\ g[l] = h /\ (\A k \in Links \ {l} : g[k] = w.heard[k])
      /\ (w.on => h = None) /\ h \in {w.heard[l], None}
      /\ m \in Links \cup {StationPort, None} /\ live \in SUBSET Links
  BY DEF SwitchType, Heard
<1>2. u = [w EXCEPT !.live = live, !.mac = m, !.heard = g]
  BY DEF SwitchType, Unplugged
<1> HIDE DEF g, m, u, h
<1>3. u \in SwitchType
  BY <1>1, <1>2 DEF SwitchType
<1>4. /\ u.live = w.live \ {l} /\ u.on = w.on /\ u.prio = w.prio /\ u.pending = w.pending /\ u.heard = g
      /\ u.root = w.root /\ u.cost = w.cost /\ u.age = w.age /\ u.role = w.role
  BY <1>2 DEF SwitchType
<1>5. Young(u)
  BY <1>1, <1>4 DEF Young
<1>6. QED BY <1>1, <1>3, <1>4, <1>5 DEF u

LEMMA PluggedInType ==
  ASSUME NEW w \in SwitchType, NEW l \in Links, Young(w)
  PROVE  /\ PluggedIn(w, l) \in SwitchType /\ Young(PluggedIn(w, l))
         /\ PluggedIn(w, l) = [w EXCEPT !.live = PluggedIn(w, l).live]
         /\ PluggedIn(w, l).live = w.live \cup {l}
<1> DEFINE live == w.live \cup {l}
           u == PluggedIn(w, l)
<1>1. live \in SUBSET Links
  BY DEF SwitchType
<1>2. u = [w EXCEPT !.live = live]
  BY DEF SwitchType, PluggedIn
<1> HIDE DEF live, u
<1>3. u \in SwitchType /\ u.live = live /\ u.heard = w.heard
  BY <1>1, <1>2 DEF SwitchType
<1>4. Young(u)
  BY <1>3 DEF Young
<1>5. QED BY <1>2, <1>3, <1>4 DEF live, u

-------------------------------------------------------------------------------
(* What is sent *)

LEMMA OtherEnd ==
  ASSUME NEW s \in Switches, NEW l \in Ports(s)
  PROVE  /\ l \in Links /\ Other(l, s) \in Switches /\ Other(l, s) # s
         /\ l \in Ports(Other(l, s)) /\ Other(l, Other(l, s)) = s
         /\ {End1[l], End2[l]} = {s, Other(l, s)}
BY StpAssumption DEF Ports, Other

FrameTo(s, l, b) == [to |-> Other(l, s), on |-> l, is |-> b, via |-> {}]

\* Frames puts one frame on each of the ports.
OnePerPort(s, ls, what, out) ==
  /\ out \in Seq(FrameType)
  /\ \A i \in DOMAIN out : out[i].on \in ls /\ out[i] = FrameTo(s, out[i].on, what[out[i].on])
  /\ \A i, j \in DOMAIN out : i # j => out[i].on # out[j].on
  /\ \A l \in ls : \E i \in DOMAIN out : out[i].on = l

LEMMA FramesAre ==
  ASSUME NEW s \in Switches, NEW ls \in SUBSET Ports(s), NEW what,
         \A l \in ls : what[l] \in BpduType \cup DataType
  PROVE  OnePerPort(s, ls, what, Frames(s, ls, what))
<1> DEFINE n == Cardinality(ls)
           q == Ascending(ls)
           out == Frames(s, ls, what)
<1>0. ls \in SUBSET Nat /\ IsFiniteSet(ls)
  BY StpAssumption, FS_Subset DEF Ports
<1>1. /\ n \in Nat /\ q \in [1 .. n -> ls]
      /\ \A i, j \in 1 .. n : i # j => q[i] # q[j]
      /\ \A l \in ls : \E i \in 1 .. n : q[i] = l
  BY <1>0, AscendingFacts
<1>2. out = [i \in 1 .. n |-> FrameTo(s, q[i], what[q[i]])]
  BY DEF Frames, FrameTo
<1> HIDE DEF n, q, out
<1>3. \A l \in ls : FrameTo(s, l, what[l]) \in FrameType /\ FrameTo(s, l, what[l]).on = l
  <2> SUFFICES ASSUME NEW l \in ls
               PROVE  FrameTo(s, l, what[l]) \in FrameType /\ FrameTo(s, l, what[l]).on = l
    OBVIOUS
  <2> DEFINE b == what[l]
             t == Other(l, s)
  <2>1. t \in Switches /\ l \in Links /\ b \in BpduType \cup DataType
    BY OtherEnd
  <2>2. FrameTo(s, l, b) = [to |-> t, on |-> l, is |-> b, via |-> {}]
    BY DEF FrameTo
  <2> HIDE DEF b, t
  <2>3. FrameTo(s, l, b) \in FrameType /\ FrameTo(s, l, b).on = l
    BY <2>1, <2>2 DEF FrameType
  <2>4. QED BY <2>3 DEF b
<1>4. \A i \in 1 .. n : q[i] \in ls /\ out[i] = FrameTo(s, q[i], what[q[i]]) /\ out[i] \in FrameType
                          /\ out[i].on = q[i]
  BY <1>1, <1>2, <1>3
<1>5. DOMAIN out = 1 .. n
  BY <1>2
<1>6. out \in Seq(FrameType)
  <2>1. out = [i \in 1 .. n |-> out[i]]
    BY <1>2, <1>5
  <2>2. out \in [1 .. n -> FrameType]
    BY <1>4, <2>1
  <2>3. QED BY <1>1, <2>2, SeqDef
<1>7. QED BY <1>1, <1>4, <1>5, <1>6 DEF OnePerPort, out

LEMMA BpdusAre ==
  ASSUME NEW s \in Switches, NEW w \in SwitchType, NEW l \in Links
  PROVE  Bpdu(s, w, l) \in BpduType /\ Withdrawal(s, w, l) \in BpduType
<1> DEFINE m == Me(s, w)
           a == w.age
           r == w.root
           c == w.cost
           t == w.tcOut
<1>1. /\ m \in Nat /\ a \in 0 .. MaxAge + 1 /\ r \in Nat /\ c \in Nat
      /\ t \in (Switches \X Nat) \cup {None} /\ MaxAge + 1 \in 0 .. MaxAge + 1
  BY MeType, StpAssumption DEF SwitchType
<1>2. /\ Bpdu(s, w, l) = [kind |-> "bpdu", root |-> r, cost |-> c, bridge |-> m, port |-> l, age |-> a, tc |-> t]
      /\ Withdrawal(s, w, l) = [kind |-> "bpdu", root |-> m, cost |-> 0, bridge |-> m, port |-> l,
                                age |-> MaxAge + 1, tc |-> None]
  BY DEF Bpdu, Withdrawal
<1> HIDE DEF m, a, r, c, t
<1>3. QED BY <1>1, <1>2 DEF BpduType

-------------------------------------------------------------------------------
(* The inductive invariants *)

Frame(f) == f \in FrameType /\ f.on \in Ports(f.to)

SwInv(S) == S \in [Switches -> SwitchType] /\ \A s \in Switches : Fit(s, S[s])

AirInv(q) == q \in Seq(FrameType \cup {Tick}) /\ \A i \in DOMAIN q : q[i] # Tick => Frame(q[i])

DueInv(S, d) ==
  d \in Seq(Switches) /\ \A s \in Switches : S[s].pending => \E i \in DOMAIN d : d[i] = s

TInv ==
  /\ SwInv(sw) /\ AirInv(air) /\ DueInv(sw, due)
  /\ edits \in Nat /\ frames \in 0 .. MaxFrames /\ stopped \in BOOLEAN

\* The BPDUs on their way to s on cable l, by their places in the queue q.
Mine(q, s, l) == {i \in DOMAIN q : q[i].to = s /\ q[i].on = l /\ q[i].is.kind = "bpdu"}

FirstOf(q, s, l, j)   == j \in Mine(q, s, l) /\ \A k \in Mine(q, s, l) : ~ (k < j)
LastOf(q, s, l, i)    == i \in Mine(q, s, l) /\ \A k \in Mine(q, s, l) : ~ (i < k)
NextOf(q, s, l, i, j) ==
  i \in Mine(q, s, l) /\ j \in Mine(q, s, l) /\ i < j /\ \A k \in Mine(q, s, l) : ~ (i < k /\ k < j)

\* What a BPDU tells at the port l, unless it withdraws what was told before.
Proper(b, l) == b.port = l /\ (b.age <= MaxAge => b.cost = PortCost * b.age)

\* b says what switch t, in state v, thinks.
Says(b, t, v) == b.root = v.root /\ b.cost = v.cost /\ b.bridge = Me(t, v) /\ b.age = v.age

\* What s, in state w, has heard of t, in state v, over cable l, and what is still
\* under way in q: a sender changes its identity only after a withdrawal, and the
\* last one says what the sender thinks unless the sender is going to speak again.
Channel(w, v, q, s, t, l) ==
  /\ l \notin w.live => w.heard[l] = None /\ Mine(q, s, l) = {}
  /\ w.heard[l] # None => Proper(w.heard[l], l)
  /\ \A i \in Mine(q, s, l) : Proper(q[i].is, l)
  /\ \A i, j \in Mine(q, s, l) : NextOf(q, s, l, i, j) => q[i].is.bridge = q[j].is.bridge \/ TooOld(q[i].is)
  /\ \A j \in Mine(q, s, l) : FirstOf(q, s, l, j) /\ w.heard[l] # None => w.heard[l].bridge = q[j].is.bridge
  /\ \A i \in Mine(q, s, l) : LastOf(q, s, l, i) =>
        /\ q[i].is.bridge = Me(t, v) \/ TooOld(q[i].is)
        /\ ~ v.pending => Says(q[i].is, t, v)
  /\ Mine(q, s, l) = {} /\ w.heard[l] # None =>
        /\ w.heard[l].bridge = Me(t, v)
        /\ ~ v.pending => Says(w.heard[l], t, v)

\* If s has heard nothing of t, t is too far from its root, or has nothing better to
\* say, or has not heard s yet and will answer it.
Answered(w, v, q, s, t, l) ==
  l \in w.live /\ w.heard[l] = None /\ Mine(q, s, l) = {} /\ ~ v.pending =>
     \/ v.age > MaxAge \/ v.role[l] # "designated"
     \/ w.pending \/ w.age > MaxAge \/ Mine(q, t, l) # {}

\* While all switches have run the tree from the start.
Talking(S, q) ==
  /\ \A s \in Switches : S[s].on /\ Tree(s, S[s]) /\ S[s].cost = PortCost * S[s].age
  /\ \A l \in Links : l \in S[End1[l]].live <=> l \in S[End2[l]].live
  /\ \A s \in Switches : \A l \in Ports(s) :
        /\ Channel(S[s], S[Other(l, s)], q, s, Other(l, s), l)
        /\ Answered(S[s], S[Other(l, s)], q, s, Other(l, s), l)

TreeInv == ~ stopped => Talking(sw, air)
-------------------------------------------------------------------------------
(* The types are kept *)

LEMMA SwKeeps ==
  ASSUME NEW S, SwInv(S), NEW s \in Switches, NEW w \in SwitchType, Fit(s, w)
  PROVE  /\ SwInv([S EXCEPT ![s] = w]) /\ [S EXCEPT ![s] = w][s] = w
         /\ \A t \in Switches \ {s} : [S EXCEPT ![s] = w][t] = S[t]
<1> DEFINE T == [S EXCEPT ![s] = w]
<1>1. T \in [Switches -> SwitchType] /\ T[s] = w /\ \A t \in Switches \ {s} : T[t] = S[t]
  BY DEF SwInv
<1> HIDE DEF T
<1>2. \A t \in Switches : Fit(t, T[t])
  BY <1>1 DEF SwInv
<1>3. QED BY <1>1, <1>2 DEF SwInv, T

LEMMA DueKeeps ==
  ASSUME NEW S, NEW T, NEW d, DueInv(S, d), NEW s \in Switches, S[s].pending => T[s].pending,
         \A t \in Switches \ {s} : T[t] = S[t]
  PROVE  DueInv(T, IF T[s].pending /\ ~ S[s].pending THEN Append(d, s) ELSE d)
<1>1. CASE T[s].pending /\ ~ S[s].pending
  <2> DEFINE e == Append(d, s)
  <2>1. e \in Seq(Switches) /\ Len(e) = Len(d) + 1 /\ e[Len(e)] = s /\ \A i \in 1 .. Len(d) : e[i] = d[i]
    BY DEF DueInv
  <2>2. Len(d) \in Nat /\ DOMAIN d = 1 .. Len(d) /\ DOMAIN e = 1 .. Len(e)
    BY <2>1 DEF DueInv
  <2> HIDE DEF e
  <2>3. ASSUME NEW t \in Switches, T[t].pending PROVE \E i \in DOMAIN e : e[i] = t
    <3>1. CASE t = s
      BY <2>1, <2>2, <3>1
    <3>2. CASE t # s
      <4>1. PICK i \in DOMAIN d : d[i] = t
        BY <2>3, <3>2 DEF DueInv
      <4>2. i \in DOMAIN e /\ e[i] = t
        BY <2>1, <2>2, <4>1
      <4>3. QED BY <4>2
    <3>3. QED BY <3>1, <3>2
  <2>4. QED BY <1>1, <2>1, <2>3 DEF DueInv, e
<1>2. CASE ~ (T[s].pending /\ ~ S[s].pending)
  <2>1. \A t \in Switches : T[t].pending => S[t].pending
    BY <1>2
  <2>2. QED BY <1>2, <2>1 DEF DueInv
<1>3. QED BY <1>1, <1>2

LEMMA AirHead ==
  ASSUME NEW q, AirInv(q), q # <<>>
  PROVE  /\ AirInv(Tail(q)) /\ (Head(q).is.kind # "tick" => Frame(Head(q)))
         /\ Head(q) = q[1] /\ Len(Tail(q)) = Len(q) - 1 /\ \A i \in DOMAIN Tail(q) : Tail(q)[i] = q[i + 1]
<1> DEFINE T == FrameType \cup {Tick}
<1>1. q \in Seq(T)
  BY DEF AirInv
<1> HIDE DEF T
<1>2. Tail(q) \in Seq(T) /\ Head(q) = q[1] /\ Len(Tail(q)) = Len(q) - 1 /\ 1 \in DOMAIN q
      /\ \A i \in DOMAIN Tail(q) : Tail(q)[i] = q[i + 1] /\ i + 1 \in DOMAIN q
  BY <1>1
<1>3. AirInv(Tail(q))
  BY <1>2 DEF AirInv, T
<1>4. Head(q).is.kind # "tick" => Frame(Head(q))
  BY <1>2 DEF AirInv, Tick
<1>5. QED BY <1>2, <1>3, <1>4

LEMMA AirAppends ==
  ASSUME NEW q, AirInv(q), NEW out, AirInv(out)
  PROVE  AirInv(q \o out)
<1> DEFINE T == FrameType \cup {Tick}
<1>1. q \in Seq(T) /\ out \in Seq(T)
  BY DEF AirInv
<1> HIDE DEF T
<1>2. /\ q \o out \in Seq(T) /\ Len(q \o out) = Len(q) + Len(out)
      /\ \A i \in DOMAIN (q \o out) : (q \o out)[i] = IF i <= Len(q) THEN q[i] ELSE out[i - Len(q)]
  BY <1>1, ConcatProperties
<1>3. Len(q) \in Nat /\ Len(out) \in Nat /\ DOMAIN q = 1 .. Len(q) /\ DOMAIN out = 1 .. Len(out)
      /\ DOMAIN (q \o out) = 1 .. Len(q \o out)
  BY <1>1, <1>2
<1>4. ASSUME NEW i \in DOMAIN (q \o out), (q \o out)[i] # Tick PROVE Frame((q \o out)[i])
  <2>1. CASE i <= Len(q)
    BY <1>2, <1>3, <1>4, <2>1 DEF AirInv
  <2>2. CASE ~ (i <= Len(q))
    <3>1. i - Len(q) \in DOMAIN out /\ (q \o out)[i] = out[i - Len(q)]
      BY <1>2, <1>3, <2>2
    <3>2. QED BY <1>4, <3>1 DEF AirInv
  <2>3. QED BY <2>1, <2>2
<1>5. QED BY <1>2, <1>4 DEF AirInv, T

LEMMA AirTick ==
  ASSUME NEW q, AirInv(q)
  PROVE  /\ AirInv(Append(q, Tick)) /\ Len(Append(q, Tick)) = Len(q) + 1
         /\ Append(q, Tick)[Len(q) + 1] = Tick /\ \A i \in DOMAIN q : Append(q, Tick)[i] = q[i]
<1> DEFINE T == FrameType \cup {Tick}
           p == Append(q, Tick)
<1>1. q \in Seq(T) /\ Tick \in T
  BY DEF AirInv
<1> HIDE DEF T
<1>2. p \in Seq(T) /\ Len(p) = Len(q) + 1 /\ p[Len(q) + 1] = Tick /\ (\A i \in 1 .. Len(q) : p[i] = q[i])
      /\ Len(q) \in Nat /\ DOMAIN q = 1 .. Len(q)
  BY <1>1
<1> HIDE DEF p
<1>3. \A i \in DOMAIN p : i = Len(q) + 1 \/ i \in DOMAIN q
  BY <1>2
<1>4. AirInv(p)
  BY <1>2, <1>3 DEF AirInv, T
<1>5. QED BY <1>2, <1>4 DEF p

LEMMA SentFrames ==
  ASSUME NEW s \in Switches, NEW ls \in SUBSET Ports(s), NEW what, NEW out, OnePerPort(s, ls, what, out)
  PROVE  AirInv(out) /\ \A i \in DOMAIN out : out[i].to = Other(out[i].on, s) /\ out[i].is = what[out[i].on]
<1>1. out \in Seq(FrameType \cup {Tick})
  BY SeqMonotonic DEF OnePerPort
<1>2. ASSUME NEW i \in DOMAIN out
      PROVE  Frame(out[i]) /\ out[i].to = Other(out[i].on, s) /\ out[i].is = what[out[i].on]
  <2> DEFINE l == out[i].on
  <2>1. l \in ls /\ out[i] = FrameTo(s, l, what[l]) /\ out[i] \in FrameType
    BY <1>2, ElementOfSeq DEF OnePerPort
  <2> HIDE DEF l
  <2>2. l \in Ports(Other(l, s))
    BY <2>1, OtherEnd
  <2>3. QED BY <2>1, <2>2 DEF Frame, FrameTo, l
<1>3. QED BY <1>1, <1>2 DEF AirInv

LEMMA EmptyAir == AirInv(<<>>)
BY DEF AirInv

LEMMA SwitchesFinite == IsFiniteSet(Switches) /\ Switches \in SUBSET Nat
<1>1. MaxMac \in Nat /\ Switches \subseteq 1 .. MaxMac
  BY StpAssumption
<1>2. IsFiniteSet(1 .. MaxMac)
  BY <1>1, FS_Interval
<1>3. Switches \in SUBSET Nat
  BY <1>1
<1>4. IsFiniteSet(Switches)
  BY <1>1, <1>2, FS_Subset
<1>5. QED BY <1>3, <1>4

\* A new switch, and one whose cables have been plugged in.
Plain(s) == SetConfig(s, NewSwitch, TRUE, DefaultPrio).w
Wired(s) == [Plain(s) EXCEPT !.live = Ports(s)]

LEMMA NewSwitchFits ==
  ASSUME NEW s \in Switches
  PROVE  /\ Plain(s) \in SwitchType /\ Plain(s).on /\ Wired(s) \in SwitchType /\ Young(Wired(s)) /\ Wired(s).on
         /\ Wired(s).live = Ports(s) /\ \A l \in Links : Wired(s).heard[l] = None
<1> DEFINE h == [l \in Links |-> None]
           r == [l \in Links |-> "none"]
           n == NewSwitch
<1>1. h \in [Links -> Heard] /\ r \in [Links -> Roles] /\ \A l \in Links : h[l] = None
  BY DEF Heard, Roles
<1>2. n = [on |-> FALSE, prio |-> DefaultPrio, live |-> {}, heard |-> h, role |-> r, root |-> 0, cost |-> 0,
           port |-> None, age |-> 0, pending |-> FALSE, tcSeq |-> 0, tcSeen |-> {}, tcOut |-> None,
           mac |-> None, seen |-> {}]
  BY DEF NewSwitch
<1>3. DefaultPrio \in Nat /\ 0 \in 0 .. MaxAge + 1
  BY StpAssumption
<1> HIDE DEF h, r, n
<1>4. n \in SwitchType /\ n.live = {}
  BY <1>1, <1>2, <1>3 DEF SwitchType
<1> DEFINE b == Blank(n, TRUE, DefaultPrio)
           p == Plain(s)
           t == Recompute(s, b, TRUE)
<1>5. b \in SwitchType /\ Young(b) /\ b.on /\ \A l \in Links : b.heard[l] = None
  BY <1>3, <1>4, BlankType
<1>6. SetConfig(s, n, TRUE, DefaultPrio).w = Recompute(s, Blank(n, TRUE, DefaultPrio), TRUE).w
  BY <1>3, <1>4, SetConfigDoes
<1>7. p = t.w
  BY <1>6 DEF Plain, n
<1> HIDE DEF b, p, t
<1>8. Settles(s, b, TRUE, t)
  BY <1>5, RecomputeDoes DEF t
<1>9. p \in SwitchType /\ p.on /\ p.heard = b.heard
  BY <1>5, <1>7, <1>8 DEF Settles, Same
<1> DEFINE v == Wired(s)
           live == Ports(s)
<1>10. v = [p EXCEPT !.live = live] /\ live \in SUBSET Links
  BY DEF Wired, p, Ports
<1> HIDE DEF v, live
<1>11. v \in SwitchType /\ v.on /\ v.live = live /\ v.heard = b.heard
  BY <1>9, <1>10 DEF SwitchType
<1>12. QED BY <1>5, <1>9, <1>11 DEF Young, v, live, p

LEMMA InitType == Init => TInv
<1> SUFFICES ASSUME Init PROVE TInv
  OBVIOUS
<1>1. sw = [s \in Switches |-> Recompute(s, Wired(s), TRUE).w]
  BY DEF Init, Wired, Plain
<1>2. ASSUME NEW s \in Switches
      PROVE  Recompute(s, Wired(s), TRUE).w \in SwitchType /\ Fit(s, Recompute(s, Wired(s), TRUE).w)
  <2> DEFINE v == Wired(s)
             r == Recompute(s, v, TRUE)
  <2>1. v \in SwitchType /\ Young(v) /\ v.live \subseteq Ports(s)
    BY NewSwitchFits
  <2> HIDE DEF v
  <2>2. Settles(s, v, TRUE, r)
    BY <2>1, RecomputeDoes
  <2> HIDE DEF r
  <2>3. r.w \in SwitchType /\ Fit(s, r.w)
    BY <2>1, <2>2, SettledFits
  <2>4. QED BY <2>3 DEF r, v
<1>3. SwInv(sw)
  BY <1>1, <1>2 DEF SwInv
<1>4. AirInv(air)
  <2> DEFINE e == <<>>
  <2>1. AirInv(e)
    BY EmptyAir
  <2>2. AirInv(Append(e, Tick))
    BY <2>1, AirTick
  <2>3. QED BY <2>2 DEF Init
<1>5. DueInv(sw, due)
  <2> DEFINE n == Cardinality(Switches)
  <2>1. n \in Nat /\ due \in [1 .. n -> Switches] /\ \A s \in Switches : \E i \in 1 .. n : due[i] = s
    BY SwitchesFinite, AscendingFacts DEF Init
  <2> HIDE DEF n
  <2>2. due \in Seq(Switches) /\ DOMAIN due = 1 .. n
    BY <2>1, SeqDef
  <2>3. QED BY <2>1, <2>2 DEF DueInv
<1>6. edits = 0 /\ frames = 0 /\ stopped \in BOOLEAN
  BY DEF Init
<1>7. edits \in Nat /\ frames \in 0 .. MaxFrames
  BY <1>6, StpAssumption
<1>8. QED BY <1>3, <1>4, <1>5, <1>6, <1>7 DEF TInv

LEMMA WorkedTypes ==
  ASSUME TInv, NEW s \in Switches, NEW w \in SwitchType, Fit(s, w), sw[s].pending => w.pending
  PROVE  /\ SwInv([sw EXCEPT ![s] = w])
         /\ DueInv([sw EXCEPT ![s] = w], IF w.pending /\ ~ sw[s].pending THEN Append(due, s) ELSE due)
<1> DEFINE T == [sw EXCEPT ![s] = w]
<1>1. SwInv(T) /\ T[s] = w /\ \A t \in Switches \ {s} : T[t] = sw[t]
  BY SwKeeps DEF TInv
<1> HIDE DEF T
<1>2. DueInv(T, IF T[s].pending /\ ~ sw[s].pending THEN Append(due, s) ELSE due)
  BY <1>1, DueKeeps DEF TInv
<1>3. QED BY <1>1, <1>2 DEF T

LEMMA SendTimerType ==
  ASSUME TInv, SendTimer PROVE TInv'
<1> DEFINE s == Head(due)
           w == sw[s]
           x == [w EXCEPT !.pending = FALSE, !.tcOut = IF w.on THEN None ELSE @]
           ls == {l \in w.live : w.role[l] # "none"}
           what == [l \in w.live |-> Bpdu(s, w, l)]
           out == Frames(s, ls, what)
<1>1. due # <<>> /\ due \in Seq(Switches) /\ s \in Switches /\ due[1] = s
  BY DEF TInv, DueInv, SendTimer
<1>2. w \in SwitchType /\ Fit(s, w)
  BY <1>1 DEF TInv, SwInv
<1>3. /\ sw' = [sw EXCEPT ![s].pending = FALSE, ![s].tcOut = IF w.on THEN None ELSE @]
      /\ due' = Tail(due) /\ UNCHANGED <<edits, frames, stopped>>
      /\ air' = IF w.on THEN air \o out ELSE air
  BY DEF SendTimer
<1> HIDE DEF s
<1>4. sw' = [sw EXCEPT ![s] = x]
  BY <1>1, <1>3 DEF TInv, SwInv
<1>5. x \in SwitchType /\ Fit(s, x) /\ ~ x.pending
  <2>1. x \in SwitchType
    BY <1>2 DEF SwitchType
  <2>2. x.live = w.live /\ x.heard = w.heard /\ x.on = w.on /\ x.port = w.port /\ ~ x.pending
    BY <1>2 DEF SwitchType
  <2>3. QED BY <1>2, <2>1, <2>2 DEF Fit, Young
<1> HIDE DEF x
<1>6. SwInv([sw EXCEPT ![s] = x]) /\ [sw EXCEPT ![s] = x][s] = x
      /\ \A t \in Switches \ {s} : [sw EXCEPT ![s] = x][t] = sw[t]
  BY <1>1, <1>5, SwKeeps DEF TInv
<1>7. SwInv(sw') /\ sw'[s] = x /\ \A t \in Switches \ {s} : sw'[t] = sw[t]
  BY <1>4, <1>6
<1>8. DueInv(sw', due')
  <2>1. due' \in Seq(Switches) /\ \A i \in DOMAIN due : i = 1 \/ (i - 1 \in DOMAIN due' /\ due'[i - 1] = due[i])
    BY <1>1, <1>3
  <2>2. ASSUME NEW t \in Switches, sw'[t].pending PROVE \E i \in DOMAIN due' : due'[i] = t
    <3>1. t # s /\ sw[t].pending
      BY <1>5, <1>7, <2>2
    <3>2. PICK i \in DOMAIN due : due[i] = t
      BY <3>1 DEF TInv, DueInv
    <3>3. i # 1
      BY <1>1, <3>1, <3>2
    <3>4. QED BY <2>1, <3>2, <3>3
  <2>3. QED BY <2>1, <2>2 DEF DueInv
<1>9. AirInv(air')
  <2>1. ls \in SUBSET Ports(s) /\ \A l \in ls : what[l] \in BpduType \cup DataType
    BY <1>1, <1>2, BpdusAre DEF Fit, SwitchType
  <2> HIDE DEF ls, what
  <2>2. OnePerPort(s, ls, what, out)
    BY <1>1, <2>1, FramesAre
  <2> HIDE DEF out
  <2>3. AirInv(out)
    BY <1>1, <2>1, <2>2, SentFrames
  <2>4. AirInv(air \o out)
    BY <2>3, AirAppends DEF TInv
  <2>5. QED BY <1>3, <2>4 DEF TInv
<1>10. QED BY <1>3, <1>7, <1>8, <1>9 DEF TInv

\* The frame that comes first.
LEMMA FirstFrame ==
  ASSUME TInv, NEW kind \in {"bpdu", "data", "lost"}, Comes(kind)
  PROVE  /\ Head(air).to \in Switches /\ Head(air).on \in Ports(Head(air).to)
         /\ Head(air).on \in Links /\ Head(air).via \in SUBSET Switches
         /\ kind = "bpdu" => Head(air).is \in BpduType
         /\ kind = "data" => Head(air).is \in DataType
         /\ AirInv(Tail(air)) /\ air # <<>> /\ Head(air).is.kind = kind
         /\ sw[Head(air).to] \in SwitchType /\ Fit(Head(air).to, sw[Head(air).to])
<1> DEFINE f == Head(air)
<1>1. air # <<>> /\ f.is.kind = kind /\ AirInv(air)
  BY DEF Comes, TInv
<1>2. AirInv(Tail(air)) /\ (f.is.kind # "tick" => Frame(f))
  BY <1>1, AirHead
<1> HIDE DEF f
<1>3. Frame(f)
  BY <1>1, <1>2
<1>4. /\ f.to \in Switches /\ f.on \in Ports(f.to) /\ f.on \in Links /\ f.via \in SUBSET Switches
      /\ f.is \in BpduType \cup DataType \cup {[kind |-> "lost"]}
  BY <1>3 DEF Frame, FrameType
<1> DEFINE b == f.is
<1>5. b \in BpduType \cup DataType \cup {[kind |-> "lost"]} /\ b.kind = kind
  BY <1>1, <1>4
<1> HIDE DEF b
<1>6. (kind = "bpdu" => b \in BpduType) /\ (kind = "data" => b \in DataType)
  BY <1>5 DEF BpduType, DataType
<1>7. sw[f.to] \in SwitchType /\ Fit(f.to, sw[f.to])
  BY <1>4 DEF TInv, SwInv
<1>8. QED BY <1>1, <1>2, <1>4, <1>6, <1>7 DEF f, b

LEMMA ReceiveBpduType ==
  ASSUME TInv, ReceiveBpdu PROVE TInv'
<1> DEFINE s == Head(air).to
           l == Head(air).on
           b == Head(air).is
           w == sw[s]
           r == Handle(s, w, l, b)
           ls == IF r.reply THEN {l} ELSE {}
           what == [k \in {l} |-> Bpdu(s, r.w, k)]
           out == Frames(s, ls, what)
<1>1. Comes("bpdu") /\ Worked(s, r.w) /\ Received(out)
  BY DEF ReceiveBpdu
<1>2. /\ s \in Switches /\ l \in Ports(s) /\ l \in Links /\ b \in BpduType /\ AirInv(Tail(air))
      /\ w \in SwitchType /\ Fit(s, w)
  BY <1>1, FirstFrame
<1>3. r.w \in SwitchType /\ Fit(s, r.w) /\ (w.pending => r.w.pending)
  BY <1>2, HandleFits
<1> HIDE DEF s, l, b, r
<1>4. ls \in SUBSET Ports(s) /\ \A k \in ls : what[k] \in BpduType \cup DataType
  BY <1>2, <1>3, BpdusAre
<1> HIDE DEF ls, what
<1>5. AirInv(out)
  <2>1. OnePerPort(s, ls, what, out)
    BY <1>2, <1>4, FramesAre
  <2> HIDE DEF out
  <2>2. QED BY <1>2, <1>4, <2>1, SentFrames
<1> HIDE DEF out
<1>6. AirInv(Tail(air) \o out)
  BY <1>2, <1>5, AirAppends
<1>7. AirInv(air') /\ UNCHANGED <<edits, frames, stopped>>
  BY <1>1, <1>6 DEF Received
<1> DEFINE x == r.w
<1>8. x \in SwitchType /\ Fit(s, x) /\ (sw[s].pending => x.pending) /\ Worked(s, x)
  BY <1>1, <1>3
<1> HIDE DEF x
<1>9. SwInv(sw') /\ DueInv(sw', due')
  BY <1>2, <1>8, WorkedTypes DEF Worked
<1>10. QED BY <1>7, <1>9 DEF TInv

\* A switch whose state has not changed.
LEMMA SameWorks ==
  ASSUME TInv, NEW s \in Switches, Worked(s, sw[s])
  PROVE  sw' = sw /\ due' = due
BY DEF Worked, TInv, SwInv

LEMMA PassBpduType ==
  ASSUME TInv, PassBpdu PROVE TInv'
<1> DEFINE f == Head(air)
           s == f.to
           w == sw[s]
           ls == Flood(w, f.on)
           what == [k \in ls |-> f.is]
           copies == Frames(s, ls, what)
           out == IF s \in f.via THEN <<>>
                  ELSE [i \in DOMAIN copies |-> [copies[i] EXCEPT !.via = f.via \cup {s}]]
<1>1. Comes("bpdu") /\ Worked(s, w) /\ Received(out)
  BY DEF PassBpdu
<1>2. /\ s \in Switches /\ f.on \in Links /\ f.is \in BpduType /\ AirInv(Tail(air)) /\ f.via \in SUBSET Switches
      /\ w \in SwitchType /\ Fit(s, w)
  BY <1>1, FirstFrame
<1>3. sw' = sw /\ due' = due
  BY <1>1, <1>2, SameWorks
<1>4. ls \in SUBSET Ports(s) /\ \A k \in ls : what[k] \in BpduType \cup DataType
  BY <1>2 DEF Flood, Fit
<1> DEFINE via == f.via \cup {s}
<1>5. via \in SUBSET Switches
  BY <1>2
<1> HIDE DEF ls, what, f, via
<1>6. OnePerPort(s, ls, what, copies)
  BY <1>2, <1>4, FramesAre
<1> HIDE DEF copies
<1>7. AirInv(copies)
  BY <1>2, <1>4, <1>6, SentFrames
<1> DEFINE new == [i \in DOMAIN copies |-> [copies[i] EXCEPT !.via = via]]
<1>8. AirInv(new)
  <2>1. copies \in Seq(FrameType) /\ \A i \in DOMAIN copies : copies[i] \in FrameType /\ Frame(copies[i])
    <3>1. copies \in Seq(FrameType)
      BY <1>6 DEF OnePerPort
    <3>2. \A i \in DOMAIN copies : copies[i] \in FrameType
      BY <3>1, ElementOfSeq
    <3>3. \A g \in FrameType : g # Tick
      <4>1. \A g \in FrameType : g.on \in Links
        BY DEF FrameType
      <4>2. Tick.on = None /\ None \notin Links
        BY StpAssumption DEF Tick
      <4>3. QED BY <4>1, <4>2
    <3>4. QED BY <1>7, <3>1, <3>2, <3>3 DEF AirInv
  <2>2. ASSUME NEW g \in FrameType, Frame(g) PROVE Frame([g EXCEPT !.via = via]) /\ [g EXCEPT !.via = via] \in FrameType
    <3>1. [g EXCEPT !.via = via] \in FrameType
      BY <1>5 DEF FrameType
    <3>2. [g EXCEPT !.via = via].on = g.on /\ [g EXCEPT !.via = via].to = g.to
      BY DEF FrameType
    <3>3. QED BY <2>2, <3>1, <3>2 DEF Frame
  <2>3. \A i \in DOMAIN copies : new[i] \in FrameType /\ Frame(new[i])
    BY <2>1, <2>2
  <2>4. DOMAIN copies = 1 .. Len(copies) /\ Len(copies) \in Nat
    BY <2>1
  <2>5. new \in [1 .. Len(copies) -> FrameType \cup {Tick}]
    BY <2>3, <2>4
  <2>6. new \in Seq(FrameType \cup {Tick}) /\ DOMAIN new = DOMAIN copies
    BY <2>4, <2>5, SeqDef
  <2> HIDE DEF new
  <2>7. QED BY <2>3, <2>6 DEF AirInv
<1>9. AirInv(out)
  <2>1. CASE s \in f.via
    BY <2>1, EmptyAir
  <2>2. CASE s \notin f.via
    BY <1>8, <2>2 DEF via
  <2>3. QED BY <2>1, <2>2
<1> HIDE DEF out
<1>10. AirInv(Tail(air) \o out)
  BY <1>2, <1>9, AirAppends
<1>11. AirInv(air') /\ UNCHANGED <<edits, frames, stopped>>
  BY <1>1, <1>10 DEF Received
<1>12. QED BY <1>3, <1>11 DEF TInv

LEMMA ReceiveDataType ==
  ASSUME TInv, ReceiveData PROVE TInv'
<1> DEFINE s == Head(air).to
           l == Head(air).on
           w == sw[s]
           d == Head(air).is
           ls == Flood(w, l)
           what == [k \in ls |-> d]
           out == Frames(s, ls, what)
           x == [w EXCEPT !.mac = l, !.seen = @ \cup {d.id}]
           none == <<>>
<1>1. Comes("data")
  BY Zenon DEF ReceiveData
<1>6. (Worked(s, x) /\ Received(out)) \/ (Worked(s, w) /\ Received(none))
  <2>1. CASE Forwarding(w, l) /\ d.id \notin w.seen
    BY <2>1, Zenon DEF ReceiveData
  <2>2. CASE ~ (Forwarding(w, l) /\ d.id \notin w.seen)
    BY <2>2, Zenon DEF ReceiveData
  <2>3. QED BY <2>1, <2>2
<1>2. /\ s \in Switches /\ l \in Links /\ d \in DataType /\ AirInv(Tail(air)) /\ w \in SwitchType /\ Fit(s, w)
  BY <1>1, FirstFrame
<1>3. x \in SwitchType /\ Fit(s, x) /\ (w.pending => x.pending)
  <2> DEFINE seen == w.seen \cup {d.id}
  <2>1. seen \in SUBSET (1 .. MaxFrames)
    BY <1>2 DEF SwitchType, DataType
  <2>2. x = [w EXCEPT !.mac = l, !.seen = seen]
    BY <1>2 DEF SwitchType
  <2> HIDE DEF seen, x
  <2>3. x \in SwitchType /\ x.live = w.live /\ x.heard = w.heard /\ x.on = w.on /\ x.port = w.port
        /\ x.pending = w.pending
    BY <1>2, <2>1, <2>2 DEF SwitchType
  <2>4. QED BY <1>2, <2>3 DEF Fit, Young
<1> HIDE DEF x
<1>4. AirInv(out)
  <2>1. ls \in SUBSET Ports(s) /\ \A k \in ls : what[k] \in BpduType \cup DataType
    BY <1>2 DEF Flood, Fit
  <2> HIDE DEF ls, what, s
  <2>2. OnePerPort(s, ls, what, out)
    BY <1>2, <2>1, FramesAre
  <2> HIDE DEF out
  <2>3. QED BY <1>2, <2>1, <2>2, SentFrames
<1> HIDE DEF out
<1>5. AirInv(none)
  BY EmptyAir
<1> HIDE DEF none
<1>7. AirInv(Tail(air) \o out) /\ AirInv(Tail(air) \o none)
  BY <1>2, <1>4, <1>5, AirAppends
<1>8. AirInv(air') /\ UNCHANGED <<edits, frames, stopped>>
  BY <1>6, <1>7 DEF Received
<1>9. SwInv(sw') /\ DueInv(sw', due')
  <2>1. CASE Worked(s, w)
    <3>1. sw' = sw /\ due' = due
      BY <1>2, <2>1, SameWorks
    <3>2. QED BY <3>1 DEF TInv
  <2>2. CASE Worked(s, x)
    <3> HIDE DEF s
    <3>1. QED BY <1>2, <1>3, <2>2, WorkedTypes DEF Worked
  <2>3. QED BY <1>6, <2>1, <2>2
<1>10. QED BY <1>8, <1>9 DEF TInv

LEMMA ReceiveLostType ==
  ASSUME TInv, ReceiveLost PROVE TInv'
<1> DEFINE none == <<>>
<1>1. Comes("lost") /\ Received(none) /\ UNCHANGED <<sw, due>>
  BY DEF ReceiveLost
<1>2. AirInv(none)
  BY EmptyAir
<1>3. AirInv(Tail(air))
  BY <1>1, FirstFrame
<1> HIDE DEF none
<1>4. AirInv(Tail(air) \o none)
  BY <1>2, <1>3, AirAppends
<1>5. QED BY <1>1, <1>4 DEF Received, TInv

LEMMA EndedType ==
  ASSUME TInv PROVE AirInv(Ended)
BY AirTick DEF TInv, Ended

LEMMA ArriveType ==
  ASSUME TInv, Arrive PROVE TInv'
<1> DEFINE q == Ended
<1>1. AirInv(q) /\ air' = Tail(q) /\ UNCHANGED <<sw, due, edits, frames, stopped>>
  BY EndedType DEF Arrive
<1>2. q # <<>>
  BY AirTick DEF TInv, Ended, Arrive, Rests, Comes, AirInv
<1> HIDE DEF q
<1>3. AirInv(Tail(q))
  BY <1>1, <1>2, AirHead
<1>4. QED BY <1>1, <1>3 DEF TInv

LEMMA TimePassesType ==
  ASSUME TInv, TimePasses PROVE TInv'
BY EndedType DEF TimePasses, TInv

LEMMA TalkType ==
  ASSUME TInv, Talk PROVE TInv'
<1> DEFINE w == sw[Home]
           ls == Flood(w, StationPort)
           d == [kind |-> "data", id |-> frames + 1]
           what == [l \in ls |-> d]
           out == Frames(Home, ls, what)
           x == [w EXCEPT !.mac = StationPort, !.seen = @ \cup {frames + 1}]
<1>1. frames < MaxFrames /\ frames' = frames + 1 /\ UNCHANGED <<edits, stopped>>
  BY DEF Talk
<1>2. Worked(Home, x) /\ air' = air \o out
  BY DEF Talk
<1>3. Home \in Switches /\ w \in SwitchType /\ Fit(Home, w) /\ frames + 1 \in 1 .. MaxFrames
  BY <1>1, StpAssumption DEF TInv, SwInv
<1>4. x \in SwitchType /\ Fit(Home, x) /\ (w.pending => x.pending)
  <2> DEFINE seen == w.seen \cup {frames + 1}
  <2>1. seen \in SUBSET (1 .. MaxFrames)
    BY <1>3 DEF SwitchType
  <2>2. x = [w EXCEPT !.mac = StationPort, !.seen = seen]
    BY <1>3 DEF SwitchType
  <2> HIDE DEF seen, x
  <2>3. x \in SwitchType /\ x.live = w.live /\ x.heard = w.heard /\ x.on = w.on /\ x.port = w.port
        /\ x.pending = w.pending
    BY <1>3, <2>1, <2>2 DEF SwitchType
  <2>4. QED BY <1>3, <2>3 DEF Fit, Young
<1> HIDE DEF x
<1>5. AirInv(out)
  <2>1. d \in DataType
    BY <1>3 DEF DataType
  <2> HIDE DEF d
  <2>2. ls \in SUBSET Ports(Home) /\ \A k \in ls : what[k] \in BpduType \cup DataType
    BY <1>3, <2>1 DEF Flood, Fit
  <2> HIDE DEF ls, what
  <2>3. OnePerPort(Home, ls, what, out)
    BY <1>3, <2>2, FramesAre
  <2> HIDE DEF out
  <2>4. QED BY <1>3, <2>2, <2>3, SentFrames
<1> HIDE DEF out
<1>6. AirInv(air')
  BY <1>2, <1>5, AirAppends DEF TInv
<1>7. SwInv(sw') /\ DueInv(sw', due')
  BY <1>2, <1>3, <1>4, WorkedTypes DEF Worked
<1>8. frames' \in 0 .. MaxFrames
  BY <1>1, <1>3
<1>9. QED BY <1>1, <1>6, <1>7, <1>8 DEF TInv

LEMMA EditingType ==
  ASSUME TInv, Editing PROVE edits' \in Nat /\ frames' \in 0 .. MaxFrames
BY DEF TInv, Editing

\* Both ends of a cable work.
LEMMA BothTypes ==
  ASSUME TInv, NEW l \in Links, NEW new, BothEnds(l, new),
         \A s \in {End1[l], End2[l]} :
            new[s] \in SwitchType /\ Fit(s, new[s]) /\ (sw[s].pending => new[s].pending)
  PROVE  SwInv(sw') /\ DueInv(sw', due')
<1> DEFINE a == End1[l]
           b == End2[l]
           x == new[a]
           y == new[b]
           S == [sw EXCEPT ![a] = x]
           T == [S EXCEPT ![b] = y]
           d == IF x.pending /\ ~ sw[a].pending THEN Append(due, a) ELSE due
           e == IF y.pending /\ ~ sw[b].pending THEN Append(d, b) ELSE d
<1>1. a \in Switches /\ b \in Switches /\ a # b
  BY StpAssumption
<1>2. /\ x \in SwitchType /\ Fit(a, x) /\ (sw[a].pending => x.pending)
      /\ y \in SwitchType /\ Fit(b, y) /\ (sw[b].pending => y.pending)
  OBVIOUS
<1>3. sw' = [s \in Switches |-> IF s \in {a, b} THEN new[s] ELSE sw[s]]
  BY DEF BothEnds
<1>4. due' = due \o (IF x.pending /\ ~ sw[a].pending THEN <<a>> ELSE <<>>)
                 \o (IF y.pending /\ ~ sw[b].pending THEN <<b>> ELSE <<>>)
  BY DEF BothEnds
<1> HIDE DEF a, b
<1>5. T = sw'
  BY <1>1, <1>3 DEF TInv, SwInv
<1> HIDE DEF x, y
<1>6. SwInv(S) /\ S[a] = x /\ \A t \in Switches \ {a} : S[t] = sw[t]
  BY <1>1, <1>2, SwKeeps DEF TInv
<1>7. DueInv(S, IF S[a].pending /\ ~ sw[a].pending THEN Append(due, a) ELSE due)
  <2> HIDE DEF S
  <2>1. QED BY <1>1, <1>2, <1>6, DueKeeps DEF TInv
<1>8. DueInv(S, d)
  BY <1>6, <1>7
<1> HIDE DEF S, d
<1>9. SwInv(T) /\ T[b] = y /\ \A t \in Switches \ {b} : T[t] = S[t]
  BY <1>1, <1>2, <1>6, SwKeeps
<1> HIDE DEF T
<1>10. S[b] = sw[b]
  BY <1>1, <1>6
<1>11. DueInv(T, IF T[b].pending /\ ~ S[b].pending THEN Append(d, b) ELSE d)
  BY <1>1, <1>2, <1>8, <1>9, <1>10, DueKeeps
<1>12. DueInv(T, e)
  BY <1>9, <1>10, <1>11
<1>13. due' = e
  <2>1. due \in Seq(Switches) /\ d \in Seq(Switches)
    BY <1>8 DEF TInv, DueInv
  <2>2. d = due \o (IF x.pending /\ ~ sw[a].pending THEN <<a>> ELSE <<>>)
    BY <1>1, <2>1 DEF d
  <2>3. e = d \o (IF y.pending /\ ~ sw[b].pending THEN <<b>> ELSE <<>>)
    BY <1>1, <2>1
  <2>4. QED BY <1>4, <2>2, <2>3
<1>14. QED BY <1>5, <1>9, <1>12, <1>13

LEMMA LinkDownIs ==
  ASSUME NEW s \in Switches, NEW l \in Links, sw[s] \in SwitchType
  PROVE  LinkDown(s, l) = Relinked(s, Unplugged(sw[s], l), FALSE)
BY DEF LinkDown, Unplugged

LEMMA LinkUpIs ==
  ASSUME NEW s \in Switches, NEW l \in Links
  PROVE  LinkUp(s, l) = Relinked(s, PluggedIn(sw[s], l), TRUE)
BY DEF LinkUp, PluggedIn

LEMMA CableOutType ==
  ASSUME TInv, NEW l \in Links, CableOut(l) PROVE TInv'
<1> DEFINE new == [s \in {End1[l], End2[l]} |-> LinkDown(s, l)]
           gone(f) == [f EXCEPT !.is = [kind |-> "lost"]]
<1>1. /\ Editing /\ BothEnds(l, new) /\ UNCHANGED stopped
      /\ air' = [i \in DOMAIN air |-> IF air[i].on = l THEN gone(air[i]) ELSE air[i]]
  BY DEF CableOut
<1>2. ASSUME NEW s \in {End1[l], End2[l]}
      PROVE  new[s] \in SwitchType /\ Fit(s, new[s]) /\ (sw[s].pending => new[s].pending)
  <2>0. s \in Switches
    BY StpAssumption
  <2>1. s \in Switches /\ sw[s] \in SwitchType /\ Fit(s, sw[s])
    BY <2>0 DEF TInv, SwInv
  <2> DEFINE u == Unplugged(sw[s], l)
  <2>2. u \in SwitchType /\ Young(u) /\ u.live = sw[s].live \ {l} /\ u.pending = sw[s].pending
    BY <2>1, UnpluggedType DEF Fit
  <2>3. u.live \subseteq Ports(s)
    BY <2>1, <2>2 DEF Fit
  <2>4. new[s] = Relinked(s, u, FALSE)
    BY <2>1, LinkDownIs
  <2> HIDE DEF u
  <2>5. /\ Relinked(s, u, FALSE) \in SwitchType /\ Fit(s, Relinked(s, u, FALSE))
        /\ (u.pending => Relinked(s, u, FALSE).pending)
    BY <2>1, <2>2, <2>3, RelinkedFits
  <2>6. QED BY <2>2, <2>4, <2>5
<1> HIDE DEF new
<1>3. SwInv(sw') /\ DueInv(sw', due')
  BY <1>1, <1>2, BothTypes
<1>4. AirInv(air')
  <2>1. ASSUME NEW f \in FrameType \cup {Tick}, f.on = l, f # Tick => Frame(f)
        PROVE  gone(f) \in FrameType \cup {Tick} /\ Frame(gone(f))
    <3>1. f \in FrameType /\ Frame(f)
      <4>1. l # None
        BY StpAssumption
      <4>2. QED BY <2>1, <4>1 DEF Tick
    <3>2. gone(f) \in FrameType
      BY <3>1 DEF FrameType
    <3>3. gone(f).to = f.to /\ gone(f).on = f.on
      BY <3>1 DEF FrameType
    <3> HIDE DEF gone
    <3>4. QED BY <3>1, <3>2, <3>3 DEF Frame
  <2> HIDE DEF gone
  <2>2. air \in Seq(FrameType \cup {Tick}) /\ \A i \in DOMAIN air : air[i] # Tick => Frame(air[i])
    BY DEF TInv, AirInv
  <2>3. Len(air) \in Nat /\ DOMAIN air = 1 .. Len(air) /\ \A i \in DOMAIN air : air[i] \in FrameType \cup {Tick}
    BY <2>2
  <2>4. DOMAIN air' = DOMAIN air /\ \A i \in DOMAIN air : air'[i] = IF air[i].on = l THEN gone(air[i]) ELSE air[i]
    BY <1>1
  <2>5. \A i \in DOMAIN air : air'[i] \in FrameType \cup {Tick} /\ (air'[i] # Tick => Frame(air'[i]))
    BY <2>1, <2>2, <2>3, <2>4
  <2>6. air' \in [1 .. Len(air) -> FrameType \cup {Tick}]
    BY <1>1, <2>3, <2>4, <2>5
  <2>7. air' \in Seq(FrameType \cup {Tick})
    BY <2>3, <2>6, SeqDef
  <2>8. QED BY <2>4, <2>5, <2>7 DEF AirInv
<1>5. QED BY <1>1, <1>3, <1>4, EditingType DEF TInv

LEMMA CableInType ==
  ASSUME TInv, NEW l \in Links, CableIn(l) PROVE TInv'
<1> DEFINE new == [s \in {End1[l], End2[l]} |-> LinkUp(s, l)]
<1>1. Editing /\ BothEnds(l, new) /\ UNCHANGED <<air, stopped>>
  BY DEF CableIn
<1>2. ASSUME NEW s \in {End1[l], End2[l]}
      PROVE  new[s] \in SwitchType /\ Fit(s, new[s]) /\ (sw[s].pending => new[s].pending)
  <2>0. s \in Switches /\ l \in Ports(s)
    BY StpAssumption DEF Ports
  <2>1. s \in Switches /\ sw[s] \in SwitchType /\ Fit(s, sw[s]) /\ l \in Ports(s)
    BY <2>0 DEF TInv, SwInv
  <2> DEFINE u == PluggedIn(sw[s], l)
             v == Relinked(s, u, TRUE)
  <2>2. u \in SwitchType /\ Young(u) /\ u.live = sw[s].live \cup {l} /\ u.pending = sw[s].pending
    <3>1. u \in SwitchType /\ Young(u) /\ u = [sw[s] EXCEPT !.live = u.live] /\ u.live = sw[s].live \cup {l}
      BY <2>1, PluggedInType DEF Fit
    <3> HIDE DEF u
    <3>2. u.pending = sw[s].pending
      BY <2>1, <3>1 DEF SwitchType
    <3>3. QED BY <3>1, <3>2
  <2>3. u.live \subseteq Ports(s)
    BY <2>1, <2>2 DEF Fit
  <2>4. new[s] = v
    BY <2>1, LinkUpIs
  <2> HIDE DEF u
  <2>5. v \in SwitchType /\ Fit(s, v) /\ (u.pending => v.pending)
    BY <2>1, <2>2, <2>3, RelinkedFits
  <2>6. QED BY <2>2, <2>4, <2>5
<1> HIDE DEF new
<1>3. SwInv(sw') /\ DueInv(sw', due')
  BY <1>1, <1>2, BothTypes
<1>4. QED BY <1>1, <1>3, EditingType DEF TInv

LEMMA SetStpType ==
  ASSUME TInv, NEW s \in Switches, NEW on \in BOOLEAN, NEW prio \in Prios, SetStp(s, on, prio) PROVE TInv'
<1> DEFINE w == sw[s]
           r == SetConfig(s, w, on, prio)
           x == r.w
           ls == IF r.said THEN w.live ELSE {}
           what == [l \in w.live |-> Withdrawal(s, w, l)]
           out == Frames(s, ls, what)
<1>1. Editing /\ Worked(s, x) /\ air' = air \o out /\ stopped' = (stopped \/ ~ on)
  BY DEF SetStp
<1>2. w \in SwitchType /\ Fit(s, w) /\ prio \in Nat
  BY StpAssumption DEF TInv, SwInv
<1>3. x \in SwitchType /\ Fit(s, x) /\ (w.pending => x.pending)
  BY <1>2, SetConfigFits DEF Fit
<1> HIDE DEF x
<1>4. AirInv(out)
  <2>1. ls \in SUBSET Ports(s) /\ \A k \in ls : what[k] \in BpduType \cup DataType
    BY <1>2, BpdusAre DEF Fit, SwitchType
  <2> HIDE DEF ls, what
  <2>2. OnePerPort(s, ls, what, out)
    BY <2>1, FramesAre
  <2> HIDE DEF out
  <2>3. QED BY <2>1, <2>2, SentFrames
<1> HIDE DEF out
<1>5. AirInv(air')
  BY <1>1, <1>4, AirAppends DEF TInv
<1>6. SwInv(sw') /\ DueInv(sw', due')
  BY <1>1, <1>2, <1>3, WorkedTypes DEF Worked
<1>7. stopped' \in BOOLEAN
  BY <1>1
<1>8. QED BY <1>1, <1>5, <1>6, <1>7, EditingType DEF TInv

LEMMA StepType == TInv /\ [Next]_vars => TInv'
<1> SUFFICES ASSUME TInv, [Next]_vars PROVE TInv'
  OBVIOUS
<1>1. CASE Work
  BY <1>1, SendTimerType, ReceiveBpduType, PassBpduType, ReceiveDataType, ReceiveLostType, ArriveType DEF Work
<1>2. CASE TimePasses
  BY <1>2, TimePassesType
<1>3. CASE Talk
  BY <1>3, TalkType
<1>4. ASSUME NEW l \in Links, CableOut(l) \/ CableIn(l) PROVE TInv'
  BY <1>4, CableOutType, CableInType
<1>5. ASSUME NEW s \in Switches, NEW on \in BOOLEAN, NEW prio \in Prios, SetStp(s, on, prio) PROVE TInv'
  BY <1>5, SetStpType
<1>6. CASE UNCHANGED vars
  BY <1>6 DEF vars, TInv, SwInv, AirInv, DueInv
<1>7. QED BY <1>1, <1>2, <1>3, <1>4, <1>5, <1>6 DEF Next

LEMMA TypesHold == Spec => []TInv
BY InitType, StepType, PTL DEF Spec

\* Every switch keeps its type, and what it has heard is never older than MaxAge:
\* only what withdraws other information is.
THEOREM TypeCorrect == Spec => []TypeOK
<1>1. TInv => TypeOK
  <2> SUFFICES ASSUME TInv PROVE TypeOK
    OBVIOUS
  <2>1. air \in Seq(FrameType \cup {Tick})
    BY DEF TInv, AirInv
  <2>2. ASSUME NEW s \in Switches
        PROVE  /\ sw[s].live \subseteq Ports(s) /\ sw[s].role \in [Links -> Roles]
               /\ (sw[s].on => sw[s].port \in sw[s].live \cup {None}) /\ sw[s].age \in 0 .. MaxAge + 1
               /\ \A l \in Links : sw[s].heard[l] # None =>
                     sw[s].heard[l] \in BpduType /\ sw[s].heard[l].age <= MaxAge
    <3> DEFINE w == sw[s]
    <3>1. w \in SwitchType /\ Fit(s, w)
      BY DEF TInv, SwInv
    <3> HIDE DEF w
    <3>2. \A l \in Links : w.heard[l] # None => w.heard[l] \in BpduType /\ w.heard[l].age <= MaxAge
      BY <3>1, HeardType DEF Fit, Young
    <3>3. w.role \in [Links -> Roles] /\ w.age \in 0 .. MaxAge + 1
      BY <3>1 DEF SwitchType
    <3>4. w.live \subseteq Ports(s) /\ (w.on => w.port \in w.live \cup {None})
      BY <3>1 DEF Fit
    <3>5. QED BY <3>2, <3>3, <3>4 DEF w
  <2>3. QED BY <2>1, <2>2 DEF TypeOK
<1>2. QED BY <1>1, TypesHold, PTL

-------------------------------------------------------------------------------
(* What is told on one cable *)

\* From state v to state w: the switch will speak, or what it has said is still true.
Follows(v, w) ==
  \/ w.pending
  \/ /\ ~ v.pending /\ w.root = v.root /\ w.cost = v.cost /\ w.age = v.age
     /\ \A l \in Links : w.role[l] = "designated" => v.role[l] = "designated"

LEMMA SameAge ==
  ASSUME NEW a \in Nat, NEW b \in Nat, PortCost * a = PortCost * b
  PROVE  a = b
<1>1. PortCost \in Nat /\ PortCost > 0
  BY StpAssumption
<1>2. ASSUME NEW m \in Nat, NEW d \in Nat, d > 0 PROVE PortCost * (m + d) > PortCost * m
  <2>1. PortCost * (m + d) = PortCost * m + PortCost * d
    BY <1>1
  <2>2. PortCost * d > 0 /\ PortCost * d \in Nat /\ PortCost * m \in Nat
    BY <1>1, <1>2
  <2>3. QED BY <2>1, <2>2
<1>3. ~ (a < b)
  <2> SUFFICES ASSUME a < b PROVE FALSE
    OBVIOUS
  <2>1. b - a \in Nat /\ b - a > 0 /\ b = a + (b - a)
    OBVIOUS
  <2>2. PortCost * b > PortCost * a
    BY <1>2, <2>1
  <2>3. PortCost * a \in Nat
    BY <1>1
  <2>4. QED BY <2>2, <2>3
<1>4. ~ (b < a)
  <2> SUFFICES ASSUME b < a PROVE FALSE
    OBVIOUS
  <2>1. a - b \in Nat /\ a - b > 0 /\ a = b + (a - b)
    OBVIOUS
  <2>2. PortCost * a > PortCost * b
    BY <1>2, <2>1
  <2>3. PortCost * a \in Nat
    BY <1>1
  <2>4. QED BY <2>2, <2>3
<1>5. QED BY <1>3, <1>4

\* The cost counts the switches on the way.
LEMMA CostIsAge ==
  ASSUME NEW s, NEW w \in SwitchType, Young(w), Tree(s, w),
         \A l \in w.live : w.heard[l] # None => Proper(w.heard[l], l)
  PROVE  w.cost = PortCost * w.age
<1>1. CASE w.cost = 0 /\ w.age = 0
  BY <1>1, StpAssumption
<1>2. CASE ~ (w.cost = 0 /\ w.age = 0)
  <2>1. w.port \in Offers(s, w) /\ w.cost = w.heard[w.port].cost + PortCost /\ w.age = w.heard[w.port].age + 1
    BY <1>2 DEF Tree, Elected
  <2> DEFINE l == w.port
             h == w.heard[l]
             a == h.age
             c == h.cost
  <2>2. l \in w.live /\ l \in Links /\ h # None
    BY <2>1 DEF Offers, SwitchType
  <2>3. a \in Nat /\ a <= MaxAge /\ c \in Nat
    BY <2>2, HeardType DEF Young
  <2>4. c = PortCost * a
    BY <2>2, <2>3 DEF Proper
  <2>5. w.cost = c + PortCost /\ w.age = a + 1
    BY <2>1
  <2> HIDE DEF a, c
  <2>6. PortCost * (a + 1) = PortCost * a + PortCost
    BY <2>3, StpAssumption
  <2>7. QED BY <2>4, <2>5, <2>6
<1>3. QED BY <1>1, <1>2

LEMMA SettlesFollows ==
  ASSUME NEW s, NEW v \in SwitchType, NEW force \in BOOLEAN, NEW r, Settles(s, v, force, r),
         v.cost = PortCost * v.age, r.w.cost = PortCost * r.w.age
  PROVE  Follows(v, r.w) /\ (force => r.w.pending)
<1> DEFINE w == r.w
<1>1. w \in SwitchType /\ (v.pending \/ force \/ r.changed => w.pending) /\ r.changed = Changed(v, w)
  BY DEF Settles
<1>2. CASE w.pending
  BY <1>2 DEF Follows
<1>3. CASE ~ w.pending
  <2>1. ~ v.pending /\ ~ force /\ ~ Changed(v, w)
    BY <1>1, <1>3
  <2> HIDE DEF w
  <2>2. w.root = v.root /\ w.cost = v.cost /\ NewRoles(v, w) = {}
    BY <2>1 DEF Changed
  <2>3. \A l \in Links : w.role[l] = "designated" => v.role[l] = "designated"
    BY <2>2 DEF NewRoles
  <2>4. w.age = v.age
    <3>1. w.age \in Nat /\ v.age \in Nat
      BY <1>1, StpAssumption DEF SwitchType
    <3>2. PortCost * w.age = PortCost * v.age
      BY <2>2 DEF w
    <3>3. QED BY <3>1, <3>2, SameAge
  <2>5. Follows(v, w)
    BY <2>1, <2>2, <2>3, <2>4 DEF Follows
  <2>6. QED BY <2>1, <2>5 DEF w
<1>4. QED BY <1>1, <1>2, <1>3

\* The BPDUs on one cable are the same in p and, d places later, in q.
Shifted(p, q, s, l, d) ==
  /\ \A i \in Mine(p, s, l) : i \in Nat /\ i + d \in Mine(q, s, l) /\ q[i + d].is = p[i].is
  /\ \A j \in Mine(q, s, l) : \E i \in Mine(p, s, l) : j = i + d

LEMMA ShiftedChannel ==
  ASSUME NEW p, NEW q, NEW s, NEW t, NEW l, NEW d \in Nat, Shifted(p, q, s, l, d), NEW w, NEW v,
         Channel(w, v, q, s, t, l)
  PROVE  Channel(w, v, p, s, t, l)
<1> DEFINE P == Mine(p, s, l)
           Q == Mine(q, s, l)
<1>1. /\ \A i \in P : i \in Nat /\ i + d \in Q /\ q[i + d].is = p[i].is
      /\ \A j \in Q : \E i \in P : j = i + d
      /\ P = {} <=> Q = {}
  BY DEF Shifted
<1>2. \A i \in P : FirstOf(p, s, l, i) => FirstOf(q, s, l, i + d)
  BY <1>1 DEF FirstOf
<1>3. \A i \in P : LastOf(p, s, l, i) => LastOf(q, s, l, i + d)
  BY <1>1 DEF LastOf
<1>4. \A i, j \in P : NextOf(p, s, l, i, j) => NextOf(q, s, l, i + d, j + d)
  BY <1>1 DEF NextOf
<1>5. /\ l \notin w.live => w.heard[l] = None /\ Q = {}
      /\ w.heard[l] # None => Proper(w.heard[l], l)
      /\ \A i \in Q : Proper(q[i].is, l)
  BY DEF Channel
<1>6. \A i, j \in Q : NextOf(q, s, l, i, j) => q[i].is.bridge = q[j].is.bridge \/ TooOld(q[i].is)
  BY DEF Channel
<1>7. \A j \in Q : FirstOf(q, s, l, j) /\ w.heard[l] # None => w.heard[l].bridge = q[j].is.bridge
  BY DEF Channel
<1>8. \A i \in Q : LastOf(q, s, l, i) =>
        /\ q[i].is.bridge = Me(t, v) \/ TooOld(q[i].is)
        /\ ~ v.pending => Says(q[i].is, t, v)
  BY DEF Channel
<1>9. Q = {} /\ w.heard[l] # None =>
        /\ w.heard[l].bridge = Me(t, v)
        /\ ~ v.pending => Says(w.heard[l], t, v)
  BY DEF Channel
<1>10. (l \notin w.live => w.heard[l] = None /\ P = {}) /\ \A i \in P : Proper(p[i].is, l)
  <2> HIDE DEF P, Q
  <2>1. QED BY <1>1, <1>5
<1>11. \A i, j \in P : NextOf(p, s, l, i, j) => p[i].is.bridge = p[j].is.bridge \/ TooOld(p[i].is)
  <2> HIDE DEF P, Q
  <2>1. QED BY <1>1, <1>4, <1>6
<1>12. \A j \in P : FirstOf(p, s, l, j) /\ w.heard[l] # None => w.heard[l].bridge = p[j].is.bridge
  <2> HIDE DEF P, Q
  <2>1. QED BY <1>1, <1>2, <1>7
<1>13. \A i \in P : LastOf(p, s, l, i) =>
        /\ p[i].is.bridge = Me(t, v) \/ TooOld(p[i].is)
        /\ ~ v.pending => Says(p[i].is, t, v)
  <2> HIDE DEF P, Q
  <2>1. QED BY <1>1, <1>3, <1>8
<1>14. P = {} /\ w.heard[l] # None =>
        /\ w.heard[l].bridge = Me(t, v)
        /\ ~ v.pending => Says(w.heard[l], t, v)
  BY <1>1, <1>9
<1> HIDE DEF P, Q
<1>15. QED BY <1>5, <1>10, <1>11, <1>12, <1>13, <1>14 DEF Channel, P

\* One more BPDU, n, comes behind those of q; the sender has gone from v to x.
LEMMA AppendedChannel ==
  ASSUME NEW p, NEW q, NEW s, NEW t, NEW l, NEW w, NEW v, NEW x, Channel(w, v, q, s, t, l),
         NEW n \in Nat, Mine(p, s, l) = Mine(q, s, l) \cup {n}, l \in w.live,
         \A i \in Mine(q, s, l) : i \in Nat /\ i < n /\ p[i].is = q[i].is,
         Proper(p[n].is, l), p[n].is.bridge = Me(t, v),
         Me(t, x) = Me(t, v) \/ TooOld(p[n].is), ~ x.pending => Says(p[n].is, t, x)
  PROVE  Channel(w, x, p, s, t, l)
<1> DEFINE P == Mine(p, s, l)
           Q == Mine(q, s, l)
           b == p[n].is
<1>1. P = Q \cup {n} /\ n \in P /\ \A i \in Q : i \in Nat /\ i < n /\ p[i].is = q[i].is
  OBVIOUS
<1>2. /\ w.heard[l] # None => Proper(w.heard[l], l)
      /\ \A i \in Q : Proper(q[i].is, l)
  BY DEF Channel
<1>3. \A i, j \in Q : NextOf(q, s, l, i, j) => q[i].is.bridge = q[j].is.bridge \/ TooOld(q[i].is)
  BY DEF Channel
<1>4. \A j \in Q : FirstOf(q, s, l, j) /\ w.heard[l] # None => w.heard[l].bridge = q[j].is.bridge
  BY DEF Channel
<1>5. \A i \in Q : LastOf(q, s, l, i) => q[i].is.bridge = Me(t, v) \/ TooOld(q[i].is)
  BY DEF Channel
<1>6. Q = {} /\ w.heard[l] # None => w.heard[l].bridge = Me(t, v)
  BY DEF Channel
<1>7. \A i \in P : Proper(p[i].is, l)
  <2> HIDE DEF P, Q
  <2>1. QED BY <1>1, <1>2
<1>8. ASSUME NEW i \in P, NEW j \in P, NextOf(p, s, l, i, j)
      PROVE  p[i].is.bridge = p[j].is.bridge \/ TooOld(p[i].is)
  <2>1. i \in P /\ j \in P /\ i < j /\ \A k \in P : ~ (i < k /\ k < j)
    BY <1>8 DEF NextOf
  <2>2. i \in Q
    <3> HIDE DEF P, Q
    <3>1. QED BY <1>1, <2>1
  <2>3. CASE j = n
    <3>1. LastOf(q, s, l, i)
      <4>1. \A k \in Q : ~ (i < k)
        <5> HIDE DEF P, Q
        <5>1. QED BY <1>1, <2>1, <2>3
      <4>2. QED BY <2>2, <4>1 DEF LastOf
    <3>2. q[i].is.bridge = Me(t, v) \/ TooOld(q[i].is)
      BY <1>5, <2>2, <3>1
    <3>3. QED BY <1>1, <2>2, <2>3, <3>2
  <2>4. CASE j # n
    <3>1. j \in Q
      BY <1>1, <2>4
    <3>2. NextOf(q, s, l, i, j)
      BY <1>1, <2>1, <2>2, <3>1 DEF NextOf
    <3>3. QED BY <1>1, <1>3, <2>2, <3>1, <3>2
  <2>5. QED BY <2>3, <2>4
<1>9. ASSUME NEW j \in P, FirstOf(p, s, l, j), w.heard[l] # None
      PROVE  w.heard[l].bridge = p[j].is.bridge
  <2>1. \A k \in P : ~ (k < j)
    BY <1>9 DEF FirstOf
  <2>2. CASE Q = {}
    <3>1. j = n
      BY <1>1, <2>2
    <3>2. QED BY <1>6, <1>9, <2>2, <3>1
  <2>3. CASE Q # {}
    <3>1. j \in Q
      <4> HIDE DEF P, Q
      <4>1. QED BY <1>1, <2>1, <2>3
    <3>2. FirstOf(q, s, l, j)
      BY <1>1, <2>1, <3>1 DEF FirstOf
    <3>3. QED BY <1>1, <1>4, <1>9, <3>1, <3>2
  <2>4. QED BY <2>2, <2>3
<1>10. ASSUME NEW i \in P, LastOf(p, s, l, i)
       PROVE  (p[i].is.bridge = Me(t, x) \/ TooOld(p[i].is)) /\ (~ x.pending => Says(p[i].is, t, x))
  <2>1. \A k \in P : ~ (i < k)
    BY <1>10 DEF LastOf
  <2>2. i = n
    <3> HIDE DEF P, Q
    <3>1. QED BY <1>1, <2>1
  <2>3. QED BY <2>2
<1>11. P # {}
  BY <1>1
<1> HIDE DEF P, Q
<1>12. QED BY <1>2, <1>7, <1>8, <1>9, <1>10, <1>11 DEF Channel, P

\* The first BPDU, q[1], is taken from the queue and believed.
LEMMA ReceivedChannel ==
  ASSUME NEW q, NEW p, NEW s, NEW t, NEW l, NEW w, NEW v, NEW x, Channel(w, v, q, s, t, l), 1 \in Mine(q, s, l),
         \A i \in Mine(q, s, l) : i \in Nat /\ i >= 1,
         \A i \in Mine(p, s, l) : i \in Nat /\ i >= 1 /\ i + 1 \in Mine(q, s, l) /\ q[i + 1].is = p[i].is,
         \A j \in Mine(q, s, l) : j = 1 \/ \E i \in Mine(p, s, l) : j = i + 1,
         l \in x.live, x.heard[l] = IF TooOld(q[1].is) THEN None ELSE q[1].is
  PROVE  Channel(x, v, p, s, t, l)
<1> DEFINE P == Mine(p, s, l)
           Q == Mine(q, s, l)
           b == q[1].is
           h == x.heard[l]
<1>1. /\ 1 \in Q /\ \A i \in Q : i \in Nat /\ i >= 1
      /\ \A i \in P : i \in Nat /\ i >= 1 /\ i + 1 \in Q /\ q[i + 1].is = p[i].is
      /\ \A j \in Q : j = 1 \/ \E i \in P : j = i + 1
  OBVIOUS
<1>2. \A i \in Q : Proper(q[i].is, l)
  BY DEF Channel
<1>3. \A i, j \in Q : NextOf(q, s, l, i, j) => q[i].is.bridge = q[j].is.bridge \/ TooOld(q[i].is)
  BY DEF Channel
<1>4. \A i \in Q : LastOf(q, s, l, i) =>
        /\ q[i].is.bridge = Me(t, v) \/ TooOld(q[i].is)
        /\ ~ v.pending => Says(q[i].is, t, v)
  BY DEF Channel
<1>5. h # None => h = b /\ ~ TooOld(b)
  OBVIOUS
<1>6. h # None => Proper(h, l)
  BY <1>1, <1>2, <1>5
<1>7. \A i \in P : Proper(p[i].is, l)
  <2> HIDE DEF P, Q
  <2>1. QED BY <1>1, <1>2
<1>8. ASSUME NEW i \in P, NEW j \in P, NextOf(p, s, l, i, j)
      PROVE  p[i].is.bridge = p[j].is.bridge \/ TooOld(p[i].is)
  <2>1. i < j /\ \A k \in P : ~ (i < k /\ k < j)
    BY <1>8 DEF NextOf
  <2>2. \A k \in Q : ~ (i + 1 < k /\ k < j + 1)
    <3> HIDE DEF P, Q
    <3>1. QED BY <1>1, <2>1
  <2>3. NextOf(q, s, l, i + 1, j + 1)
    BY <1>1, <2>1, <2>2 DEF NextOf
  <2>4. QED BY <1>1, <1>3, <2>3
<1>9. ASSUME NEW j \in P, FirstOf(p, s, l, j), h # None
      PROVE  h.bridge = p[j].is.bridge
  <2>1. \A k \in P : ~ (k < j)
    BY <1>9 DEF FirstOf
  <2>2. \A k \in Q : ~ (1 < k /\ k < j + 1)
    <3> HIDE DEF P, Q
    <3>1. QED BY <1>1, <2>1
  <2>3. NextOf(q, s, l, 1, j + 1)
    BY <1>1, <2>2 DEF NextOf
  <2>4. QED BY <1>1, <1>3, <1>5, <1>9, <2>3
<1>10. ASSUME NEW i \in P, LastOf(p, s, l, i)
       PROVE  (p[i].is.bridge = Me(t, v) \/ TooOld(p[i].is)) /\ (~ v.pending => Says(p[i].is, t, v))
  <2>1. \A k \in P : ~ (i < k)
    BY <1>10 DEF LastOf
  <2>2. \A k \in Q : ~ (i + 1 < k)
    <3> HIDE DEF P, Q
    <3>1. QED BY <1>1, <2>1
  <2>3. LastOf(q, s, l, i + 1)
    BY <1>1, <2>2 DEF LastOf
  <2>4. QED BY <1>1, <1>4, <2>3
<1>11. ASSUME P = {}, h # None
       PROVE  h.bridge = Me(t, v) /\ (~ v.pending => Says(h, t, v))
  <2>1. \A k \in Q : ~ (1 < k)
    <3> HIDE DEF P, Q
    <3>1. QED BY <1>1, <1>11
  <2>2. LastOf(q, s, l, 1)
    BY <1>1, <2>1 DEF LastOf
  <2>3. QED BY <1>1, <1>4, <1>5, <1>11, <2>2
<1> HIDE DEF P, Q
<1>12. QED BY <1>6, <1>7, <1>8, <1>9, <1>10, <1>11 DEF Channel, P

\* What is heard from a sender that says what it has said before is refused only if it
\* withdraws what was never heard.
LEMMA RefusedIs ==
  ASSUME NEW q, NEW s, NEW t, NEW l, NEW w, NEW v, Channel(w, v, q, s, t, l), 1 \in Mine(q, s, l),
         \A i \in Mine(q, s, l) : i \in Nat /\ i >= 1, Refused(w.heard[l], q[1].is)
  PROVE  w.heard[l] = None /\ TooOld(q[1].is)
<1>1. FirstOf(q, s, l, 1)
  BY DEF FirstOf
<1>2. w.heard[l] # None => w.heard[l].bridge = q[1].is.bridge
  BY <1>1 DEF Channel
<1>3. w.heard[l] # None => w.heard[l].port = l
  BY DEF Channel, Proper
<1>4. q[1].is.port = l
  BY DEF Channel, Proper
<1>5. w.heard[l] # None => SameSender(w.heard[l], q[1].is)
  BY <1>2, <1>3, <1>4 DEF SameSender
<1>6. QED BY <1>5 DEF Refused

Chan(S, q, s, l) == Channel(S[s], S[Other(l, s)], q, s, Other(l, s), l)
Ans(S, q, s, l)  == Answered(S[s], S[Other(l, s)], q, s, Other(l, s), l)

\* Switch a goes from state w to state x, and what it has heard on l is the same or forgotten.
LEMMA ChannelMoves ==
  ASSUME NEW S, NEW T, NEW q, NEW s \in Switches, NEW l \in Ports(s), NEW a \in Switches,
         \A t \in Switches \ {a} : T[t] = S[t],
         s = a => (l \in T[a].live <=> l \in S[a].live) /\ T[a].heard[l] \in {S[a].heard[l], None},
         Other(l, s) = a => Follows(S[a], T[a]) /\ Me(a, T[a]) = Me(a, S[a]),
         Chan(S, q, s, l)
  PROVE  Chan(T, q, s, l)
<1> DEFINE t == Other(l, s)
<1>1. t \in Switches /\ t # s
  BY OtherEnd
<1>2. Channel(S[s], S[t], q, s, t, l)
  BY DEF Chan
<1> HIDE DEF t
<1>3. CASE s = a
  <2>1. T[t] = S[t]
    BY <1>1, <1>3
  <2> DEFINE x == T[a]
             w == S[a]
  <2>2. (l \in x.live <=> l \in w.live) /\ x.heard[l] \in {w.heard[l], None}
    BY <1>3
  <2>3. Channel(w, S[t], q, s, t, l)
    BY <1>2, <1>3
  <2> HIDE DEF x, w
  <2>4. Channel(x, S[t], q, s, t, l)
    BY <2>2, <2>3 DEF Channel
  <2>5. QED BY <1>3, <2>1, <2>4 DEF Chan, x, t
<1>4. CASE t = a
  <2>1. T[s] = S[s]
    BY <1>1, <1>4
  <2> DEFINE x == T[a]
             v == S[a]
  <2>2. Follows(v, x) /\ Me(t, x) = Me(t, v)
    BY <1>4 DEF t
  <2>3. Channel(S[s], v, q, s, t, l)
    BY <1>2, <1>4
  <2> HIDE DEF x, v
  <2>4. \A b : Says(b, t, v) /\ ~ x.pending => Says(b, t, x)
    BY <2>2 DEF Says, Follows
  <2>5. ~ x.pending => ~ v.pending
    BY <2>2 DEF Follows
  <2>6. Channel(S[s], x, q, s, t, l)
    BY <2>2, <2>3, <2>4, <2>5 DEF Channel
  <2>7. QED BY <1>4, <2>1, <2>6 DEF Chan, x, t
<1>5. CASE s # a /\ t # a
  <2>1. T[s] = S[s] /\ T[t] = S[t]
    BY <1>1, <1>5
  <2>2. QED BY <1>2, <2>1 DEF Chan, t
<1>6. QED BY <1>3, <1>4, <1>5

\* Also, the queue may change, as long as no line gets empty or the other filled.
LEMMA AnswerMoves ==
  ASSUME NEW S, NEW T, NEW q, NEW p, NEW s \in Switches, NEW l \in Ports(s), NEW a \in Switches,
         \A t \in Switches \ {a} : T[t] = S[t],
         a \in {s, Other(l, s)} =>
            /\ Follows(S[a], T[a]) /\ (S[a].pending => T[a].pending)
            /\ l \in T[a].live <=> l \in S[a].live
            /\ T[a].heard[l] = S[a].heard[l],
         Mine(p, s, l) = {} => Mine(q, s, l) = {},
         Mine(p, Other(l, s), l) = {} => Mine(q, Other(l, s), l) = {},
         Ans(S, q, s, l)
  PROVE  Ans(T, p, s, l)
<1> DEFINE t == Other(l, s)
<1>1. t \in Switches /\ t # s /\ l \in Links
  BY OtherEnd
<1>2. Answered(S[s], S[t], q, s, t, l) /\ (Mine(p, s, l) = {} => Mine(q, s, l) = {})
      /\ (Mine(p, t, l) = {} => Mine(q, t, l) = {})
  BY DEF Ans
<1>3. a \in {s, t} =>
        /\ Follows(S[a], T[a]) /\ (S[a].pending => T[a].pending)
        /\ l \in T[a].live <=> l \in S[a].live
        /\ T[a].heard[l] = S[a].heard[l]
  OBVIOUS
<1> HIDE DEF t
<1>4. CASE s = a
  <2>1. T[t] = S[t]
    BY <1>1, <1>4
  <2> DEFINE x == T[a]
             w == S[a]
  <2>2. /\ Follows(w, x) /\ (w.pending => x.pending) /\ (l \in x.live <=> l \in w.live)
        /\ x.heard[l] = w.heard[l]
    BY <1>3, <1>4
  <2>3. Answered(w, S[t], q, s, t, l)
    BY <1>2, <1>4
  <2> HIDE DEF x, w
  <2>4. Answered(x, S[t], p, s, t, l)
    BY <1>2, <2>2, <2>3 DEF Answered, Follows
  <2>5. QED BY <1>4, <2>1, <2>4 DEF Ans, x, t
<1>5. CASE t = a
  <2>1. T[s] = S[s]
    BY <1>1, <1>5
  <2> DEFINE x == T[a]
             v == S[a]
  <2>2. Follows(v, x)
    BY <1>3, <1>5
  <2>3. Answered(S[s], v, q, s, t, l)
    BY <1>2, <1>5
  <2> HIDE DEF x, v
  <2>4. Answered(S[s], x, p, s, t, l)
    BY <1>1, <1>2, <2>2, <2>3 DEF Answered, Follows
  <2>5. QED BY <1>5, <2>1, <2>4 DEF Ans, x, t
<1>6. CASE s # a /\ t # a
  <2>1. T[s] = S[s] /\ T[t] = S[t]
    BY <1>1, <1>6
  <2>2. Answered(S[s], S[t], p, s, t, l)
    BY <1>2 DEF Answered
  <2>3. QED BY <2>1, <2>2 DEF Ans, t
<1>7. QED BY <1>4, <1>5, <1>6

-------------------------------------------------------------------------------
(* How the lines change *)

LEMMA LineIsNat ==
  ASSUME NEW q, AirInv(q), NEW s, NEW l
  PROVE  /\ Len(q) \in Nat /\ DOMAIN q = 1 .. Len(q)
         /\ \A i \in Mine(q, s, l) : i \in Nat /\ i >= 1 /\ i <= Len(q)
<1>1. Len(q) \in Nat /\ DOMAIN q = 1 .. Len(q)
  BY DEF AirInv
<1>2. \A i \in Mine(q, s, l) : i \in 1 .. Len(q)
  BY <1>1 DEF Mine
<1>3. QED BY <1>1, <1>2

LEMMA TailLine ==
  ASSUME NEW q, AirInv(q), q # <<>>, NEW s, NEW l
  PROVE  /\ \A i \in Mine(Tail(q), s, l) : i \in Nat /\ i >= 1 /\ i + 1 \in Mine(q, s, l) /\ q[i + 1].is = Tail(q)[i].is
         /\ \A j \in Mine(q, s, l) : j = 1 \/ \E i \in Mine(Tail(q), s, l) : j = i + 1
<1> DEFINE p == Tail(q)
<1>1. AirInv(p) /\ Len(p) = Len(q) - 1 /\ \A i \in DOMAIN p : p[i] = q[i + 1]
  BY AirHead
<1> HIDE DEF p
<1>2. Len(q) \in Nat /\ DOMAIN q = 1 .. Len(q) /\ Len(p) \in Nat /\ DOMAIN p = 1 .. Len(p)
  BY <1>1, LineIsNat
<1>3. \A i \in Mine(p, s, l) : i \in Nat /\ i >= 1 /\ i + 1 \in Mine(q, s, l) /\ q[i + 1].is = p[i].is
  <2> SUFFICES ASSUME NEW i \in Mine(p, s, l)
               PROVE  i \in Nat /\ i >= 1 /\ i + 1 \in Mine(q, s, l) /\ q[i + 1].is = p[i].is
    OBVIOUS
  <2>1. i \in DOMAIN p /\ p[i] = q[i + 1] /\ p[i].to = s /\ p[i].on = l /\ p[i].is.kind = "bpdu"
    BY <1>1 DEF Mine
  <2>2. i + 1 \in DOMAIN q /\ i \in Nat /\ i >= 1
    BY <1>1, <1>2, <2>1
  <2>3. i + 1 \in Mine(q, s, l)
    BY <2>1, <2>2 DEF Mine
  <2>4. QED BY <2>1, <2>2, <2>3
<1>4. ASSUME NEW j \in Mine(q, s, l), j # 1 PROVE \E i \in Mine(p, s, l) : j = i + 1
  <2>1. j \in DOMAIN q /\ q[j].to = s /\ q[j].on = l /\ q[j].is.kind = "bpdu"
    BY DEF Mine
  <2>2. j - 1 \in DOMAIN p /\ j = (j - 1) + 1
    BY <1>1, <1>2, <1>4, <2>1
  <2>3. p[j - 1] = q[j]
    BY <1>1, <2>2
  <2>4. j - 1 \in Mine(p, s, l)
    BY <2>1, <2>2, <2>3 DEF Mine
  <2>5. QED BY <2>2, <2>4
<1>5. QED BY <1>3, <1>4 DEF p

LEMMA TailShifts ==
  ASSUME NEW q, AirInv(q), q # <<>>, NEW s, NEW l, 1 \notin Mine(q, s, l)
  PROVE  Shifted(Tail(q), q, s, l, 1)
<1>1. \A i \in Mine(Tail(q), s, l) : i \in Nat /\ i + 1 \in Mine(q, s, l) /\ q[i + 1].is = Tail(q)[i].is
  BY TailLine
<1>2. \A j \in Mine(q, s, l) : j = 1 \/ \E i \in Mine(Tail(q), s, l) : j = i + 1
  BY TailLine
<1>3. \A j \in Mine(q, s, l) : \E i \in Mine(Tail(q), s, l) : j = i + 1
  BY <1>2
<1>4. QED BY <1>1, <1>3 DEF Shifted

\* Where the frames of q and of out are in p, which is q and then out.
Appended(p, q, out, s, l) ==
  /\ Mine(p, s, l) = Mine(q, s, l) \cup {Len(q) + i : i \in Mine(out, s, l)}
  /\ \A i \in Mine(q, s, l) : p[i] = q[i]
  /\ \A i \in Mine(out, s, l) : p[Len(q) + i] = out[i]

LEMMA AppendLine ==
  ASSUME NEW q, AirInv(q), NEW out, AirInv(out), NEW s, NEW l
  PROVE  Appended(q \o out, q, out, s, l)
<1> DEFINE p == q \o out
<1>1. q \in Seq(FrameType \cup {Tick}) /\ out \in Seq(FrameType \cup {Tick})
  BY DEF AirInv
<1>2. /\ Len(p) = Len(q) + Len(out)
      /\ \A i \in DOMAIN p : p[i] = IF i <= Len(q) THEN q[i] ELSE out[i - Len(q)]
      /\ Len(q) \in Nat /\ Len(out) \in Nat /\ DOMAIN q = 1 .. Len(q) /\ DOMAIN out = 1 .. Len(out)
      /\ DOMAIN p = 1 .. Len(p)
  BY <1>1, ConcatProperties
<1> HIDE DEF p
<1>3. \A i \in DOMAIN q : i \in DOMAIN p /\ p[i] = q[i]
  BY <1>2
<1>4. \A i \in DOMAIN out : Len(q) + i \in DOMAIN p /\ p[Len(q) + i] = out[i]
  <2> SUFFICES ASSUME NEW i \in DOMAIN out PROVE Len(q) + i \in DOMAIN p /\ p[Len(q) + i] = out[i]
    OBVIOUS
  <2>1. Len(q) + i \in DOMAIN p /\ ~ (Len(q) + i <= Len(q)) /\ (Len(q) + i) - Len(q) = i
    BY <1>2
  <2>2. QED BY <1>2, <2>1
<1>5. \A j \in DOMAIN p : j \in DOMAIN q \/ \E i \in DOMAIN out : j = Len(q) + i
  <2> SUFFICES ASSUME NEW j \in DOMAIN p, j \notin DOMAIN q PROVE \E i \in DOMAIN out : j = Len(q) + i
    OBVIOUS
  <2>1. j - Len(q) \in DOMAIN out /\ j = Len(q) + (j - Len(q))
    BY <1>2
  <2>2. QED BY <2>1
<1>6. \A j \in Mine(p, s, l) : j \in Mine(q, s, l) \/ \E i \in Mine(out, s, l) : j = Len(q) + i
  BY <1>3, <1>4, <1>5 DEF Mine
<1>7. \A j \in Mine(q, s, l) : j \in Mine(p, s, l) /\ p[j] = q[j]
  BY <1>3 DEF Mine
<1>8. \A i \in Mine(out, s, l) : Len(q) + i \in Mine(p, s, l) /\ p[Len(q) + i] = out[i]
  BY <1>4 DEF Mine
<1>9. QED BY <1>6, <1>7, <1>8 DEF p, Appended

LEMMA AppendShifts ==
  ASSUME NEW q, AirInv(q), NEW out, AirInv(out), NEW s, NEW l, Mine(out, s, l) = {}
  PROVE  Shifted(q \o out, q, s, l, 0) /\ Mine(q \o out, s, l) = Mine(q, s, l)
<1> DEFINE p == q \o out
           M == Mine(out, s, l)
<1>1. p = q \o out /\ M = {}
  OBVIOUS
<1>2. Appended(p, q, out, s, l)
  BY AppendLine
<1> HIDE DEF p
<1>3. (\A i \in Mine(q, s, l) : p[i] = q[i]) /\ Mine(p, s, l) = Mine(q, s, l) \cup {Len(q) + i : i \in M}
  BY <1>2 DEF Appended
<1> HIDE DEF M
<1>4. Mine(p, s, l) = Mine(q, s, l)
  BY <1>1, <1>3
<1> DEFINE Q == Mine(q, s, l)
<1>5. \A i \in Q : i \in Nat /\ i + 0 = i
  BY LineIsNat
<1>6. /\ \A i \in Q : i \in Nat /\ i + 0 \in Q /\ q[i + 0].is = p[i].is
      /\ \A j \in Q : \E i \in Q : j = i + 0
  <2> HIDE DEF Q
  <2>1. \A i \in Q : p[i] = q[i]
    BY <1>3 DEF Q
  <2>2. QED BY <1>5, <2>1
<1>7. Shifted(p, q, s, l, 0)
  BY <1>4, <1>6 DEF Shifted
<1>8. QED BY <1>1, <1>4, <1>7

LEMMA TickShifts ==
  ASSUME NEW q, AirInv(q), NEW s, NEW l
  PROVE  Shifted(Append(q, Tick), q, s, l, 0)
<1> DEFINE p == Append(q, Tick)
<1>1. AirInv(p) /\ Len(p) = Len(q) + 1 /\ p[Len(q) + 1] = Tick /\ \A i \in DOMAIN q : p[i] = q[i]
  BY AirTick
<1> HIDE DEF p
<1>2. Len(q) \in Nat /\ DOMAIN q = 1 .. Len(q) /\ DOMAIN p = 1 .. Len(p)
  BY <1>1, LineIsNat
<1>3. \A i \in DOMAIN p : i \in DOMAIN q \/ p[i] = Tick
  BY <1>1, <1>2
<1>4. Tick.is.kind # "bpdu"
  BY DEF Tick
<1>5. \A i \in Mine(p, s, l) : i \in Mine(q, s, l) /\ p[i] = q[i]
  BY <1>1, <1>3, <1>4 DEF Mine
<1>6. \A i \in Mine(q, s, l) : i \in Mine(p, s, l) /\ i \in Nat /\ i + 0 = i
  BY <1>1, <1>2 DEF Mine
<1>7. QED BY <1>5, <1>6 DEF Shifted, p

LEMMA ShiftedEmpty ==
  ASSUME NEW p, NEW q, NEW s, NEW l, NEW d, Shifted(p, q, s, l, d)
  PROVE  Mine(p, s, l) = {} <=> Mine(q, s, l) = {}
BY DEF Shifted

\* What holds of the switches, but for the lines.
Sane(S) ==
  /\ \A s \in Switches : S[s].on /\ Tree(s, S[s]) /\ S[s].cost = PortCost * S[s].age
  /\ \A l \in Links : l \in S[End1[l]].live <=> l \in S[End2[l]].live

\* Nothing is said, and switch a only learns where a station is.
LEMMA TalkingSame ==
  ASSUME NEW S, NEW T, NEW q, NEW p, Talking(S, q), NEW a \in Switches, SameSwitch(S[a], T[a]),
         T[a].pending = S[a].pending, \A t \in Switches \ {a} : T[t] = S[t],
         \A s \in Switches : \A l \in Ports(s) : \E d \in Nat : Shifted(p, q, s, l, d)
  PROVE  Talking(T, p)
<1> DEFINE w == S[a]
           x == T[a]
<1>1. /\ x.live = w.live /\ x.heard = w.heard /\ x.on = w.on /\ Me(a, x) = Me(a, w) /\ Follows(w, x)
      /\ x.cost = w.cost /\ x.age = w.age
  BY DEF SameSwitch, Same, Me, Follows
<1>2. Tree(a, w) => Tree(a, x)
  BY SameTree
<1>3. Sane(T)
  <2>1. Sane(S)
    BY DEF Talking, Sane
  <2>2. \A s \in Switches : T[s].on /\ Tree(s, T[s]) /\ T[s].cost = PortCost * T[s].age
    BY <1>1, <1>2, <2>1 DEF Sane
  <2>3. \A s \in Switches : T[s].live = S[s].live
    BY <1>1
  <2>4. QED BY <2>1, <2>2, <2>3, StpAssumption DEF Sane
<1>4. ASSUME NEW s \in Switches, NEW l \in Ports(s)
      PROVE  Chan(T, p, s, l) /\ Ans(T, p, s, l)
  <2>1. Chan(S, q, s, l) /\ Ans(S, q, s, l)
    BY DEF Talking, Chan, Ans
  <2>2. PICK d \in Nat : Shifted(p, q, s, l, d)
    OBVIOUS
  <2>3. Chan(S, p, s, l)
    BY <2>1, <2>2, ShiftedChannel DEF Chan
  <2>4. Chan(T, p, s, l)
    BY <1>1, <2>3, ChannelMoves
  <2> DEFINE t == Other(l, s)
  <2>5. t \in Switches /\ l \in Ports(t)
    BY OtherEnd
  <2>6. (Mine(p, s, l) = {} => Mine(q, s, l) = {}) /\ (Mine(p, t, l) = {} => Mine(q, t, l) = {})
    BY <2>2, <2>5, ShiftedEmpty
  <2>7. Ans(T, p, s, l)
    BY <1>1, <2>1, <2>6, AnswerMoves
  <2>8. QED BY <2>4, <2>7
<1>5. QED BY <1>3, <1>4 DEF Talking, Sane, Chan, Ans

\* b is the only BPDU of out for s on l.
OneOut(out, s, l, b) == \E k \in DOMAIN out : Mine(out, s, l) = {k} /\ out[k].is = b

\* What is sent on the ports ls of switch a comes to the other ends, one frame to each.
LEMMA OutLine ==
  ASSUME NEW a \in Switches, NEW ls \in SUBSET Ports(a), NEW what, NEW out, OnePerPort(a, ls, what, out),
         NEW s \in Switches, NEW l \in Ports(s)
  PROVE  /\ l \notin ls \/ Other(l, s) # a => Mine(out, s, l) = {}
         /\ l \in ls /\ Other(l, s) = a /\ what[l].kind = "bpdu" => OneOut(out, s, l, what[l])
<1>1. \A i \in DOMAIN out : out[i].on \in ls /\ out[i].to = Other(out[i].on, a) /\ out[i].is = what[out[i].on]
  <2>1. \A i \in DOMAIN out : out[i].to = Other(out[i].on, a) /\ out[i].is = what[out[i].on]
    BY SentFrames
  <2>2. QED BY <2>1 DEF OnePerPort
<1>2. ASSUME NEW i \in DOMAIN out, out[i].to = s, out[i].on = l PROVE l \in ls /\ Other(l, s) = a
  <2>1. l \in ls /\ s = Other(l, a) /\ l \in Ports(a)
    BY <1>1, <1>2
  <2>2. QED BY <2>1, OtherEnd
<1>3. l \notin ls \/ Other(l, s) # a => Mine(out, s, l) = {}
  BY <1>2 DEF Mine
<1>4. ASSUME l \in ls, Other(l, s) = a, what[l].kind = "bpdu"
      PROVE  OneOut(out, s, l, what[l])
  <2>1. PICK k \in DOMAIN out : out[k].on = l
    BY <1>4 DEF OnePerPort
  <2>2. out[k].to = Other(l, a) /\ out[k].is = what[l]
    BY <1>1, <2>1
  <2>3. Other(l, a) = s
    BY <1>4, OtherEnd
  <2>4. k \in Mine(out, s, l)
    BY <1>4, <2>1, <2>2, <2>3 DEF Mine
  <2>5. \A i \in Mine(out, s, l) : i = k
    BY <2>1 DEF Mine, OnePerPort
  <2>6. QED BY <2>2, <2>4, <2>5 DEF OneOut
<1>5. QED BY <1>3, <1>4

LEMMA SaidChannel ==
  ASSUME NEW q, AirInv(q), NEW out, AirInv(out), NEW s, NEW t, NEW l, NEW k \in DOMAIN out,
         Mine(out, s, l) = {k}, NEW w, NEW v, NEW x, Channel(w, v, q, s, t, l), l \in w.live,
         NEW b, b = out[k].is, Proper(b, l), b.bridge = Me(t, v),
         Me(t, x) = Me(t, v) \/ TooOld(b), ~ x.pending => Says(b, t, x)
  PROVE  Channel(w, x, q \o out, s, t, l) /\ Mine(q \o out, s, l) # {}
<1> DEFINE p == q \o out
           n == Len(q) + k
           M == Mine(out, s, l)
           Q == Mine(q, s, l)
<1>1. Appended(p, q, out, s, l)
  BY AppendLine
<1>2. M = {k} /\ k \in Nat /\ k >= 1
  BY LineIsNat
<1>3. Len(q) \in Nat /\ \A i \in Q : i \in Nat /\ i <= Len(q)
  BY LineIsNat
<1> HIDE DEF p
<1>4. /\ Mine(p, s, l) = Q \cup {Len(q) + i : i \in M} /\ \A i \in Q : p[i] = q[i]
      /\ \A i \in M : p[Len(q) + i] = out[i]
  BY <1>1 DEF Appended
<1> HIDE DEF M
<1>5. Mine(p, s, l) = Q \cup {n} /\ p[n].is = b /\ n \in Nat
  BY <1>2, <1>3, <1>4
<1>6. \A i \in Q : i \in Nat /\ i < n /\ p[i].is = q[i].is
  <2> HIDE DEF Q
  <2>1. QED BY <1>2, <1>3, <1>4
<1> HIDE DEF n
<1>7. /\ Proper(p[n].is, l) /\ p[n].is.bridge = Me(t, v) /\ (Me(t, x) = Me(t, v) \/ TooOld(p[n].is))
      /\ (~ x.pending => Says(p[n].is, t, x))
  BY <1>5
<1>8. Channel(w, x, p, s, t, l)
  BY <1>5, <1>6, <1>7, AppendedChannel
<1>9. QED BY <1>5, <1>8 DEF p

\* Switch a goes from one state to another and speaks on the ports ls.
LEMMA SpokenChannel ==
  ASSUME NEW S, NEW T, NEW q, AirInv(q), NEW a \in Switches, NEW ls \in SUBSET Ports(a), NEW what, NEW out,
         OnePerPort(a, ls, what, out), \A t \in Switches \ {a} : T[t] = S[t],
         NEW s \in Switches, NEW l \in Ports(s), Chan(S, q, s, l),
         s = a => (l \in T[a].live <=> l \in S[a].live) /\ T[a].heard[l] \in {S[a].heard[l], None},
         Other(l, s) = a /\ l \in ls =>
            /\ what[l].kind = "bpdu" /\ Proper(what[l], l) /\ what[l].bridge = Me(a, S[a])
            /\ Me(a, T[a]) = Me(a, S[a]) \/ TooOld(what[l])
            /\ ~ T[a].pending => Says(what[l], a, T[a])
            /\ l \in S[s].live,
         Other(l, s) = a /\ l \notin ls =>
            l \notin S[s].live \/ (Follows(S[a], T[a]) /\ Me(a, T[a]) = Me(a, S[a]))
  PROVE  Chan(T, q \o out, s, l)
<1> DEFINE t == Other(l, s)
           p == q \o out
<1>1. t \in Switches /\ t # s /\ l \in Links
  BY OtherEnd
<1>2. AirInv(out)
  BY SentFrames
<1>3. CASE t = a /\ l \in ls
  <2>0. OneOut(out, s, l, what[l])
    BY <1>3, OutLine
  <2>1. PICK k \in DOMAIN out : Mine(out, s, l) = {k} /\ out[k].is = what[l]
    BY <2>0 DEF OneOut
  <2> DEFINE b == what[l]
             x == T[a]
             v == S[a]
  <2>2. /\ b = out[k].is /\ Proper(b, l) /\ b.bridge = Me(t, v)
        /\ Me(t, x) = Me(t, v) \/ TooOld(b)
        /\ ~ x.pending => Says(b, t, x)
        /\ l \in S[s].live /\ Channel(S[s], v, q, s, t, l)
    BY <1>3, <2>1 DEF Chan
  <2> HIDE DEF b, x, v, t
  <2>3. Channel(S[s], x, q \o out, s, t, l)
    BY <1>2, <2>1, <2>2, SaidChannel
  <2>4. T[s] = S[s] /\ T[t] = x
    BY <1>1, <1>3 DEF x
  <2>5. QED BY <2>3, <2>4 DEF Chan, t
<1>4. CASE ~ (t = a /\ l \in ls)
  <2>1. Mine(out, s, l) = {}
    BY <1>4, OutLine
  <2>2. Shifted(p, q, s, l, 0)
    BY <1>2, <2>1, AppendShifts
  <2>3. Mine(p, s, l) = {} <=> Mine(q, s, l) = {}
    BY <2>2, ShiftedEmpty
  <2> HIDE DEF p
  <2>4. Chan(S, p, s, l)
    BY <2>2, ShiftedChannel DEF Chan
  <2>5. CASE t = a /\ l \notin S[s].live
    <3>1. T[s] = S[s]
      BY <1>1, <2>5
    <3>2. S[s].heard[l] = None /\ Mine(p, s, l) = {}
      BY <2>4, <2>5 DEF Chan, Channel
    <3> DEFINE w == S[s]
    <3>3. w.heard[l] = None /\ l \notin w.live
      BY <2>5, <3>2
    <3> HIDE DEF w, t
    <3>4. Channel(w, T[t], p, s, t, l)
      BY <3>2, <3>3 DEF Channel
    <3>5. QED BY <3>1, <3>4 DEF Chan, w, t, p
  <2>6. CASE ~ (t = a /\ l \notin S[s].live)
    <3>1. Other(l, s) = a => Follows(S[a], T[a]) /\ Me(a, T[a]) = Me(a, S[a])
      BY <1>4, <2>6
    <3>2. QED BY <2>4, <3>1, ChannelMoves DEF p
  <2>7. QED BY <2>5, <2>6
<1>5. QED BY <1>3, <1>4

LEMMA LiveBoth ==
  ASSUME NEW S, Sane(S), NEW s \in Switches, NEW l \in Ports(s)
  PROVE  l \in S[s].live <=> l \in S[Other(l, s)].live
<1>1. l \in Links /\ {End1[l], End2[l]} = {s, Other(l, s)}
  BY OtherEnd
<1>2. l \in S[End1[l]].live <=> l \in S[End2[l]].live
  BY <1>1 DEF Sane
<1>3. QED BY <1>1, <1>2, StpAssumption

LEMMA TalkingIs ==
  ASSUME NEW S, NEW q
  PROVE  Talking(S, q) <=>
           /\ Sane(S)
           /\ \A s \in Switches : \A l \in Ports(s) : Chan(S, q, s, l) /\ Ans(S, q, s, l)
BY DEF Talking, Sane, Chan, Ans

-------------------------------------------------------------------------------
(* The steps, while all run the tree *)

\* The roles are those the vectors give.
LEMMA InCharge ==
  ASSUME NEW s, NEW w, Tree(s, w), NEW l \in Links, l \in Ports(s), l \in w.live
  PROVE  /\ w.role[l] # "none"
         /\ w.role[l] = "root" <=> l = w.port
         /\ w.role[l] = "designated" <=>
              l # w.port /\ (w.heard[l] = None \/ Better(MyVector(s, w, l), Vector(w.heard[l])))
<1>1. w.role[l] = RoleOf(s, w, l)
  BY DEF Tree
<1>2. CASE l = w.port
  BY <1>1, <1>2 DEF RoleOf
<1>3. CASE l # w.port /\ w.heard[l] = None
  BY <1>1, <1>3 DEF RoleOf
<1>4. CASE l # w.port /\ w.heard[l] # None
  <2> DEFINE good == Better(MyVector(s, w, l), Vector(w.heard[l]))
             c == w.role[l]
  <2>1. c = IF good THEN "designated" ELSE "alternate"
    BY <1>1, <1>4 DEF RoleOf
  <2> HIDE DEF good, c
  <2>2. c # "none" /\ c # "root" /\ (c = "designated" <=> good)
    BY <2>1
  <2>3. c # "none" /\ (c = "root" <=> l = w.port)
        /\ (c = "designated" <=> l # w.port /\ (w.heard[l] = None \/ good))
    BY <1>4, <2>2
  <2>4. QED BY <2>3 DEF good, c
<1>5. QED BY <1>2, <1>3, <1>4

\* Handling a BPDU b that has come to s on l.
Handled(s, w, l, b, r) ==
  /\ r.w \in SwitchType /\ Fit(s, r.w) /\ r.w.on = w.on /\ r.w.live = w.live /\ Me(s, r.w) = Me(s, w)
  /\ \A k \in Links \ {l} : r.w.heard[k] = w.heard[k]
  /\ r.w.heard[l] = IF TooOld(b) THEN None ELSE b
  /\ Tree(s, r.w) /\ r.w.cost = PortCost * r.w.age /\ Follows(w, r.w) /\ (w.pending => r.w.pending)
  /\ ~ r.w.pending /\ ~ TooOld(b) /\ r.w.role[l] = "designated" => r.reply

LEMMA HandleTree ==
  ASSUME NEW s \in Switches, NEW w \in SwitchType, Fit(s, w), Tree(s, w), w.cost = PortCost * w.age,
         \A k \in w.live : w.heard[k] # None => Proper(w.heard[k], k),
         NEW l \in w.live, NEW b \in BpduType, Proper(b, l),
         Refused(w.heard[l], b) => w.heard[l] = None /\ TooOld(b)
  PROVE  Handled(s, w, l, b, Handle(s, w, l, b))
<1> DEFINE y == HeardTc(w, b)
           r == Handle(s, w, l, b)
           x == r.w
<1> SUFFICES Handled(s, w, l, b, r)
  OBVIOUS
<1>1. y \in SwitchType /\ SameSwitch(w, y) /\ (w.pending => y.pending)
  BY HeardTcDoes
<1>2. l \in Links /\ l \in Ports(s) /\ w.live \subseteq Links
  BY DEF Fit, SwitchType
<1>3. x \in SwitchType /\ Fit(s, x) /\ x.on = w.on /\ (w.pending => x.pending)
  BY <1>2, HandleFits
<1> HIDE DEF y
<1>4. Young(y) /\ y.live = w.live /\ y.heard = w.heard /\ y.on = w.on /\ y.prio = w.prio
  BY <1>1 DEF Fit, Young, SameSwitch, Same
<1>5. Believes(s, y, l, b, r)
  <2>1. Believes(s, y, l, b, Believe(s, y, l, b))
    BY <1>1, <1>2, <1>4, BelieveDoes
  <2>2. QED BY <2>1 DEF Handle, y
<1> HIDE DEF r
<1>6. CASE Refused(y.heard[l], b)
  <2>1. TooOld(b) /\ x.heard[l] = None /\ x = y
    BY <1>4, <1>5, <1>6 DEF Believes
  <2>2. Tree(s, y)
    BY <1>1, SameTree
  <2>3. Follows(w, y) /\ y.cost = w.cost /\ y.age = w.age
    BY <1>1 DEF Follows, SameSwitch
  <2>4. Me(s, x) = Me(s, w)
    BY <1>4, <2>1 DEF Me
  <2>5. \A k \in Links \ {l} : x.heard[k] = w.heard[k]
    BY <1>4, <2>1
  <2>6. x.live = w.live /\ Tree(s, x) /\ x.cost = PortCost * x.age /\ Follows(w, x)
    BY <1>4, <2>1, <2>2, <2>3
  <2>7. x.heard[l] = IF TooOld(b) THEN None ELSE b
    BY <2>1
  <2>8. ~ (~ x.pending /\ ~ TooOld(b) /\ x.role[l] = "designated")
    BY <2>1
  <2> HIDE DEF x
  <2>9. QED BY <1>3, <2>4, <2>5, <2>6, <2>7, <2>8 DEF Handled, x
<1>7. CASE ~ Refused(y.heard[l], b)
  <2> DEFINE h == IF TooOld(b) THEN None ELSE b
             z == Hears(y, l, h)
  <2>1. PICK c \in BOOLEAN :
          /\ Settles(s, z, FALSE, [w |-> x, changed |-> c])
          /\ r.reply = (~ TooOld(b) /\ ~ c /\ MustTell(s, x, l, b))
    BY <1>5, <1>7 DEF Believes
  <2>2. h \in Heard /\ (h # None => h = b)
    BY DEF Heard
  <2> HIDE DEF h
  <2>3. /\ z \in SwitchType /\ z.heard[l] = h /\ \A k \in Links \ {l} : z.heard[k] = y.heard[k]
        /\ z = [y EXCEPT !.heard = z.heard]
    BY <1>1, <1>2, <2>2, HearsType
  <2> HIDE DEF z
  <2>4. /\ z.on = y.on /\ z.prio = y.prio /\ z.live = y.live /\ z.root = y.root /\ z.cost = y.cost
        /\ z.age = y.age /\ z.pending = y.pending /\ z.role = y.role
    BY <1>1, <2>3 DEF SwitchType
  <2> DEFINE q == [w |-> x, changed |-> c]
  <2>5. Settles(s, z, FALSE, q) /\ q.w = x /\ q.changed = c
    BY <2>1
  <2> HIDE DEF q
  <2>6. Same(z, x) /\ Tree(s, x) /\ (c => x.pending)
    BY <2>5 DEF Settles
  <2>7. x.live = w.live /\ x.prio = w.prio /\ x.heard = z.heard
    BY <1>4, <2>4, <2>6 DEF Same
  <2>8. x.heard[l] = h /\ \A k \in Links \ {l} : x.heard[k] = w.heard[k]
    BY <1>4, <2>3, <2>7
  <2>9. \A k \in x.live : x.heard[k] # None => Proper(x.heard[k], k)
    BY <1>2, <2>2, <2>7, <2>8
  <2>10. x.cost = PortCost * x.age
    BY <1>3, <2>6, <2>9, CostIsAge DEF Fit
  <2>11. z.cost = PortCost * z.age
    BY <1>1, <2>4 DEF SameSwitch
  <2>12. Follows(z, x)
    <3>1. q.w.cost = PortCost * q.w.age
      BY <2>5, <2>10
    <3>2. Follows(z, q.w)
      BY <2>3, <2>5, <2>11, <3>1, SettlesFollows
    <3>3. QED BY <2>5, <3>2
  <2>13. Follows(w, x)
    BY <1>1, <2>4, <2>12 DEF Follows, SameSwitch
  <2>14. Me(s, x) = Me(s, w)
    BY <2>7 DEF Me
  <2>15. ASSUME ~ x.pending, ~ TooOld(b), x.role[l] = "designated" PROVE r.reply
    <3>1. ~ c
      BY <2>6, <2>15
    <3>2. x.heard[l] = b /\ b # None
      BY <2>8, <2>15, StpAssumption DEF h
    <3>3. Better(MyVector(s, x, l), Vector(x.heard[l]))
      BY <1>2, <2>6, <2>7, <2>15, <3>2, InCharge
    <3>4. QED BY <2>1, <2>15, <3>1, <3>2, <3>3 DEF MustTell
  <2>16. x.heard[l] = IF TooOld(b) THEN None ELSE b
    BY <2>8 DEF h
  <2>17. Tree(s, x) /\ x.live = w.live /\ (\A k \in Links \ {l} : x.heard[k] = w.heard[k])
    BY <2>6, <2>7, <2>8
  <2> HIDE DEF x
  <2>18. /\ x \in SwitchType /\ Fit(s, x) /\ x.on = w.on /\ x.live = w.live /\ Me(s, x) = Me(s, w)
         /\ \A k \in Links \ {l} : x.heard[k] = w.heard[k]
         /\ x.heard[l] = IF TooOld(b) THEN None ELSE b
         /\ Tree(s, x) /\ x.cost = PortCost * x.age /\ Follows(w, x) /\ (w.pending => x.pending)
         /\ ~ x.pending /\ ~ TooOld(b) /\ x.role[l] = "designated" => r.reply
    BY <1>3, <2>10, <2>13, <2>14, <2>15, <2>16, <2>17
  <2>19. QED BY <2>18 DEF Handled, x
<1>8. QED BY <1>6, <1>7


LEMMA LineGrows ==
  ASSUME NEW q, AirInv(q), NEW out, AirInv(out), NEW s, NEW l, Mine(q \o out, s, l) = {}
  PROVE  Mine(q, s, l) = {} /\ Mine(out, s, l) = {}
<1> DEFINE p == q \o out
<1>1. Appended(p, q, out, s, l) /\ Mine(p, s, l) = {}
  BY AppendLine
<1> HIDE DEF p
<1>2. Mine(q, s, l) \cup {Len(q) + i : i \in Mine(out, s, l)} = {}
  BY <1>1 DEF Appended
<1>3. QED BY <1>2

LEMMA TailEmpty ==
  ASSUME NEW q, AirInv(q), q # <<>>, NEW s, NEW l, Mine(Tail(q), s, l) = {}
  PROVE  /\ 1 \notin Mine(q, s, l) => Mine(q, s, l) = {}
         /\ 1 \in Mine(q, s, l) => LastOf(q, s, l, 1)
<1>1. \A j \in Mine(q, s, l) : j = 1 \/ \E i \in Mine(Tail(q), s, l) : j = i + 1
  BY TailLine
<1>2. \A j \in Mine(q, s, l) : j = 1
  BY <1>1
<1>3. QED BY <1>2 DEF LastOf

LEMMA SameFollows ==
  ASSUME NEW w
  PROVE  Follows(w, w)
BY DEF Follows

\* What a BPDU of switch s tells.
LEMMA BpduSays ==
  ASSUME NEW s, NEW w, NEW l, w.cost = PortCost * w.age
  PROVE  /\ Bpdu(s, w, l).kind = "bpdu" /\ Proper(Bpdu(s, w, l), l) /\ Bpdu(s, w, l).bridge = Me(s, w)
         /\ Says(Bpdu(s, w, l), s, w)
BY DEF Bpdu, Proper, Says

\* The first BPDU of the queue q is b, for switch a on cable k, which goes on as r says.
Taken(S, T, q, a, k, b, r) ==
  /\ SwInv(S) /\ AirInv(q) /\ q # <<>> /\ Talking(S, q)
  /\ q[1].to = a /\ q[1].on = k /\ q[1].is = b
  /\ r = Handle(a, S[a], k, b) /\ T[a] = r.w /\ \A t \in Switches \ {a} : T[t] = S[t]

LEMMA TakenHandled ==
  ASSUME NEW S, NEW T, NEW q, NEW a \in Switches, NEW k \in Ports(a), NEW b \in BpduType, NEW r,
         Taken(S, T, q, a, k, b, r)
  PROVE  /\ 1 \in Mine(q, a, k) /\ k \in S[a].live /\ Handled(a, S[a], k, b, r) /\ Sane(T)
<1>1. SwInv(S) /\ AirInv(q) /\ q # <<>> /\ Talking(S, q) /\ Sane(S)
  BY TalkingIs DEF Taken
<1>2. 1 \in Mine(q, a, k)
  <2>1. b.kind = "bpdu"
    BY DEF BpduType
  <2>2. Len(q) \in Nat /\ DOMAIN q = 1 .. Len(q) /\ 1 \in DOMAIN q
    BY <1>1 DEF AirInv
  <2>3. QED BY <2>1, <2>2 DEF Mine, Taken
<1> DEFINE w == S[a]
           t == Other(k, a)
           v == S[t]
<1>3. Channel(w, v, q, a, t, k)
  BY <1>1, TalkingIs DEF Chan
<1>4. \A i \in Mine(q, a, k) : i \in Nat /\ i >= 1
  BY <1>1, LineIsNat
<1>5. w \in SwitchType /\ Fit(a, w) /\ Tree(a, w) /\ w.cost = PortCost * w.age /\ w.on
  BY <1>1 DEF SwInv, Sane
<1>6. \A j \in w.live : w.heard[j] # None => Proper(w.heard[j], j)
  <2> SUFFICES ASSUME NEW j \in w.live PROVE w.heard[j] # None => Proper(w.heard[j], j)
    OBVIOUS
  <2>1. j \in Ports(a)
    BY <1>5 DEF Fit
  <2>2. Chan(S, q, a, j)
    BY <1>1, <2>1, TalkingIs
  <2>3. QED BY <2>2 DEF Chan, Channel
<1>7. q[1].is = b /\ r = Handle(a, w, k, b) /\ T[a] = r.w /\ \A u \in Switches \ {a} : T[u] = S[u]
  BY DEF Taken
<1> HIDE DEF v, t
<1>8. k \in w.live /\ Proper(b, k)
  BY <1>2, <1>3, <1>7 DEF Channel
<1>9. Refused(w.heard[k], q[1].is) => w.heard[k] = None /\ TooOld(q[1].is)
  <2> HIDE DEF w
  <2>1. QED BY <1>2, <1>3, <1>4, RefusedIs
<1>10. Handled(a, w, k, b, r)
  <2> HIDE DEF w
  <2>1. Refused(w.heard[k], b) => w.heard[k] = None /\ TooOld(b)
    BY <1>7, <1>9
  <2>2. Handled(a, w, k, b, Handle(a, w, k, b))
    BY <1>5, <1>6, <1>8, <2>1, HandleTree
  <2>3. QED BY <1>7, <2>2
<1>11. Sane(T)
  <2>1. T[a].on /\ Tree(a, T[a]) /\ T[a].cost = PortCost * T[a].age /\ T[a].live = S[a].live
    BY <1>5, <1>7, <1>10 DEF Handled
  <2>2. \A s \in Switches : T[s].on /\ Tree(s, T[s]) /\ T[s].cost = PortCost * T[s].age /\ T[s].live = S[s].live
    BY <1>1, <1>7, <2>1 DEF Sane
  <2>3. \A l \in Links : l \in T[End1[l]].live <=> l \in T[End2[l]].live
    BY <1>1, <2>2, StpAssumption DEF Sane
  <2>4. QED BY <2>2, <2>3 DEF Sane
<1>12. QED BY <1>2, <1>8, <1>10, <1>11

LEMMA TakenChannel ==
  ASSUME NEW S, NEW T, NEW q, NEW a \in Switches, NEW k \in Ports(a), NEW b \in BpduType, NEW r,
         Taken(S, T, q, a, k, b, r), NEW s \in Switches, NEW l \in Ports(s)
  PROVE  Chan(T, Tail(q), s, l)
<1> DEFINE p == Tail(q)
           t == Other(l, s)
<1>1. AirInv(q) /\ q # <<>> /\ q[1].is = b /\ q[1].to = a /\ q[1].on = k /\ T[a] = r.w
      /\ \A u \in Switches \ {a} : T[u] = S[u]
  BY DEF Taken
<1>2. Chan(S, q, s, l)
  BY TalkingIs DEF Taken
<1>3. 1 \in Mine(q, a, k) /\ k \in S[a].live /\ Handled(a, S[a], k, b, r)
  BY TakenHandled
<1>4. t \in Switches /\ t # s /\ l \in Links
  BY OtherEnd
<1>5. CASE s = a /\ l = k
  <2> DEFINE w == S[s]
             v == S[t]
             x == T[s]
  <2>1. Channel(w, v, q, s, t, l) /\ 1 \in Mine(q, s, l)
    BY <1>2, <1>3, <1>5 DEF Chan
  <2>2. \A i \in Mine(q, s, l) : i \in Nat /\ i >= 1
    BY <1>1, LineIsNat
  <2>3. /\ \A i \in Mine(p, s, l) : i \in Nat /\ i >= 1 /\ i + 1 \in Mine(q, s, l) /\ q[i + 1].is = p[i].is
        /\ \A j \in Mine(q, s, l) : j = 1 \/ \E i \in Mine(p, s, l) : j = i + 1
    BY <1>1, TailLine
  <2>4. l \in x.live /\ x.heard[l] = IF TooOld(q[1].is) THEN None ELSE q[1].is
    BY <1>1, <1>3, <1>5 DEF Handled
  <2>5. T[t] = v
    BY <1>1, <1>4, <1>5
  <2> HIDE DEF p, w, v, x, t
  <2>6. Channel(x, v, p, s, t, l)
    BY <2>1, <2>2, <2>3, <2>4, ReceivedChannel
  <2>7. QED BY <2>5, <2>6 DEF Chan, x, t, p
<1>6. CASE ~ (s = a /\ l = k)
  <2>1. 1 \notin Mine(q, s, l)
    BY <1>1, <1>6 DEF Mine
  <2>2. Shifted(p, q, s, l, 1)
    BY <1>1, <2>1, TailShifts
  <2> HIDE DEF p
  <2>3. Chan(S, p, s, l)
    BY <1>2, <2>2, ShiftedChannel DEF Chan
  <2>4. s = a => (l \in T[a].live <=> l \in S[a].live) /\ T[a].heard[l] \in {S[a].heard[l], None}
    BY <1>1, <1>3, <1>4, <1>6 DEF Handled
  <2>5. Follows(S[a], T[a]) /\ Me(a, T[a]) = Me(a, S[a])
    BY <1>1, <1>3 DEF Handled
  <2>6. Chan(T, p, s, l)
    BY ZenonT(60), <1>1, <2>3, <2>4, <2>5, ChannelMoves
  <2>7. QED BY <2>6 DEF p
<1>7. QED BY <1>5, <1>6

\* The answer of a switch in state T[a].
Replies(T, a, k, r, out) ==
  OnePerPort(a, IF r.reply THEN {k} ELSE {}, [j \in {k} |-> Bpdu(a, T[a], j)], out)

LEMMA RepliedChannel ==
  ASSUME NEW S, NEW T, NEW q, NEW a \in Switches, NEW k \in Ports(a), NEW b \in BpduType, NEW r,
         Taken(S, T, q, a, k, b, r), NEW out, Replies(T, a, k, r, out),
         NEW s \in Switches, NEW l \in Ports(s)
  PROVE  Chan(T, Tail(q) \o out, s, l)
<1> DEFINE p == Tail(q)
           ls == IF r.reply THEN {k} ELSE {}
           what == [j \in {k} |-> Bpdu(a, T[a], j)]
<1>1. AirInv(p)
  BY AirHead DEF Taken
<1>2. Chan(T, p, s, l)
  BY TakenChannel
<1>3. k \in S[a].live /\ Handled(a, S[a], k, b, r) /\ Sane(T)
  BY TakenHandled
<1>4. OnePerPort(a, ls, what, out) /\ ls \in SUBSET Ports(a) /\ ls \subseteq {k}
  BY DEF Replies
<1>5. ASSUME Other(l, s) = a, l \in ls
      PROVE  /\ what[l].kind = "bpdu" /\ Proper(what[l], l) /\ what[l].bridge = Me(a, T[a])
             /\ Says(what[l], a, T[a]) /\ l \in T[s].live
  <2>1. l = k /\ what[l] = Bpdu(a, T[a], l)
    BY <1>4, <1>5
  <2>2. T[a].cost = PortCost * T[a].age /\ k \in T[a].live
    BY <1>3 DEF Handled, Taken, Sane
  <2>3. l \in T[s].live
    BY <1>3, <1>5, <2>1, <2>2, LiveBoth
  <2> HIDE DEF what
  <2>4. QED BY <2>1, <2>2, <2>3, BpduSays
<1> HIDE DEF p, ls, what
<1>6. Follows(T[a], T[a])
  BY SameFollows
<1>7. Chan(T, p \o out, s, l)
  BY <1>1, <1>2, <1>4, <1>5, <1>6, SpokenChannel
<1>8. QED BY <1>7 DEF p


LEMMA RepliedAnswer ==
  ASSUME NEW S, NEW T, NEW q, NEW a \in Switches, NEW k \in Ports(a), NEW b \in BpduType, NEW r,
         Taken(S, T, q, a, k, b, r), NEW out, Replies(T, a, k, r, out),
         NEW s \in Switches, NEW l \in Ports(s)
  PROVE  Ans(T, Tail(q) \o out, s, l)
<1> DEFINE p == Tail(q)
           n == p \o out
           t == Other(l, s)
           ls == IF r.reply THEN {k} ELSE {}
           what == [j \in {k} |-> Bpdu(a, T[a], j)]
<1>1. AirInv(q) /\ q # <<>> /\ q[1].is = b /\ q[1].to = a /\ q[1].on = k /\ T[a] = r.w
      /\ (\A u \in Switches \ {a} : T[u] = S[u]) /\ AirInv(p)
  BY AirHead DEF Taken
<1>2. Ans(S, q, s, l) /\ Chan(S, q, a, k)
  BY TalkingIs DEF Taken
<1>3. 1 \in Mine(q, a, k) /\ k \in S[a].live /\ Handled(a, S[a], k, b, r) /\ Sane(T)
  BY TakenHandled
<1>4. t \in Switches /\ t # s /\ l \in Links /\ l \in Ports(t) /\ Other(l, t) = s
  BY OtherEnd
<1>5. OnePerPort(a, ls, what, out) /\ ls \in SUBSET Ports(a)
  BY DEF Replies
<1> HIDE DEF ls, what
<1>6. AirInv(out)
  BY <1>5, SentFrames
<1>7. \A u \in {s, t} : Mine(n, u, l) = {} => Mine(p, u, l) = {} /\ Mine(out, u, l) = {}
  BY <1>1, <1>6, LineGrows
<1>8. \A u \in {s, t} : Mine(p, u, l) = {} => (1 \notin Mine(q, u, l) => Mine(q, u, l) = {})
                                              /\ (1 \in Mine(q, u, l) => LastOf(q, u, l, 1))
  BY <1>1, TailEmpty
<1>9. ASSUME LastOf(q, a, k, 1), TooOld(b), ~ S[Other(k, a)].pending
      PROVE  S[Other(k, a)].age > MaxAge
  <2> DEFINE o == Other(k, a)
             v == S[o]
  <2>1. Channel(S[a], v, q, a, o, k) /\ ~ v.pending
    BY <1>2, <1>9 DEF Chan
  <2> HIDE DEF o, v
  <2>2. Says(q[1].is, o, v)
    BY <1>3, <1>9, <2>1 DEF Channel
  <2>3. v.age > MaxAge
    BY <1>1, <1>9, <2>2 DEF Says, TooOld
  <2>4. QED BY <2>3 DEF o, v
<1> HIDE DEF p, n, t
<1>10. CASE s = a /\ l = k
  <2> DEFINE w == T[s]
             v == T[t]
  <2>1. ASSUME l \in w.live, w.heard[l] = None, Mine(n, s, l) = {}, ~ v.pending
        PROVE  v.age > MaxAge
    <3>1. TooOld(b)
      <4>1. w.heard[l] = IF TooOld(b) THEN None ELSE b
        BY <1>1, <1>3, <1>10 DEF Handled
      <4>2. b # None
        BY StpAssumption
      <4>3. QED BY <2>1, <4>1, <4>2
    <3>2. LastOf(q, a, k, 1)
      BY <1>3, <1>7, <1>8, <1>10, <2>1
    <3>3. v = S[Other(k, a)]
      BY <1>1, <1>4, <1>10 DEF t
    <3>4. QED BY <1>9, <2>1, <3>1, <3>2, <3>3
  <2> HIDE DEF w, v
  <2>2. Answered(w, v, n, s, t, l)
    BY <2>1 DEF Answered
  <2>3. QED BY <2>2 DEF Ans, w, v, t, n, p
<1>11. CASE t = a /\ l = k
  <2> DEFINE w == T[s]
             v == T[t]
  <2>1. ASSUME l \in w.live, Mine(n, s, l) = {}, ~ v.pending, v.role[l] = "designated", ~ w.pending,
               Mine(n, t, l) = {}
        PROVE  w.age > MaxAge
    <3>1. v = r.w /\ w = S[s] /\ Other(k, a) = s
      BY <1>1, <1>4, <1>11
    <3>2. CASE TooOld(b)
      <4>1. LastOf(q, a, k, 1)
        BY <1>3, <1>7, <1>8, <1>11, <2>1
      <4>2. QED BY <1>9, <2>1, <3>1, <3>2, <4>1
    <3>3. CASE ~ TooOld(b)
      <4>1. r.reply
        BY <1>3, <1>11, <2>1, <3>1, <3>3 DEF Handled
      <4>2. l \in ls /\ what[l] = Bpdu(a, T[a], l)
        BY <1>11, <4>1 DEF ls, what
      <4>3. what[l].kind = "bpdu"
        BY <4>2 DEF Bpdu
      <4>4. Other(l, s) = a
        BY <1>11 DEF t
      <4>5. OneOut(out, s, l, what[l])
        BY <1>5, <4>2, <4>3, <4>4, OutLine
      <4>6. Mine(out, s, l) # {}
        BY <4>5 DEF OneOut
      <4>7. QED BY <1>7, <2>1, <4>6
    <3>4. QED BY <3>2, <3>3
  <2> HIDE DEF w, v
  <2>2. Answered(w, v, n, s, t, l)
    BY <2>1 DEF Answered
  <2>3. QED BY <2>2 DEF Ans, w, v, t, n, p
<1>12. CASE ~ (s = a /\ l = k) /\ ~ (t = a /\ l = k)
  <2>1. 1 \notin Mine(q, s, l) /\ 1 \notin Mine(q, t, l)
    BY <1>1, <1>12 DEF Mine
  <2>2. (Mine(n, s, l) = {} => Mine(q, s, l) = {}) /\ (Mine(n, t, l) = {} => Mine(q, t, l) = {})
    BY <1>7, <1>8, <2>1
  <2>3. a \in {s, t} =>
          /\ Follows(S[a], T[a]) /\ (S[a].pending => T[a].pending)
          /\ l \in T[a].live <=> l \in S[a].live
          /\ T[a].heard[l] = S[a].heard[l]
    BY <1>1, <1>3, <1>4, <1>12 DEF Handled
  <2>4. /\ Mine(n, s, l) = {} => Mine(q, s, l) = {}
        /\ Mine(n, Other(l, s), l) = {} => Mine(q, Other(l, s), l) = {}
        /\ \A u \in Switches \ {a} : T[u] = S[u]
        /\ Ans(S, q, s, l)
    BY <1>1, <1>2, <2>2 DEF t
  <2>5. a \in {s, Other(l, s)} =>
          /\ Follows(S[a], T[a]) /\ (S[a].pending => T[a].pending)
          /\ l \in T[a].live <=> l \in S[a].live
          /\ T[a].heard[l] = S[a].heard[l]
    BY <2>3 DEF t
  <2>6. Ans(T, n, s, l)
    BY <2>4, <2>5, AnswerMoves
  <2>7. QED BY <2>6 DEF n, p
<1>13. QED BY <1>10, <1>11, <1>12

LEMMA ReceiveBpduTree ==
  ASSUME TInv, TreeInv, ReceiveBpdu PROVE TreeInv'
<1> SUFFICES ASSUME ~ stopped' PROVE Talking(sw', air')
  BY DEF TreeInv
<1> DEFINE a == Head(air).to
           k == Head(air).on
           b == Head(air).is
           r == Handle(a, sw[a], k, b)
           ls == IF r.reply THEN {k} ELSE {}
           what == [j \in {k} |-> Bpdu(a, r.w, j)]
           out == Frames(a, ls, what)
<1>1. Comes("bpdu") /\ Worked(a, r.w) /\ Received(out)
  BY DEF ReceiveBpdu
<1>2. ~ stopped /\ air' = Tail(air) \o out
  BY <1>1 DEF Received
<1>3. Talking(sw, air) /\ SwInv(sw) /\ AirInv(air)
  BY <1>2 DEF TreeInv, TInv
<1>4. a \in Switches /\ k \in Ports(a) /\ k \in Links /\ b \in BpduType /\ air # <<>>
      /\ sw[a] \in SwitchType /\ Fit(a, sw[a])
  BY <1>1, FirstFrame
<1>5. Head(air) = air[1]
  BY <1>3, <1>4, AirHead
<1>6. air[1].to = a /\ air[1].on = k /\ air[1].is = b
  BY <1>5
<1>7. r.w \in SwitchType
  BY <1>4, HandleFits
<1>8. sw' = [sw EXCEPT ![a] = r.w]
  BY <1>1 DEF Worked
<1>9. r = Handle(a, sw[a], k, b)
  OBVIOUS
<1> HIDE DEF a, k, b, r
<1>10. sw'[a] = r.w /\ \A t \in Switches \ {a} : sw'[t] = sw[t]
  BY <1>3, <1>4, <1>8 DEF SwInv
<1>11. ls \in SUBSET Ports(a) /\ \A j \in ls : what[j] \in BpduType \cup DataType
  BY <1>4, <1>7, BpdusAre
<1>12. OnePerPort(a, ls, what, out)
  <2> HIDE DEF ls, what
  <2>1. QED BY <1>4, <1>11, FramesAre
<1>13. Replies(sw', a, k, r, out)
  BY <1>10, <1>12 DEF Replies
<1> DEFINE T == sw'
<1> HIDE DEF out, ls, what
<1>14. Taken(sw, T, air, a, k, b, r)
  BY <1>3, <1>4, <1>6, <1>9, <1>10 DEF Taken
<1>15. Replies(T, a, k, r, out)
  BY <1>13
<1> HIDE DEF T
<1>16. Sane(T)
  BY <1>4, <1>14, TakenHandled
<1>17. \A s \in Switches : \A l \in Ports(s) : Chan(T, Tail(air) \o out, s, l) /\ Ans(T, Tail(air) \o out, s, l)
  BY <1>4, <1>14, <1>15, RepliedChannel, RepliedAnswer
<1>18. Talking(T, Tail(air) \o out)
  BY <1>16, <1>17, TalkingIs
<1>19. QED BY <1>2, <1>18 DEF T


\* Frames of which none is a BPDU.
NoBpdus(out) == AirInv(out) /\ \A i \in DOMAIN out : out[i].is.kind # "bpdu"

\* The lines of p are those of q.
SameLines(p, q) == \A s \in Switches : \A l \in Ports(s) : \E d \in Nat : Shifted(p, q, s, l, d)

LEMMA NoFrames == NoBpdus(<<>>)
<1> DEFINE none == <<>>
<1>1. AirInv(none) /\ DOMAIN none = {}
  BY EmptyAir
<1> HIDE DEF none
<1>2. NoBpdus(none)
  BY <1>1 DEF NoBpdus
<1>3. QED BY <1>2 DEF none

LEMMA DataFrames ==
  ASSUME NEW s \in Switches, NEW w \in SwitchType, Fit(s, w), NEW l, NEW d \in DataType
  PROVE  NoBpdus(Frames(s, Flood(w, l), [k \in Flood(w, l) |-> d]))
<1> DEFINE ls == Flood(w, l)
           what == [k \in ls |-> d]
           out == Frames(s, ls, what)
<1>1. ls \in SUBSET Ports(s) /\ \A k \in ls : what[k] = d
  BY DEF Flood, Fit
<1>2. d.kind = "data" /\ d.kind # "bpdu"
  BY DEF DataType
<1> HIDE DEF ls, what
<1>3. OnePerPort(s, ls, what, out)
  BY <1>1, FramesAre
<1> HIDE DEF out
<1>8. ls \in SUBSET Ports(s)
  BY <1>1
<1>4. AirInv(out) /\ \A i \in DOMAIN out : out[i].to = Other(out[i].on, s) /\ out[i].is = what[out[i].on]
  BY <1>3, <1>8, SentFrames
<1>5. \A i \in DOMAIN out : out[i].on \in ls
  BY <1>3 DEF OnePerPort
<1>6. NoBpdus(out)
  BY <1>1, <1>2, <1>4, <1>5 DEF NoBpdus
<1>7. QED BY <1>6 DEF out, what, ls

LEMMA QuietTail ==
  ASSUME NEW q, AirInv(q), q # <<>>, q[1].is.kind # "bpdu", NEW out, NoBpdus(out)
  PROVE  SameLines(Tail(q) \o out, q)
<1> DEFINE p == Tail(q)
           n == p \o out
<1>1. AirInv(p) /\ AirInv(out)
  BY AirHead DEF NoBpdus
<1>2. ASSUME NEW s \in Switches, NEW l \in Ports(s) PROVE Shifted(n, q, s, l, 1)
  <2>1. 1 \notin Mine(q, s, l) /\ Mine(out, s, l) = {}
    BY DEF Mine, NoBpdus
  <2>2. Shifted(p, q, s, l, 1)
    BY <2>1, TailShifts
  <2>3. Shifted(n, p, s, l, 0) /\ Mine(n, s, l) = Mine(p, s, l)
    BY <1>1, <2>1, AppendShifts
  <2> DEFINE P == Mine(p, s, l)
             Q == Mine(q, s, l)
  <2>4. /\ \A i \in P : i \in Nat /\ i + 1 \in Q /\ q[i + 1].is = p[i].is
        /\ \A j \in Q : \E i \in P : j = i + 1
    BY <2>2 DEF Shifted
  <2>5. \A i \in P : i \in Nat /\ p[i + 0].is = n[i].is
    BY <2>3 DEF Shifted
  <2>6. Mine(n, s, l) = P
    BY <2>3
  <2> HIDE DEF P, Q, n, p
  <2>7. \A i \in P : p[i].is = n[i].is
    BY <2>5
  <2>8. QED BY <2>4, <2>6, <2>7 DEF Shifted, Q
<1>3. QED BY <1>2 DEF SameLines

LEMMA QuietAppend ==
  ASSUME NEW q, AirInv(q), NEW out, NoBpdus(out)
  PROVE  SameLines(q \o out, q)
<1>1. ASSUME NEW s \in Switches, NEW l \in Ports(s) PROVE Shifted(q \o out, q, s, l, 0)
  <2>1. Mine(out, s, l) = {} /\ AirInv(out)
    BY DEF Mine, NoBpdus
  <2>2. QED BY <2>1, AppendShifts
<1>2. QED BY <1>1 DEF SameLines

\* Nothing but the place of a station is learnt.
LEMMA LearntTree ==
  ASSUME TInv, TreeInv, ~ stopped, NEW a \in Switches, NEW x, sw' = [sw EXCEPT ![a] = x],
         SameSwitch(sw[a], x), x.pending = sw[a].pending, SameLines(air', air)
  PROVE  Talking(sw', air')
<1> DEFINE T == sw'
           p == air'
<1>1. Talking(sw, air)
  BY DEF TreeInv
<1>2. T[a] = x /\ \A t \in Switches \ {a} : T[t] = sw[t]
  BY DEF TInv, SwInv
<1>3. \A s \in Switches : \A l \in Ports(s) : \E d \in Nat : Shifted(p, air, s, l, d)
  BY DEF SameLines
<1>4. SameSwitch(sw[a], T[a]) /\ T[a].pending = sw[a].pending
  BY <1>2
<1> HIDE DEF T, p
<1>5. Talking(T, p)
  BY <1>1, <1>2, <1>3, <1>4, TalkingSame
<1>6. QED BY <1>5 DEF T, p

LEMMA UnlearntTree ==
  ASSUME TInv, TreeInv, ~ stopped, sw' = sw, SameLines(air', air)
  PROVE  Talking(sw', air')
<1>1. Home \in Switches /\ sw' = [sw EXCEPT ![Home] = sw[Home]]
  BY StpAssumption DEF TInv, SwInv
<1>2. SameSwitch(sw[Home], sw[Home])
  BY DEF SameSwitch, Same
<1>3. QED BY <1>1, <1>2, LearntTree

LEMMA LearnsSame ==
  ASSUME NEW w \in SwitchType, NEW l, NEW id
  PROVE  /\ SameSwitch(w, [w EXCEPT !.mac = l, !.seen = @ \cup {id}])
         /\ [w EXCEPT !.mac = l, !.seen = @ \cup {id}].pending = w.pending
BY DEF SwitchType, SameSwitch, Same

LEMMA ReceiveDataTree ==
  ASSUME TInv, TreeInv, ReceiveData PROVE TreeInv'
<1> SUFFICES ASSUME ~ stopped' PROVE Talking(sw', air')
  BY DEF TreeInv
<1> DEFINE s == Head(air).to
           l == Head(air).on
           w == sw[s]
           d == Head(air).is
           ls == Flood(w, l)
           out == Frames(s, ls, [k \in ls |-> d])
           x == [w EXCEPT !.mac = l, !.seen = @ \cup {d.id}]
           none == <<>>
<1>1. Comes("data")
  BY Zenon DEF ReceiveData
<1>2. (Worked(s, x) /\ Received(out)) \/ (Worked(s, w) /\ Received(none))
  <2>1. CASE Forwarding(w, l) /\ d.id \notin w.seen
    BY <2>1, Zenon DEF ReceiveData
  <2>2. CASE ~ (Forwarding(w, l) /\ d.id \notin w.seen)
    BY <2>2, Zenon DEF ReceiveData
  <2>3. QED BY <2>1, <2>2
<1>3. /\ s \in Switches /\ l \in Links /\ d \in DataType /\ w \in SwitchType /\ Fit(s, w) /\ air # <<>>
      /\ d.kind = "data" /\ AirInv(air)
  BY <1>1, FirstFrame DEF TInv
<1>4. air[1].is.kind # "bpdu"
  BY <1>3, AirHead
<1>5. NoBpdus(out) /\ NoBpdus(none)
  <2> HIDE DEF s, w, l, d
  <2>1. QED BY <1>3, DataFrames, NoFrames
<1> HIDE DEF s, l, d, w
<1>6. SameSwitch(w, x) /\ x.pending = w.pending
  BY ZenonT(60), <1>3, LearnsSame
<1> USE DEF s, l, d, w
<1> HIDE DEF out, none, x
<1>7. SameLines(Tail(air) \o out, air) /\ SameLines(Tail(air) \o none, air)
  BY <1>3, <1>4, <1>5, QuietTail
<1>12. ~ stopped
  BY <1>2 DEF Received
<1>13. air' = Tail(air) \o out \/ air' = Tail(air) \o none
  BY <1>2 DEF Received
<1>8. SameLines(air', air) /\ ~ stopped
  BY <1>7, <1>12, <1>13
<1>9. CASE Worked(s, x)
  <2>1. sw' = [sw EXCEPT ![s] = x]
    BY <1>9 DEF Worked
  <2> HIDE DEF s
  <2>2. QED BY <1>3, <1>6, <1>8, <2>1, LearntTree
<1>10. CASE Worked(s, w)
  <2>1. sw' = sw
    BY <1>3, <1>10, SameWorks
  <2>2. QED BY <1>8, <2>1, UnlearntTree
<1>11. QED BY <1>2, <1>9, <1>10

LEMMA TalkTree ==
  ASSUME TInv, TreeInv, Talk PROVE TreeInv'
<1> SUFFICES ASSUME ~ stopped' PROVE Talking(sw', air')
  BY DEF TreeInv
<1> DEFINE w == sw[Home]
           ls == Flood(w, StationPort)
           d == [kind |-> "data", id |-> frames + 1]
           out == Frames(Home, ls, [l \in ls |-> d])
           x == [w EXCEPT !.mac = StationPort, !.seen = @ \cup {frames + 1}]
<1>1. Worked(Home, x) /\ air' = air \o out /\ frames < MaxFrames /\ ~ stopped
  BY DEF Talk
<1>2. Home \in Switches /\ w \in SwitchType /\ Fit(Home, w) /\ frames + 1 \in 1 .. MaxFrames
  BY <1>1, StpAssumption DEF TInv, SwInv
<1>3. d \in DataType
  BY <1>2 DEF DataType
<1>4. SameSwitch(w, x) /\ x.pending = w.pending
  BY <1>2, LearnsSame
<1>5. NoBpdus(out)
  <2> HIDE DEF w, d
  <2>1. QED BY <1>2, <1>3, DataFrames
<1>6. sw' = [sw EXCEPT ![Home] = x]
  BY <1>1 DEF Worked
<1> HIDE DEF out, x
<1>7. SameLines(air', air)
  BY <1>1, <1>5, QuietAppend DEF TInv
<1>8. QED BY <1>1, <1>2, <1>4, <1>6, <1>7, LearntTree

LEMMA ReceiveLostTree ==
  ASSUME TInv, TreeInv, ReceiveLost PROVE TreeInv'
<1> SUFFICES ASSUME ~ stopped' PROVE Talking(sw', air')
  BY DEF TreeInv
<1> DEFINE none == <<>>
<1>1. Comes("lost") /\ Received(none) /\ sw' = sw
  BY DEF ReceiveLost
<1>2. NoBpdus(none)
  BY NoFrames
<1> HIDE DEF none
<1>3. AirInv(air) /\ air # <<>> /\ air[1].is.kind # "bpdu"
  BY <1>1, AirHead DEF TInv, Comes
<1>4. SameLines(Tail(air) \o none, air)
  BY <1>2, <1>3, QuietTail
<1>5. SameLines(air', air) /\ ~ stopped
  BY <1>1, <1>4 DEF Received
<1>6. QED BY <1>1, <1>5, UnlearntTree

LEMMA EndedLines ==
  ASSUME TInv PROVE SameLines(Ended, air)
<1>1. \A s \in Switches : \A l \in Ports(s) : Shifted(Append(air, Tick), air, s, l, 0)
  BY TickShifts DEF TInv
<1>2. SameLines(Append(air, Tick), air)
  BY <1>1 DEF SameLines
<1>3. \A s \in Switches : \A l \in Ports(s) : Shifted(air, air, s, l, 0)
  <2> SUFFICES ASSUME NEW s \in Switches, NEW l \in Ports(s) PROVE Shifted(air, air, s, l, 0)
    OBVIOUS
  <2>1. \A i \in Mine(air, s, l) : i \in Nat /\ i + 0 = i
    BY LineIsNat DEF TInv
  <2> DEFINE Q == Mine(air, s, l)
  <2> HIDE DEF Q
  <2>2. QED BY <2>1 DEF Shifted
<1>4. SameLines(air, air)
  BY <1>3 DEF SameLines
<1>5. QED BY <1>2, <1>4 DEF Ended

LEMMA TimePassesTree ==
  ASSUME TInv, TreeInv, TimePasses PROVE TreeInv'
<1>1. air' = Ended /\ sw' = sw /\ stopped' = stopped
  BY DEF TimePasses
<1>2. SameLines(air', air)
  BY <1>1, EndedLines
<1>3. QED BY <1>1, <1>2, UnlearntTree DEF TreeInv

LEMMA ArriveTree ==
  ASSUME TInv, TreeInv, Arrive PROVE TreeInv'
<1> DEFINE q == Ended
<1>1. air' = Tail(q) /\ sw' = sw /\ stopped' = stopped /\ Comes("tick")
  BY DEF Arrive, Rests
<1>2. AirInv(q) /\ SameLines(q, air)
  BY EndedType, EndedLines
<1>3. q # <<>> /\ q[1].is.kind # "bpdu"
  <2>1. air \in Seq(FrameType \cup {Tick}) /\ air # <<>> /\ air[1].is.kind = "tick"
    BY <1>1, AirHead DEF TInv, AirInv, Comes
  <2>2. Len(air) \in Nat /\ Len(air) >= 1 /\ DOMAIN air = 1 .. Len(air)
    BY <2>1
  <2>3. Append(air, Tick)[1] = air[1] /\ Append(air, Tick) # <<>>
    BY <2>2, AirTick DEF TInv
  <2>4. QED BY <2>1, <2>3 DEF Ended
<1> DEFINE none == <<>>
<1>4. NoBpdus(none) /\ Tail(q) \o none = Tail(q)
  <2>1. AirInv(Tail(q))
    BY <1>2, <1>3, AirHead
  <2>2. Tail(q) \o none = Tail(q)
    BY <2>1 DEF AirInv
  <2>3. QED BY <2>2, NoFrames
<1> HIDE DEF q, none
<1>5. SameLines(Tail(q) \o none, q)
  BY <1>2, <1>3, <1>4, QuietTail
<1>6. SameLines(Tail(q), q)
  BY <1>4, <1>5
<1> DEFINE T == sw
<1>7. Talking(sw, air) => Talking(sw, q)
  <2> SUFFICES ASSUME Talking(sw, air) PROVE Talking(sw, q)
    OBVIOUS
  <2>1. Home \in Switches /\ SameSwitch(T[Home], T[Home])
    BY StpAssumption DEF SameSwitch, Same
  <2>2. Talking(T, air) /\ \A s \in Switches : \A l \in Ports(s) : \E d \in Nat : Shifted(q, air, s, l, d)
    BY <1>2 DEF SameLines
  <2> HIDE DEF T
  <2>3. Talking(T, q)
    BY <2>1, <2>2, TalkingSame
  <2>4. QED BY <2>3 DEF T
<1>8. Talking(sw, q) => Talking(sw, Tail(q))
  <2> SUFFICES ASSUME Talking(sw, q) PROVE Talking(sw, Tail(q))
    OBVIOUS
  <2>1. Home \in Switches /\ SameSwitch(T[Home], T[Home])
    BY StpAssumption DEF SameSwitch, Same
  <2>2. Talking(T, q) /\ \A s \in Switches : \A l \in Ports(s) : \E d \in Nat : Shifted(Tail(q), q, s, l, d)
    BY <1>6 DEF SameLines
  <2> HIDE DEF T
  <2>3. Talking(T, Tail(q))
    BY <2>1, <2>2, TalkingSame
  <2>4. QED BY <2>3 DEF T
<1>9. QED BY <1>1, <1>7, <1>8 DEF TreeInv


\* Switch a speaks on all its cables; it is not pending any more.
LEMMA SpokenTree ==
  ASSUME NEW S, NEW T, NEW q, AirInv(q), SwInv(S), Talking(S, q), NEW a \in Switches, SameSwitch(S[a], T[a]),
         \A t \in Switches \ {a} : T[t] = S[t],
         NEW ls, ls = S[a].live, NEW what, \A l \in ls : what[l] = Bpdu(a, S[a], l),
         NEW out, OnePerPort(a, ls, what, out)
  PROVE  Talking(T, q \o out)
<1> DEFINE p == q \o out
           w == S[a]
           x == T[a]
<1>1. Sane(S)
  BY TalkingIs
<1>2. /\ x.live = w.live /\ x.heard = w.heard /\ x.on = w.on /\ Me(a, x) = Me(a, w)
      /\ x.cost = w.cost /\ x.age = w.age /\ x.root = w.root
  BY DEF SameSwitch, Same, Me
<1>3. w.on /\ Tree(a, w) /\ w.cost = PortCost * w.age
  BY <1>1 DEF Sane
<1>4. Tree(a, x)
  BY <1>3, SameTree
<1>5. Sane(T)
  <2>1. \A s \in Switches : T[s].on /\ Tree(s, T[s]) /\ T[s].cost = PortCost * T[s].age
    BY <1>1, <1>2, <1>3, <1>4 DEF Sane
  <2>2. \A s \in Switches : T[s].live = S[s].live
    BY <1>2
  <2>3. QED BY <1>1, <2>1, <2>2, StpAssumption DEF Sane
<1>6. ls \in SUBSET Ports(a)
  BY DEF SwInv, Fit
<1>7. AirInv(out)
  BY <1>6, SentFrames
<1>8. ASSUME NEW l \in ls
      PROVE  /\ what[l].kind = "bpdu" /\ Proper(what[l], l) /\ what[l].bridge = Me(a, w) /\ Says(what[l], a, x)
             /\ Other(l, a) \in Switches /\ l \in S[Other(l, a)].live
             /\ \A u \in Switches : u = Other(l, a) => Mine(p, u, l) # {}
  <2>1. what[l] = Bpdu(a, w, l) /\ l \in Ports(a) /\ l \in w.live
    BY <1>6
  <2>2. Other(l, a) \in Switches /\ l \in S[Other(l, a)].live /\ l \in Ports(Other(l, a)) /\ Other(l, Other(l, a)) = a
    BY <1>1, <2>1, LiveBoth, OtherEnd
  <2> DEFINE b == what[l]
             u == Other(l, a)
  <2>3. b.kind = "bpdu" /\ Proper(b, l) /\ b.bridge = Me(a, w) /\ Says(b, a, w)
    BY <1>3, <2>1, BpduSays
  <2>4. Says(b, a, x)
    BY <1>2, <2>3 DEF Says
  <2>5. u \in Switches /\ l \in Ports(u) /\ Other(l, u) = a
    BY <2>2
  <2>6. b = what[l]
    OBVIOUS
  <2> HIDE DEF b, u, p, w, x
  <2>7. OneOut(out, u, l, b)
    BY <1>6, <2>3, <2>5, <2>6, OutLine
  <2>8. Mine(out, u, l) # {}
    BY <2>7 DEF OneOut
  <2>9. Mine(p, u, l) # {}
    BY <1>7, <2>8, LineGrows DEF p
  <2>10. QED BY <2>2, <2>3, <2>4, <2>9 DEF b, u
<1>9. ASSUME NEW s \in Switches, NEW l \in Ports(s)
      PROVE  Chan(T, p, s, l)
  <2>1. Chan(S, q, s, l)
    BY TalkingIs
  <2>2. s = a => (l \in T[a].live <=> l \in S[a].live) /\ T[a].heard[l] \in {S[a].heard[l], None}
    BY <1>2
  <2>3. ASSUME Other(l, s) = a, l \in ls
        PROVE  /\ what[l].kind = "bpdu" /\ Proper(what[l], l) /\ what[l].bridge = Me(a, S[a])
               /\ Me(a, T[a]) = Me(a, S[a]) \/ TooOld(what[l])
               /\ ~ T[a].pending => Says(what[l], a, T[a])
               /\ l \in S[s].live
    <3>1. Other(l, a) = s
      BY <2>3, OtherEnd
    <3>2. QED BY <1>2, <1>8, <2>3, <3>1
  <2>4. ASSUME Other(l, s) = a, l \notin ls
        PROVE  l \notin S[s].live \/ (Follows(S[a], T[a]) /\ Me(a, T[a]) = Me(a, S[a]))
    <3>1. l \notin S[s].live
      BY <1>1, <2>4, LiveBoth
    <3>2. QED BY <3>1
  <2> HIDE DEF p, w, x
  <2>5. Chan(T, q \o out, s, l)
    BY <1>6, <2>1, <2>2, <2>3, <2>4, SpokenChannel
  <2>6. QED BY <2>5 DEF p
<1>10. ASSUME NEW s \in Switches, NEW l \in Ports(s)
       PROVE  Ans(T, p, s, l)
  <2> DEFINE t == Other(l, s)
  <2>1. t \in Switches /\ t # s /\ l \in Ports(t) /\ Other(l, t) = s
    BY OtherEnd
  <2>2. CASE s = a
    <3>1. l \in T[s].live => Mine(p, t, l) # {}
      BY <1>2, <1>8, <2>1, <2>2
    <3> HIDE DEF p
    <3>2. QED BY <3>1 DEF Ans, Answered
  <2>3. CASE t = a
    <3>1. l \in T[s].live => l \in ls
      <4>1. T[s] = S[s]
        BY <2>1, <2>3
      <4>2. QED BY <1>1, <2>1, <2>3, <4>1, LiveBoth
    <3>2. l \in T[s].live => Mine(p, s, l) # {}
      BY <1>8, <2>1, <2>3, <3>1
    <3> HIDE DEF p
    <3>3. QED BY <3>2 DEF Ans, Answered
  <2>4. CASE s # a /\ t # a
    <3>1. Ans(S, q, s, l)
      BY TalkingIs
    <3>2. Mine(p, s, l) = {} => Mine(q, s, l) = {}
      BY <1>7, LineGrows
    <3>3. Mine(p, t, l) = {} => Mine(q, t, l) = {}
      BY <1>7, LineGrows
    <3> HIDE DEF p
    <3>4. a \notin {s, Other(l, s)} /\ (Mine(p, Other(l, s), l) = {} => Mine(q, Other(l, s), l) = {})
      BY <2>4, <3>3
    <3>5. QED BY <3>1, <3>2, <3>4, AnswerMoves
  <2>5. QED BY <2>2, <2>3, <2>4
<1> HIDE DEF p
<1>11. Talking(T, p)
  BY <1>5, <1>9, <1>10, TalkingIs
<1>12. QED BY <1>11 DEF p

LEMMA SendTimerTree ==
  ASSUME TInv, TreeInv, SendTimer PROVE TreeInv'
<1> SUFFICES ASSUME ~ stopped' PROVE Talking(sw', air')
  BY DEF TreeInv
<1> DEFINE s == Head(due)
           w == sw[s]
           x == [w EXCEPT !.pending = FALSE, !.tcOut = IF w.on THEN None ELSE @]
           ls == {l \in w.live : w.role[l] # "none"}
           what == [l \in w.live |-> Bpdu(s, w, l)]
           out == Frames(s, ls, what)
<1>1. s \in Switches
  BY DEF TInv, DueInv, SendTimer
<1>2. w \in SwitchType /\ Fit(s, w) /\ w.live \subseteq Ports(s) /\ w.live \subseteq Links
  BY <1>1 DEF TInv, SwInv, Fit, SwitchType
<1>3. /\ sw' = [sw EXCEPT ![s].pending = FALSE, ![s].tcOut = IF w.on THEN None ELSE @]
      /\ air' = IF w.on THEN air \o out ELSE air
  BY DEF SendTimer
<1>4. ~ stopped
  BY DEF SendTimer
<1>5. Talking(sw, air) /\ SwInv(sw) /\ AirInv(air)
  BY <1>4 DEF TreeInv, TInv
<1> HIDE DEF s
<1>6. w.on /\ Tree(s, w)
  BY <1>1, <1>5 DEF Talking
<1>7. ls = w.live
  <2>1. \A l \in w.live : w.role[l] # "none"
    BY <1>2, <1>6, InCharge
  <2>2. QED BY <2>1
<1>8. SameSwitch(w, x)
  BY <1>2 DEF SwitchType, SameSwitch, Same
<1>9. sw' = [sw EXCEPT ![s] = x]
  BY <1>1, <1>3, <1>5 DEF SwInv
<1> HIDE DEF x
<1>10. sw'[s] = x /\ \A t \in Switches \ {s} : sw'[t] = sw[t]
  BY <1>1, <1>5, <1>9 DEF SwInv
<1>11. ls \in SUBSET Ports(s) /\ (\A l \in ls : what[l] \in BpduType \cup DataType)
       /\ \A l \in ls : what[l] = Bpdu(s, w, l)
  BY <1>1, <1>2, BpdusAre
<1>12. OnePerPort(s, ls, what, out)
  <2> HIDE DEF ls, what
  <2>1. QED BY <1>1, <1>11, FramesAre
<1> DEFINE T == sw'
<1>13. SameSwitch(sw[s], T[s]) /\ \A t \in Switches \ {s} : T[t] = sw[t]
  BY <1>8, <1>10
<1>14. ls = sw[s].live /\ \A l \in ls : what[l] = Bpdu(s, sw[s], l)
  BY <1>7, <1>11
<1> HIDE DEF ls, what, out, T
<1>15. Talking(T, air \o out)
  BY <1>1, <1>5, <1>12, <1>13, <1>14, SpokenTree
<1>16. QED BY <1>3, <1>6, <1>15 DEF T


LEMMA PassBpduTree ==
  ASSUME TInv, TreeInv, PassBpdu PROVE TreeInv'
<1> SUFFICES ASSUME ~ stopped' PROVE FALSE
  BY DEF TreeInv
<1>1. Comes("bpdu") /\ ~ sw[Head(air).to].on
  BY DEF PassBpdu
<1>2. stopped' = stopped
  BY DEF PassBpdu, Received
<1>3. Head(air).to \in Switches
  BY <1>1, FirstFrame
<1>4. Talking(sw, air)
  BY <1>2 DEF TreeInv
<1>5. QED BY <1>1, <1>3, <1>4 DEF Talking

\* A switch in state u elects anew, and is then in state x.
Reelected(s, u, x, force) ==
  /\ x \in SwitchType /\ x.on = u.on /\ Tree(s, x) /\ x.cost = PortCost * x.age /\ Follows(u, x)
  /\ x.live = u.live /\ x.heard = u.heard /\ x.prio = u.prio
  /\ force => x.pending
  /\ u.pending => x.pending

LEMMA ReelectedIs ==
  ASSUME NEW s \in Switches, NEW u \in SwitchType, Young(u), NEW force \in BOOLEAN,
         u.cost = PortCost * u.age, \A l \in u.live : u.heard[l] # None => Proper(u.heard[l], l)
  PROVE  Reelected(s, u, Recompute(s, u, force).w, force)
<1> DEFINE r == Recompute(s, u, force)
           x == r.w
<1>1. Settles(s, u, force, r)
  BY RecomputeDoes
<1> HIDE DEF r
<1>2. x \in SwitchType /\ Same(u, x) /\ Tree(s, x) /\ (u.pending => x.pending)
  BY <1>1 DEF Settles
<1>3. x.on = u.on /\ x.live = u.live /\ x.heard = u.heard /\ x.prio = u.prio
  BY <1>2 DEF Same
<1>4. Young(x) /\ \A l \in x.live : x.heard[l] # None => Proper(x.heard[l], l)
  BY <1>3 DEF Young
<1>5. x.cost = PortCost * x.age
  <2> HIDE DEF x
  <2>1. QED BY <1>2, <1>4, CostIsAge
<1>6. Follows(u, x) /\ (force => x.pending)
  BY <1>1, <1>5, SettlesFollows
<1> HIDE DEF x
<1>7. Reelected(s, u, x, force)
  BY <1>2, <1>3, <1>5, <1>6 DEF Reelected
<1>8. QED BY <1>7 DEF x, r

\* Switch a forgets what it heard and withdraws what it told.
LEMMA WithdrawnTree ==
  ASSUME NEW S, NEW T, NEW q, AirInv(q), SwInv(S), Talking(S, q), NEW a \in Switches,
         \A t \in Switches \ {a} : T[t] = S[t],
         T[a].on, Tree(a, T[a]), T[a].cost = PortCost * T[a].age, T[a].live = S[a].live, T[a].pending,
         \A l \in Links : T[a].heard[l] = None,
         NEW ls, ls = S[a].live, NEW what, \A l \in ls : what[l] = Withdrawal(a, S[a], l),
         NEW out, OnePerPort(a, ls, what, out)
  PROVE  Talking(T, q \o out)
<1> DEFINE p == q \o out
<1>1. Sane(S)
  BY TalkingIs
<1>2. Sane(T)
  <2>1. \A s \in Switches : T[s].on /\ Tree(s, T[s]) /\ T[s].cost = PortCost * T[s].age
    BY <1>1 DEF Sane
  <2>2. \A s \in Switches : T[s].live = S[s].live
    OBVIOUS
  <2>3. QED BY <1>1, <2>1, <2>2, StpAssumption DEF Sane
<1>3. ls \in SUBSET Ports(a)
  BY DEF SwInv, Fit
<1>4. AirInv(out)
  BY <1>3, SentFrames
<1>5. ASSUME NEW s \in Switches, NEW l \in Ports(s)
      PROVE  Chan(T, p, s, l)
  <2>1. Chan(S, q, s, l) /\ l \in Links
    BY TalkingIs DEF Ports
  <2>2. s = a => (l \in T[a].live <=> l \in S[a].live) /\ T[a].heard[l] \in {S[a].heard[l], None}
    BY <2>1
  <2>3. ASSUME Other(l, s) = a, l \in ls
        PROVE  /\ what[l].kind = "bpdu" /\ Proper(what[l], l) /\ what[l].bridge = Me(a, S[a])
               /\ Me(a, T[a]) = Me(a, S[a]) \/ TooOld(what[l])
               /\ ~ T[a].pending => Says(what[l], a, T[a])
               /\ l \in S[s].live
    <3>1. l \in S[s].live
      BY <1>1, <2>3, LiveBoth
    <3> DEFINE b == what[l]
               m == Me(a, S[a])
    <3>0. b = Withdrawal(a, S[a], l)
      BY <2>3
    <3> HIDE DEF b
    <3>2. b.kind = "bpdu" /\ b.port = l /\ b.age = MaxAge + 1 /\ b.bridge = m
      BY <3>0 DEF Withdrawal
    <3> HIDE DEF m
    <3>3. b.age > MaxAge
      BY <3>2, StpAssumption
    <3>4. Proper(b, l) /\ TooOld(b)
      BY <3>2, <3>3, StpAssumption DEF Proper, TooOld
    <3>5. QED BY <3>1, <3>2, <3>4 DEF b, m
  <2>4. ASSUME Other(l, s) = a, l \notin ls
        PROVE  l \notin S[s].live \/ (Follows(S[a], T[a]) /\ Me(a, T[a]) = Me(a, S[a]))
    <3>1. l \notin S[s].live
      BY <1>1, <2>4, LiveBoth
    <3>2. QED BY <3>1
  <2> HIDE DEF p
  <2>5. Chan(T, q \o out, s, l)
    BY <1>3, <2>1, <2>2, <2>3, <2>4, SpokenChannel
  <2>6. QED BY <2>5 DEF p
<1>6. ASSUME NEW s \in Switches, NEW l \in Ports(s)
      PROVE  Ans(T, p, s, l)
  <2> DEFINE t == Other(l, s)
  <2>1. t \in Switches /\ t # s /\ l \in Ports(t) /\ Other(l, t) = s
    BY OtherEnd
  <2>2. CASE a \in {s, t}
    <3> DEFINE w == T[s]
               v == T[t]
    <3>1. w.pending \/ v.pending
      BY <2>2
    <3> HIDE DEF w, v, p, t
    <3>2. Answered(w, v, p, s, t, l)
      BY <3>1 DEF Answered
    <3>3. QED BY <3>2 DEF Ans, w, v, t
  <2>3. CASE a \notin {s, t}
    <3>1. Ans(S, q, s, l)
      BY TalkingIs
    <3>2. Mine(p, s, l) = {} => Mine(q, s, l) = {}
      BY <1>4, LineGrows
    <3>3. Mine(p, t, l) = {} => Mine(q, t, l) = {}
      BY <1>4, LineGrows
    <3> HIDE DEF p
    <3>4. a \notin {s, Other(l, s)} /\ (Mine(p, Other(l, s), l) = {} => Mine(q, Other(l, s), l) = {})
      BY <2>3, <3>3
    <3>5. QED BY <3>1, <3>2, <3>4, AnswerMoves
  <2>4. QED BY <2>2, <2>3
<1> HIDE DEF p
<1>7. Talking(T, p)
  BY <1>2, <1>5, <1>6, TalkingIs
<1>8. QED BY <1>7 DEF p

LEMMA SetStpTree ==
  ASSUME TInv, TreeInv, NEW s \in Switches, NEW on \in BOOLEAN, NEW prio \in Prios, SetStp(s, on, prio)
  PROVE  TreeInv'
<1> SUFFICES ASSUME ~ stopped' PROVE Talking(sw', air')
  BY DEF TreeInv
<1> DEFINE w == sw[s]
           r == SetConfig(s, w, on, prio)
           x == r.w
           ls == IF r.said THEN w.live ELSE {}
           what == [l \in w.live |-> Withdrawal(s, w, l)]
           out == Frames(s, ls, what)
           u == Blank(w, on, prio)
<1>1. Worked(s, x) /\ air' = air \o out /\ stopped' = (stopped \/ ~ on)
  BY DEF SetStp
<1>2. ~ stopped /\ on = TRUE
  BY <1>1
<1>3. Talking(sw, air) /\ SwInv(sw) /\ AirInv(air)
  BY <1>2 DEF TreeInv, TInv
<1>4. w \in SwitchType /\ Fit(s, w) /\ prio \in Nat /\ w.on
  BY <1>3, StpAssumption DEF SwInv, Talking
<1>5. /\ u \in SwitchType /\ Young(u) /\ u.live = w.live /\ u.on = on /\ u.pending = w.pending
      /\ \A l \in Links : u.heard[l] = None
  BY <1>4, BlankType
<1>6. r.said = w.on /\ (on = TRUE => x = Recompute(s, u, TRUE).w)
  BY <1>4, SetConfigDoes
<1>7. u.cost = w.cost /\ u.age = w.age
  BY <1>4 DEF Blank, SwitchType
<1>8. u.cost = PortCost * u.age
  BY <1>3, <1>7 DEF Talking
<1> HIDE DEF u
<1>9. \A l \in u.live : u.heard[l] # None => Proper(u.heard[l], l)
  <2>1. u.live \subseteq Links
    BY <1>5 DEF SwitchType
  <2>2. QED BY <1>5, <2>1
<1>10. Reelected(s, u, x, TRUE)
  <2>1. Reelected(s, u, Recompute(s, u, TRUE).w, TRUE)
    BY <1>5, <1>8, <1>9, ReelectedIs
  <2>2. QED BY <1>2, <1>6, <2>1
<1>11. ls = w.live
  BY <1>4, <1>6
<1>12. sw' = [sw EXCEPT ![s] = x]
  BY <1>1 DEF Worked
<1>13. ls \in SUBSET Ports(s) /\ (\A l \in ls : what[l] \in BpduType \cup DataType)
       /\ \A l \in ls : what[l] = Withdrawal(s, w, l)
  BY <1>4, BpdusAre DEF Fit, SwitchType
<1>14. OnePerPort(s, ls, what, out)
  <2> HIDE DEF ls, what
  <2>1. QED BY <1>13, FramesAre
<1> HIDE DEF x
<1> DEFINE T == sw'
<1>15. T[s] = x /\ \A t \in Switches \ {s} : T[t] = sw[t]
  BY <1>3, <1>12 DEF SwInv
<1>16. /\ T[s].on /\ Tree(s, T[s]) /\ T[s].cost = PortCost * T[s].age /\ T[s].live = sw[s].live /\ T[s].pending
       /\ \A l \in Links : T[s].heard[l] = None
  BY <1>2, <1>5, <1>10, <1>15 DEF Reelected
<1>17. ls = sw[s].live /\ \A l \in ls : what[l] = Withdrawal(s, sw[s], l)
  BY <1>11, <1>13
<1> HIDE DEF ls, what, out, T
<1>18. Talking(T, air \o out)
  BY <1>3, <1>14, <1>15, <1>16, <1>17, WithdrawnTree
<1>19. QED BY <1>1, <1>18 DEF T


\* Switch a knows of a change of its cable k.
Relinks(S, T, a, k) ==
  /\ T[a].on /\ Tree(a, T[a]) /\ T[a].cost = PortCost * T[a].age
  /\ Follows(S[a], T[a]) /\ (S[a].pending => T[a].pending) /\ Me(a, T[a]) = Me(a, S[a])
  /\ \A l \in Links \ {k} : (l \in T[a].live <=> l \in S[a].live) /\ T[a].heard[l] = S[a].heard[l]

\* One end of cable k after the other knows of its change: the other cables are as before.
LEMMA OneEnd ==
  ASSUME NEW S, NEW T, NEW q, NEW p, NEW a \in Switches, NEW k \in Links, Relinks(S, T, a, k),
         \A t \in Switches \ {a} : T[t] = S[t], NEW s \in Switches, NEW l \in Ports(s), l # k,
         Shifted(p, q, s, l, 0), Shifted(p, q, Other(l, s), l, 0), Chan(S, q, s, l), Ans(S, q, s, l)
  PROVE  Chan(T, p, s, l) /\ Ans(T, p, s, l)
<1>1. l \in Links \ {k}
  BY DEF Ports
<1>2. Follows(S[a], T[a]) /\ (S[a].pending => T[a].pending) /\ Me(a, T[a]) = Me(a, S[a])
      /\ (l \in T[a].live <=> l \in S[a].live) /\ T[a].heard[l] = S[a].heard[l]
  BY <1>1 DEF Relinks
<1>3. Chan(S, p, s, l)
  BY ShiftedChannel DEF Chan
<1>4. Chan(T, p, s, l)
  BY <1>2, <1>3, ChannelMoves
<1>5. (Mine(p, s, l) = {} => Mine(q, s, l) = {}) /\ (Mine(p, Other(l, s), l) = {} => Mine(q, Other(l, s), l) = {})
  BY ShiftedEmpty
<1>6. a \in {s, Other(l, s)} =>
        /\ Follows(S[a], T[a]) /\ (S[a].pending => T[a].pending)
        /\ l \in T[a].live <=> l \in S[a].live
        /\ T[a].heard[l] = S[a].heard[l]
  BY <1>2
<1>7. Ans(T, p, s, l)
  BY <1>5, <1>6, AnswerMoves
<1>8. QED BY <1>4, <1>7

LEMMA ShiftedSelf ==
  ASSUME NEW q, AirInv(q), NEW s, NEW l
  PROVE  Shifted(q, q, s, l, 0)
<1>1. \A i \in Mine(q, s, l) : i \in Nat /\ i + 0 = i
  BY LineIsNat
<1> DEFINE Q == Mine(q, s, l)
<1> HIDE DEF Q
<1>2. QED BY <1>1 DEF Shifted

LEMMA BothEndsTree ==
  ASSUME NEW S, NEW T, NEW q, AirInv(q), NEW p, AirInv(p), Talking(S, q), NEW k \in Links,
         SwInv(S), T \in [Switches -> SwitchType],
         \A a \in {End1[k], End2[k]} : Relinks(S, T, a, k),
         \A t \in Switches \ {End1[k], End2[k]} : T[t] = S[t],
         k \in T[End1[k]].live <=> k \in T[End2[k]].live,
         \A s \in Switches : \A l \in Ports(s) \ {k} : Shifted(p, q, s, l, 0),
         \A s \in {End1[k], End2[k]} : Chan(T, p, s, k) /\ Ans(T, p, s, k)
  PROVE  Talking(T, p)
<1> DEFINE a == End1[k]
           b == End2[k]
           x == T[a]
           M == [S EXCEPT ![a] = x]
<1>1. a \in Switches /\ b \in Switches /\ a # b
  BY StpAssumption
<1>2. M[a] = T[a] /\ \A t \in Switches \ {a} : M[t] = S[t]
  BY <1>1 DEF SwInv
<1>3. Sane(S)
  BY TalkingIs
<1>4. Relinks(S, T, a, k) /\ Relinks(S, T, b, k)
  OBVIOUS
<1>5. Sane(T)
  <2>1. \A s \in Switches : T[s].on /\ Tree(s, T[s]) /\ T[s].cost = PortCost * T[s].age
    <3>1. \A s \in Switches : s = a \/ s = b \/ T[s] = S[s]
      OBVIOUS
    <3>2. QED BY <1>3, <1>4, <3>1 DEF Sane, Relinks
  <2>2. \A s \in Switches : \A l \in Links \ {k} : l \in T[s].live <=> l \in S[s].live
    <3>1. \A s \in Switches : s = a \/ s = b \/ T[s] = S[s]
      OBVIOUS
    <3>2. QED BY <1>4, <3>1 DEF Relinks
  <2>3. \A l \in Links : End1[l] \in Switches /\ End2[l] \in Switches
    BY StpAssumption
  <2>4. \A l \in Links : l \in S[End1[l]].live <=> l \in S[End2[l]].live
    BY <1>3 DEF Sane
  <2>5. \A l \in Links : l \in T[End1[l]].live <=> l \in T[End2[l]].live
    <3> SUFFICES ASSUME NEW l \in Links PROVE l \in T[End1[l]].live <=> l \in T[End2[l]].live
      OBVIOUS
    <3>1. CASE l = k
      BY <3>1
    <3>2. CASE l # k
      BY <2>2, <2>3, <2>4, <3>2
    <3>3. QED BY <3>1, <3>2
  <2>6. QED BY <2>1, <2>5 DEF Sane
<1>6. Relinks(S, M, a, k)
  BY <1>2, <1>4 DEF Relinks
<1>7. Relinks(M, T, b, k)
  <2>1. M[b] = S[b]
    BY <1>1, <1>2
  <2>2. QED BY <1>4, <2>1 DEF Relinks
<1>8. \A t \in Switches \ {b} : T[t] = M[t]
  BY <1>2
<1>9. \A s \in Switches : \A l \in Ports(s) \ {k} : Shifted(p, q, s, l, 0)
  OBVIOUS
<1>10. \A s \in Switches : \A l \in Ports(s) : k = l => s \in {a, b}
  BY DEF Ports
<1> HIDE DEF a, b, x, M
<1>11. ASSUME NEW s \in Switches, NEW l \in Ports(s), l # k
       PROVE  Chan(T, p, s, l) /\ Ans(T, p, s, l)
  <2>1. Other(l, s) \in Switches /\ l \in Ports(Other(l, s))
    BY OtherEnd
  <2>2. Shifted(p, q, s, l, 0) /\ Shifted(p, q, Other(l, s), l, 0)
    BY <1>9, <1>11, <2>1
  <2>3. Chan(S, q, s, l) /\ Ans(S, q, s, l)
    BY TalkingIs
  <2>4. Chan(M, p, s, l) /\ Ans(M, p, s, l)
    BY <1>1, <1>2, <1>6, <1>11, <2>2, <2>3, OneEnd
  <2>5. Shifted(p, p, s, l, 0) /\ Shifted(p, p, Other(l, s), l, 0)
    BY ShiftedSelf
  <2>6. QED BY <1>1, <1>7, <1>8, <1>11, <2>4, <2>5, OneEnd
<1>12. \A s \in {a, b} : Chan(T, p, s, k) /\ Ans(T, p, s, k)
  BY DEF a, b
<1>13. \A s \in Switches : \A l \in Ports(s) : Chan(T, p, s, l) /\ Ans(T, p, s, l)
  BY <1>10, <1>11, <1>12
<1>14. QED BY <1>5, <1>13, TalkingIs

\* What every switch has heard, while all run the tree.
LEMMA HeardProper ==
  ASSUME NEW S, NEW q, Talking(S, q), SwInv(S), NEW s \in Switches
  PROVE  /\ \A l \in S[s].live : S[s].heard[l] # None => Proper(S[s].heard[l], l)
         /\ S[s] \in SwitchType /\ Fit(s, S[s]) /\ S[s].on /\ Tree(s, S[s]) /\ S[s].cost = PortCost * S[s].age
<1>1. \A l \in S[s].live : l \in Ports(s)
  BY DEF SwInv, Fit
<1>2. \A l \in Ports(s) : Chan(S, q, s, l)
  BY TalkingIs
<1>3. \A l \in Ports(s) : S[s].heard[l] # None => Proper(S[s].heard[l], l)
  BY <1>2 DEF Chan, Channel
<1>4. QED BY <1>1, <1>3 DEF SwInv, Talking


LEMMA CableInTree ==
  ASSUME TInv, TreeInv, NEW k \in Links, CableIn(k) PROVE TreeInv'
<1> SUFFICES ASSUME ~ stopped' PROVE Talking(sw', air')
  BY DEF TreeInv
<1> DEFINE new == [s \in {End1[k], End2[k]} |-> LinkUp(s, k)]
<1>1. k \notin Plugged /\ BothEnds(k, new) /\ air' = air /\ stopped' = stopped
  BY DEF CableIn
<1>2. Talking(sw, air) /\ SwInv(sw) /\ AirInv(air) /\ Sane(sw)
  BY <1>1, TalkingIs DEF TreeInv, TInv
<1>3. SwInv(sw') /\ \A t \in Switches : sw'[t] = IF t \in {End1[k], End2[k]} THEN new[t] ELSE sw[t]
  <2>1. TInv'
    BY CableInType
  <2>2. QED BY <1>1, <2>1 DEF TInv, BothEnds
<1>4. ASSUME NEW s \in {End1[k], End2[k]}
      PROVE  /\ s \in Switches /\ k \in Ports(s) /\ k \notin sw[s].live /\ sw[s].heard[k] = None
             /\ Mine(air, s, k) = {}
  <2>1. s \in Switches /\ k \in Ports(s)
    BY StpAssumption DEF Ports
  <2>2. k \notin sw[s].live
    BY <1>1, <1>2 DEF Plugged, Sane
  <2>3. Chan(sw, air, s, k)
    BY <1>2, <2>1, TalkingIs
  <2>4. QED BY <2>1, <2>2, <2>3 DEF Chan, Channel
<1>5. ASSUME NEW s \in {End1[k], End2[k]}
      PROVE  Relinks(sw, sw', s, k) /\ k \in sw'[s].live /\ sw'[s].heard[k] = None /\ sw'[s].pending
  <2> DEFINE w == sw[s]
             u == PluggedIn(w, k)
             x == Recompute(s, u, TRUE).w
  <2>1. s \in Switches /\ k \notin w.live /\ w.heard[k] = None
    BY <1>4
  <2>2. /\ \A l \in w.live : w.heard[l] # None => Proper(w.heard[l], l)
        /\ w \in SwitchType /\ Fit(s, w) /\ w.on /\ w.cost = PortCost * w.age
    BY <1>2, <2>1, HeardProper
  <2>3. u \in SwitchType /\ Young(u) /\ u = [w EXCEPT !.live = u.live] /\ u.live = w.live \cup {k}
    BY <2>2, PluggedInType DEF Fit
  <2>4. sw'[s] = IF u.on THEN x ELSE u
    BY <1>3, <2>1, LinkUpIs DEF Relinked
  <2> HIDE DEF u
  <2>5. u.heard = w.heard /\ u.on = w.on /\ u.cost = w.cost /\ u.age = w.age /\ u.prio = w.prio
    BY <2>2, <2>3 DEF SwitchType
  <2>6. \A l \in u.live : u.heard[l] # None => Proper(u.heard[l], l)
    BY <2>1, <2>2, <2>3, <2>5
  <2>7. Reelected(s, u, x, TRUE)
    BY <2>1, <2>2, <2>3, <2>5, <2>6, ReelectedIs
  <2>8. sw'[s] = x
    BY <2>2, <2>4, <2>5
  <2> HIDE DEF x, w
  <2>9. /\ x.on = w.on /\ Tree(s, x) /\ x.cost = PortCost * x.age /\ x.pending /\ x.prio = w.prio
        /\ x.live = w.live \cup {k} /\ x.heard = w.heard
    BY <2>3, <2>5, <2>7 DEF Reelected
  <2>10. /\ Follows(w, x) /\ Me(s, x) = Me(s, w)
         /\ \A l \in Links \ {k} : (l \in x.live <=> l \in w.live) /\ x.heard[l] = w.heard[l]
    BY <2>9 DEF Follows, Me
  <2> DEFINE T == sw'
  <2>11. T[s] = x /\ sw[s] = w
    BY <2>8 DEF w
  <2> HIDE DEF T
  <2>12. Relinks(sw, T, s, k)
    BY <2>2, <2>9, <2>10, <2>11 DEF Relinks
  <2>13. k \in T[s].live /\ T[s].heard[k] = None /\ T[s].pending
    BY <2>1, <2>9, <2>11
  <2>14. QED BY <2>12, <2>13 DEF T
<1> DEFINE T == sw'
           p == air
<1>6. \A s \in {End1[k], End2[k]} : Chan(T, p, s, k) /\ Ans(T, p, s, k)
  <2> SUFFICES ASSUME NEW s \in {End1[k], End2[k]} PROVE Chan(T, p, s, k) /\ Ans(T, p, s, k)
    OBVIOUS
  <2> DEFINE t == Other(k, s)
             w == T[s]
             v == T[t]
  <2>1. k \in w.live /\ w.heard[k] = None /\ w.pending /\ Mine(p, s, k) = {}
    BY <1>4, <1>5
  <2> HIDE DEF w, t, v, p
  <2>2. Channel(w, v, p, s, t, k) /\ Answered(w, v, p, s, t, k)
    BY <2>1 DEF Channel, Answered
  <2>3. QED BY <2>2 DEF Chan, Ans, w, v, t, p
<1>7. \A s \in Switches : \A l \in Ports(s) \ {k} : Shifted(p, air, s, l, 0)
  BY <1>2, ShiftedSelf
<1>8. \A t \in Switches \ {End1[k], End2[k]} : T[t] = sw[t]
  BY <1>3
<1>9. T \in [Switches -> SwitchType] /\ (\A a \in {End1[k], End2[k]} : Relinks(sw, T, a, k))
      /\ (k \in T[End1[k]].live <=> k \in T[End2[k]].live) /\ AirInv(p)
  BY <1>2, <1>3, <1>5 DEF SwInv
<1>10. air' = p
  BY <1>1
<1> HIDE DEF T, p
<1>11. Talking(T, p)
  BY <1>2, <1>6, <1>7, <1>8, <1>9, BothEndsTree
<1>12. QED BY <1>10, <1>11 DEF T

\* What is on cable k is lost, and nothing else.
Cut(p, q, k) ==
  /\ \A s, l : Mine(p, s, l) = IF l = k THEN {} ELSE Mine(q, s, l)
  /\ \A i \in DOMAIN q : q[i].on # k => p[i] = q[i]

LEMMA CutIs ==
  ASSUME NEW q, AirInv(q), NEW k \in Links, NEW p,
         p = [i \in DOMAIN q |-> IF q[i].on = k THEN [q[i] EXCEPT !.is = [kind |-> "lost"]] ELSE q[i]]
  PROVE  Cut(p, q, k)
<1>1. ASSUME NEW i \in DOMAIN q, q[i].on = k
      PROVE  p[i].on = k /\ p[i].is.kind # "bpdu"
  <2> DEFINE f == q[i]
             lost == [kind |-> "lost"]
  <2>1. f \in FrameType \cup {Tick} /\ f.on = k
    BY <1>1, ElementOfSeq DEF AirInv
  <2>2. f \in FrameType
    BY <2>1, StpAssumption DEF Tick
  <2>3. p[i] = [f EXCEPT !.is = lost]
    BY <1>1
  <2>4. lost.kind # "bpdu"
    OBVIOUS
  <2> HIDE DEF f, lost
  <2>5. p[i].on = f.on /\ p[i].is = lost
    BY <2>2, <2>3 DEF FrameType
  <2>6. QED BY <2>1, <2>4, <2>5
<1>2. DOMAIN p = DOMAIN q /\ \A i \in DOMAIN q : q[i].on # k => p[i] = q[i]
  OBVIOUS
<1>3. ASSUME NEW s, NEW l PROVE Mine(p, s, l) = IF l = k THEN {} ELSE Mine(q, s, l)
  BY <1>1, <1>2 DEF Mine
<1>4. QED BY <1>2, <1>3 DEF Cut

LEMMA CableOutTree ==
  ASSUME TInv, TreeInv, NEW k \in Links, CableOut(k) PROVE TreeInv'
<1> SUFFICES ASSUME ~ stopped' PROVE Talking(sw', air')
  BY DEF TreeInv
<1> DEFINE new == [s \in {End1[k], End2[k]} |-> LinkDown(s, k)]
<1>1. BothEnds(k, new) /\ stopped' = stopped
      /\ air' = [i \in DOMAIN air |-> IF air[i].on = k THEN [air[i] EXCEPT !.is = [kind |-> "lost"]] ELSE air[i]]
  BY DEF CableOut
<1>2. Talking(sw, air) /\ SwInv(sw) /\ AirInv(air)
  BY <1>1 DEF TreeInv, TInv
<1>3. SwInv(sw') /\ AirInv(air')
      /\ \A t \in Switches : sw'[t] = IF t \in {End1[k], End2[k]} THEN new[t] ELSE sw[t]
  <2>1. TInv'
    BY CableOutType
  <2>2. QED BY <1>1, <2>1 DEF TInv, BothEnds
<1> DEFINE T == sw'
           p == air'
<1>4. Cut(p, air, k)
  BY <1>1, <1>2, CutIs
<1>5. ASSUME NEW s \in {End1[k], End2[k]}
      PROVE  Relinks(sw, T, s, k) /\ k \notin T[s].live /\ T[s].heard[k] = None
  <2> DEFINE w == sw[s]
             u == Unplugged(w, k)
             x == Recompute(s, u, FALSE).w
  <2>1. s \in Switches
    BY StpAssumption
  <2>2. /\ \A l \in w.live : w.heard[l] # None => Proper(w.heard[l], l)
        /\ w \in SwitchType /\ Fit(s, w) /\ w.on /\ w.cost = PortCost * w.age /\ w.live \subseteq Links
    BY <1>2, <2>1, HeardProper DEF SwitchType
  <2>3. /\ u \in SwitchType /\ Young(u)
        /\ u.live = w.live \ {k} /\ u.on = w.on /\ u.prio = w.prio /\ u.pending = w.pending
        /\ u.root = w.root /\ u.cost = w.cost /\ u.age = w.age /\ u.role = w.role
        /\ (\A l \in Links \ {k} : u.heard[l] = w.heard[l]) /\ (w.on => u.heard[k] = None)
    BY ZenonT(60), <2>2, UnpluggedType DEF Fit
  <2>4. T[s] = IF u.on THEN x ELSE u
    BY <1>3, <2>1, <2>2, LinkDownIs DEF Relinked
  <2> HIDE DEF u
  <2>5. \A l \in u.live : u.heard[l] # None => Proper(u.heard[l], l)
    BY <2>2, <2>3
  <2>6. Reelected(s, u, x, FALSE)
    BY <2>1, <2>2, <2>3, <2>5, ReelectedIs
  <2>7. T[s] = x
    BY <2>2, <2>3, <2>4
  <2>8. sw[s] = w
    OBVIOUS
  <2> HIDE DEF x, w, T
  <2>9. /\ x.on = w.on /\ Tree(s, x) /\ x.cost = PortCost * x.age /\ x.prio = w.prio
        /\ x.live = w.live \ {k} /\ x.heard = u.heard /\ Follows(u, x) /\ (w.pending => x.pending)
    BY <2>3, <2>6 DEF Reelected
  <2>10. Follows(w, x)
    BY <2>3, <2>9 DEF Follows
  <2>11. /\ Me(s, x) = Me(s, w)
         /\ \A l \in Links \ {k} : (l \in x.live <=> l \in w.live) /\ x.heard[l] = w.heard[l]
    BY <2>3, <2>9 DEF Me
  <2>12. Relinks(sw, T, s, k)
    BY <2>2, <2>7, <2>8, <2>9, <2>10, <2>11 DEF Relinks
  <2>13. k \notin T[s].live /\ T[s].heard[k] = None
    BY <2>2, <2>3, <2>7, <2>9
  <2>14. QED BY <2>12, <2>13
<1>6. \A s \in {End1[k], End2[k]} : Chan(T, p, s, k) /\ Ans(T, p, s, k)
  <2> SUFFICES ASSUME NEW s \in {End1[k], End2[k]} PROVE Chan(T, p, s, k) /\ Ans(T, p, s, k)
    OBVIOUS
  <2> DEFINE t == Other(k, s)
             w == T[s]
             v == T[t]
  <2>1. k \notin w.live /\ w.heard[k] = None
    BY <1>5
  <2>2. Mine(p, s, k) = {}
    BY <1>4 DEF Cut
  <2> HIDE DEF w, t, v, p
  <2>3. Channel(w, v, p, s, t, k) /\ Answered(w, v, p, s, t, k)
    BY <2>1, <2>2 DEF Channel, Answered
  <2>4. QED BY <2>3 DEF Chan, Ans, w, v, t
<1>7. ASSUME NEW s \in Switches, NEW l \in Ports(s) \ {k} PROVE Shifted(p, air, s, l, 0)
  <2> DEFINE Q == Mine(air, s, l)
  <2>1. Mine(p, s, l) = Q
    BY <1>4 DEF Cut
  <2>2. \A i \in Q : i \in Nat /\ i + 0 = i
    BY <1>2, LineIsNat
  <2>3. \A i \in Q : p[i] = air[i]
    BY <1>4 DEF Cut, Mine
  <2> HIDE DEF Q, p
  <2>4. QED BY <2>1, <2>2, <2>3 DEF Shifted, Q
<1>8. \A t \in Switches \ {End1[k], End2[k]} : T[t] = sw[t]
  BY <1>3
<1>9. T \in [Switches -> SwitchType] /\ (\A a \in {End1[k], End2[k]} : Relinks(sw, T, a, k))
      /\ (k \in T[End1[k]].live <=> k \in T[End2[k]].live) /\ AirInv(p)
  BY <1>3, <1>5 DEF SwInv
<1> HIDE DEF T, p
<1>10. Talking(T, p)
  BY <1>2, <1>6, <1>7, <1>8, <1>9, BothEndsTree
<1>11. QED BY <1>10 DEF T, p


LEMMA InitTree ==
  ASSUME Init PROVE TreeInv
<1>1. sw = [s \in Switches |-> Recompute(s, Wired(s), TRUE).w]
  BY DEF Init, Wired, Plain
<1>2. ASSUME NEW s \in Switches
      PROVE  /\ sw[s].on /\ Tree(s, sw[s]) /\ sw[s].cost = PortCost * sw[s].age /\ sw[s].live = Ports(s)
             /\ sw[s].pending /\ \A l \in Links : sw[s].heard[l] = None
  <2> DEFINE v == Wired(s)
             r == Recompute(s, v, TRUE)
             w == r.w
  <2>1. v \in SwitchType /\ Young(v) /\ v.live = Ports(s) /\ v.on /\ \A l \in Links : v.heard[l] = None
    BY NewSwitchFits
  <2>2. sw[s] = w
    BY <1>1
  <2> HIDE DEF v
  <2>3. Settles(s, v, TRUE, r)
    BY <2>1, RecomputeDoes
  <2> HIDE DEF r
  <2>4. w \in SwitchType /\ Same(v, w) /\ Tree(s, w) /\ w.pending
    BY <2>3 DEF Settles
  <2> HIDE DEF w
  <2>5. w.on /\ w.live = Ports(s) /\ Young(w) /\ \A l \in Links : w.heard[l] = None
    BY <2>1, <2>4 DEF Same, Young
  <2>6. \A l \in w.live : w.heard[l] # None => Proper(w.heard[l], l)
    <3>1. w.live \subseteq Links
      BY <2>4 DEF SwitchType
    <3>2. QED BY <2>5, <3>1
  <2>7. w.cost = PortCost * w.age
    BY <2>4, <2>5, <2>6, CostIsAge
  <2>8. QED BY <2>2, <2>4, <2>5, <2>7
<1> DEFINE S == sw
           q == air
<1>3. \A s, l : Mine(q, s, l) = {}
  <2>1. DOMAIN q = {1} /\ q[1] = Tick
    BY DEF Init
  <2>2. Tick.is.kind # "bpdu"
    BY DEF Tick
  <2> HIDE DEF q
  <2>3. \A i \in DOMAIN q : q[i].is.kind # "bpdu"
    BY <2>1, <2>2
  <2>4. QED BY <2>3 DEF Mine
<1>4. Sane(S)
  <2>1. \A l \in Links : l \in S[End1[l]].live /\ l \in S[End2[l]].live
    <3>1. \A l \in Links : End1[l] \in Switches /\ End2[l] \in Switches /\ l \in Ports(End1[l]) /\ l \in Ports(End2[l])
      BY StpAssumption DEF Ports
    <3>2. QED BY <1>2, <3>1
  <2>2. QED BY <1>2, <2>1 DEF Sane
<1>5. \A s \in Switches : \A l \in Ports(s) : Chan(S, q, s, l) /\ Ans(S, q, s, l)
  <2> SUFFICES ASSUME NEW s \in Switches, NEW l \in Ports(s) PROVE Chan(S, q, s, l) /\ Ans(S, q, s, l)
    OBVIOUS
  <2> DEFINE t == Other(l, s)
             w == S[s]
             v == S[t]
  <2>1. t \in Switches /\ l \in Links
    BY OtherEnd
  <2>2. w.heard[l] = None /\ v.pending
    BY <1>2, <2>1
  <2> HIDE DEF w, t, v, q
  <2>3. Channel(w, v, q, s, t, l) /\ Answered(w, v, q, s, t, l)
    BY <1>3, <2>2 DEF Channel, Answered
  <2>4. QED BY <2>3 DEF Chan, Ans, w, v, t
<1> HIDE DEF S, q
<1>6. Talking(S, q)
  BY <1>4, <1>5, TalkingIs
<1>7. QED BY <1>6 DEF TreeInv, S, q

LEMMA StepTree == TInv /\ TreeInv /\ [Next]_vars => TreeInv'
<1> SUFFICES ASSUME TInv, TreeInv, [Next]_vars PROVE TreeInv'
  OBVIOUS
<1>1. CASE Work
  BY <1>1, SendTimerTree, ReceiveBpduTree, PassBpduTree, ReceiveDataTree, ReceiveLostTree, ArriveTree DEF Work
<1>2. CASE TimePasses
  BY <1>2, TimePassesTree
<1>3. CASE Talk
  BY <1>3, TalkTree
<1>4. ASSUME NEW l \in Links, CableOut(l) \/ CableIn(l) PROVE TreeInv'
  BY <1>4, CableOutTree, CableInTree
<1>5. ASSUME NEW s \in Switches, NEW on \in BOOLEAN, NEW prio \in Prios, SetStp(s, on, prio) PROVE TreeInv'
  BY <1>5, SetStpTree
<1>6. CASE UNCHANGED vars
  <2>1. sw' = sw /\ air' = air /\ stopped' = stopped
    BY <1>6 DEF vars
  <2>2. QED BY <2>1 DEF TreeInv
<1>7. QED BY <1>1, <1>2, <1>3, <1>4, <1>5, <1>6 DEF Next

LEMMA TreeHolds == Spec => []TreeInv
<1>1. Init => TreeInv
  BY InitTree
<1>2. QED BY <1>1, StepTree, TypesHold, PTL DEF Spec


-------------------------------------------------------------------------------
(* When all have said what they think *)

\* What s, in state w, knows of t, in state v, over cable l.
Knows(w, v, t, l) ==
  /\ l \notin w.live => w.heard[l] = None
  /\ w.heard[l] # None => Says(w.heard[l], t, v) /\ w.heard[l].port = l
  /\ l \in w.live /\ w.heard[l] = None => v.age > MaxAge \/ v.role[l] # "designated" \/ w.age > MaxAge

Quiet(S) ==
  /\ SwInv(S) /\ Sane(S)
  /\ \A s \in Switches : \A l \in Ports(s) : Knows(S[s], S[Other(l, s)], Other(l, s), l)

LEMMA QuietIs ==
  ASSUME TInv, TreeInv, Settled, ~ stopped
  PROVE  Quiet(sw)
<1> DEFINE q == air
           S == sw
<1>1. Comes("tick") /\ due = <<>> /\ Len(air) = 1
  BY DEF Settled, Rests
<1>2. \A s, l : Mine(q, s, l) = {}
  <2>1. AirInv(q) /\ q # <<>> /\ Head(q).is.kind = "tick" /\ Len(q) = 1
    BY <1>1 DEF TInv, Comes
  <2>2. q[1].is.kind = "tick"
    BY <2>1, AirHead
  <2>3. DOMAIN q = 1 .. 1
    BY <2>1, LineIsNat
  <2> HIDE DEF q
  <2>4. \A i \in DOMAIN q : i = 1
    BY <2>3
  <2>5. \A i \in DOMAIN q : q[i].is.kind # "bpdu"
    BY <2>2, <2>4
  <2>6. QED BY <2>5 DEF Mine
<1>3. \A s \in Switches : ~ S[s].pending
  BY <1>1 DEF TInv, DueInv
<1>4. Talking(S, q) /\ SwInv(S)
  BY DEF TreeInv, TInv
<1> HIDE DEF S, q
<1>5. ASSUME NEW s \in Switches, NEW l \in Ports(s) PROVE Knows(S[s], S[Other(l, s)], Other(l, s), l)
  <2> DEFINE t == Other(l, s)
             w == S[s]
             v == S[t]
  <2>1. t \in Switches
    BY OtherEnd
  <2>2. Channel(w, v, q, s, t, l) /\ Answered(w, v, q, s, t, l)
    BY <1>4, TalkingIs DEF Chan, Ans
  <2>3. ~ v.pending /\ ~ w.pending
    BY <1>3, <2>1
  <2> HIDE DEF w, v, t
  <2>4. l \notin w.live => w.heard[l] = None
    BY <2>2 DEF Channel
  <2>5. w.heard[l] # None => Says(w.heard[l], t, v) /\ w.heard[l].port = l
    BY <1>2, <2>2, <2>3 DEF Channel, Proper
  <2>6. l \in w.live /\ w.heard[l] = None => v.age > MaxAge \/ v.role[l] # "designated" \/ w.age > MaxAge
    BY <1>2, <2>2, <2>3 DEF Answered
  <2>7. Knows(w, v, t, l)
    BY <2>4, <2>5, <2>6 DEF Knows
  <2>8. QED BY <2>7 DEF w, v, t
<1>6. Quiet(S)
  BY <1>4, <1>5, TalkingIs DEF Quiet
<1>7. QED BY <1>6 DEF S

\* The switch at the other end of the root port.
Parent(S, s) == Other(S[s].port, s)

\* A switch is a root, or follows the one at the other end of its root port.
IsRoot(S, s) == S[s].port = None /\ S[s].age = 0 /\ S[s].root = Me(s, S[s])

Climbs(S, s) ==
  /\ S[s].port \in Ports(s) /\ S[s].port \in S[s].live /\ Parent(S, s) \in Switches
  /\ S[s].age = S[Parent(S, s)].age + 1 /\ S[s].cost = S[Parent(S, s)].cost + PortCost
  /\ S[s].root = S[Parent(S, s)].root /\ S[s].root < Me(s, S[s])

\* The numbers of a switch.
LEMMA Numbers ==
  ASSUME NEW S, SwInv(S), NEW s \in Switches
  PROVE  S[s].age \in Nat /\ S[s].cost \in Nat /\ S[s].root \in Nat /\ Me(s, S[s]) \in Nat
<1>1. S[s] \in SwitchType
  BY DEF SwInv
<1>2. Me(s, S[s]) \in Nat
  BY <1>1, MeType
<1>3. QED BY <1>1, <1>2, StpAssumption DEF SwitchType

LEMMA RootOrClimbs ==
  ASSUME NEW S, Quiet(S), NEW s \in Switches
  PROVE  IsRoot(S, s) \/ Climbs(S, s)
<1> DEFINE w == S[s]
<1>1. w \in SwitchType /\ Fit(s, w) /\ Tree(s, w) /\ Elected(s, w)
  BY DEF Quiet, SwInv, Sane, Tree
<1>2. CASE Offers(s, w) = {} /\ w.root = Me(s, w) /\ w.cost = 0 /\ w.port = None /\ w.age = 0
  BY <1>2 DEF IsRoot
<1>3. CASE ~ (Offers(s, w) = {} /\ w.root = Me(s, w) /\ w.cost = 0 /\ w.port = None /\ w.age = 0)
  <2> DEFINE l == w.port
             t == Other(l, s)
             v == S[t]
             h == w.heard[l]
  <2>1. l \in Offers(s, w) /\ w.root = h.root /\ w.cost = h.cost + PortCost /\ w.age = h.age + 1
    BY <1>1, <1>3 DEF Elected
  <2>2. l \in w.live /\ h # None /\ h.root < Me(s, w)
    BY <2>1 DEF Offers
  <2>3. l \in Ports(s)
    BY <1>1, <2>2 DEF Fit
  <2>4. t \in Switches
    BY <2>3, OtherEnd
  <2>5. Says(h, t, v)
    BY <2>2, <2>3 DEF Quiet, Knows
  <2> HIDE DEF h
  <2>6. h.root = v.root /\ h.cost = v.cost /\ h.age = v.age
    BY <2>5 DEF Says
  <2>7. w.age = v.age + 1 /\ w.cost = v.cost + PortCost /\ w.root = v.root /\ w.root < Me(s, w)
    BY <2>1, <2>2, <2>6
  <2>8. QED BY <2>2, <2>3, <2>4, <2>7 DEF Climbs, Parent
<1>4. QED BY <1>2, <1>3

\* Somebody is one nearer to the root.
LEMMA OneNearer ==
  ASSUME NEW S, Quiet(S), NEW s \in Switches, S[s].age # 0
  PROVE  Climbs(S, s) /\ Parent(S, s) \in Switches /\ S[Parent(S, s)].age = S[s].age - 1
<1>1. Climbs(S, s)
  BY RootOrClimbs DEF IsRoot
<1>2. Parent(S, s) \in Switches /\ S[s].age = S[Parent(S, s)].age + 1
  BY <1>1 DEF Climbs
<1>3. S[Parent(S, s)].age \in Nat
  BY <1>2, Numbers DEF Quiet
<1>4. QED BY <1>1, <1>2, <1>3

\* Every age below that of a switch is the age of some switch, of which there are too few
\* for an age above MaxAge.
LEMMA AgesFit ==
  ASSUME NEW S, Quiet(S), Cardinality(Switches) <= MaxAge + 1, NEW s \in Switches
  PROVE  S[s].age <= MaxAge
<1> DEFINE n == S[s].age
           Ages == {S[t].age : t \in Switches}
<1>1. \A t \in Switches : S[t].age \in Nat
  BY Numbers DEF Quiet
<1>2. n \in Nat /\ n \in Ages
  BY <1>1
<1>3. ASSUME NEW a \in Ages, a # 0 PROVE a - 1 \in Ages
  <2>1. PICK t \in Switches : a = S[t].age
    OBVIOUS
  <2>2. Parent(S, t) \in Switches /\ S[Parent(S, t)].age = a - 1
    BY <1>3, <2>1, OneNearer
  <2>3. QED BY <2>2
<1>4. IsFiniteSet(Ages) /\ Cardinality(Ages) <= Cardinality(Switches)
  <2> DEFINE f == [t \in Switches |-> S[t].age]
  <2>1. f \in Surjection(Switches, Ages)
    BY DEF Surjection
  <2> HIDE DEF f, Ages
  <2>2. QED BY <2>1, SwitchesFinite, FS_Surjection
<1> HIDE DEF n, Ages
<1>5. 0 .. n \subseteq Ages
  <2> SUFFICES ASSUME ~ (0 .. n \subseteq Ages) PROVE FALSE
    OBVIOUS
  <2> DEFINE B == {k \in Nat : k <= n /\ n - k \notin Ages}
  <2>1. B # {}
    <3>1. PICK a \in 0 .. n : a \notin Ages
      OBVIOUS
    <3>2. n - a \in Nat /\ n - a <= n /\ n - (n - a) = a
      BY <1>2, <3>1
    <3>3. n - a \in B
      BY <3>1, <3>2
    <3>4. QED BY <3>3
  <2>2. B \in SUBSET Nat
    OBVIOUS
  <2> HIDE DEF B
  <2>3. PICK m \in B : \A k \in B : m <= k
    BY <2>1, <2>2, Smallest
  <2>4. m \in Nat /\ m <= n /\ n - m \notin Ages
    BY <2>3 DEF B
  <2>5. m # 0
    <3>1. n - 0 = n
      BY <1>2
    <3>2. QED BY <1>2, <2>4, <3>1
  <2>6. m - 1 \in Nat /\ m - 1 <= n /\ ~ (m <= m - 1)
    BY <1>2, <2>4, <2>5
  <2>7. n - (m - 1) \in Ages
    BY <2>3, <2>6 DEF B
  <2>8. n - (m - 1) # 0 /\ (n - (m - 1)) - 1 = n - m
    BY <1>2, <2>4
  <2>9. n - m \in Ages
    BY <1>3, <2>7, <2>8
  <2>10. QED BY <2>4, <2>9
<1>6. IsFiniteSet(0 .. n) /\ Cardinality(0 .. n) = n + 1
  <2>1. 0 \in Int /\ n \in Int /\ 0 <= n
    BY <1>2
  <2>2. IsFiniteSet(0 .. n) /\ Cardinality(0 .. n) = IF 0 > n THEN 0 ELSE n - 0 + 1
    BY <2>1, FS_Interval
  <2>3. QED BY <2>1, <2>2
<1>7. Cardinality(0 .. n) <= Cardinality(Ages)
  BY <1>4, <1>5, FS_Subset
<1>8. Cardinality(Ages) \in Nat /\ Cardinality(Switches) \in Nat
  BY <1>4, SwitchesFinite, FS_CardinalityType
<1>9. n + 1 <= MaxAge + 1
  BY <1>2, <1>4, <1>6, <1>7, <1>8, StpAssumption
<1>10. QED BY <1>2, <1>9, StpAssumption DEF n


\* All are young enough.
Near(S) == Quiet(S) /\ \A s \in Switches : S[s].age <= MaxAge

\* What the two ends of a cable think of it.
Adjacent(S, s, t, l) ==
  /\ t \in Switches /\ t # s /\ l \in Ports(t) /\ Other(l, t) = s /\ l \in S[t].live
  /\ S[s].heard[l] # None =>
        /\ S[s].heard[l].root = S[t].root
        /\ Vector(S[s].heard[l]) = <<S[t].root, S[t].cost, Me(t, S[t]), l>>
  /\ S[s].heard[l] = None => S[t].role[l] # "designated"
  /\ S[s].role[l] = "root" <=> l = S[s].port
  /\ S[s].role[l] = "designated" <=>
        l # S[s].port /\ (S[s].heard[l] = None \/ Better(MyVector(s, S[s], l), Vector(S[s].heard[l])))

LEMMA AdjacentIs ==
  ASSUME NEW S, Near(S), NEW s \in Switches, NEW l \in Ports(s), l \in S[s].live
  PROVE  Adjacent(S, s, Other(l, s), l)
<1> DEFINE t == Other(l, s)
           w == S[s]
           v == S[t]
<1>1. t \in Switches /\ t # s /\ l \in Ports(t) /\ Other(l, t) = s /\ l \in Links
  BY OtherEnd
<1>2. l \in v.live
  BY LiveBoth DEF Near, Quiet
<1>3. Knows(w, v, t, l) /\ v.age <= MaxAge /\ w.age <= MaxAge /\ v.age \in Nat /\ w.age \in Nat
  BY <1>1, Numbers DEF Near, Quiet
<1>4. Tree(s, w) /\ l \in w.live
  BY DEF Near, Quiet, Sane
<1> HIDE DEF w, v, t
<1>5. w.heard[l] # None =>
        w.heard[l].root = v.root /\ Vector(w.heard[l]) = <<v.root, v.cost, Me(t, v), l>>
  BY <1>3 DEF Knows, Says, Vector
<1>6. w.heard[l] = None => v.role[l] # "designated"
  BY <1>3, <1>4, StpAssumption DEF Knows
<1>7. /\ w.role[l] = "root" <=> l = w.port
      /\ w.role[l] = "designated" <=>
           l # w.port /\ (w.heard[l] = None \/ Better(MyVector(s, w, l), Vector(w.heard[l])))
  BY <1>1, <1>4, InCharge
<1>8. QED BY <1>1, <1>2, <1>5, <1>6, <1>7 DEF Adjacent, w, v, t

\* One who thinks better of a cable than the other does not follow a worse root.
LEMMA BetterMine ==
  ASSUME NEW S, SwInv(S), NEW s \in Switches, NEW t \in Switches, NEW l, NEW h,
         h = <<S[t].root, S[t].cost, Me(t, S[t]), l>>
  PROVE  /\ S[s].root < S[t].root => Better(MyVector(s, S[s], l), h)
         /\ S[s].root = S[t].root /\ S[s].cost < S[t].cost => Better(MyVector(s, S[s], l), h)
         /\ Better(MyVector(s, S[s], l), h) =>
              \/ S[s].root < S[t].root
              \/ S[s].root = S[t].root /\ S[s].cost < S[t].cost
              \/ S[s].root = S[t].root /\ S[s].cost = S[t].cost /\ Me(s, S[s]) < Me(t, S[t])
              \/ S[s].root = S[t].root /\ S[s].cost = S[t].cost /\ Me(s, S[s]) = Me(t, S[t]) /\ l < l
<1> DEFINE u == MyVector(s, S[s], l)
           a == S[s].root
           b == S[s].cost
           c == Me(s, S[s])
           x == S[t].root
           y == S[t].cost
           z == Me(t, S[t])
<1>1. u = <<a, b, c, l>> /\ h = <<x, y, z, l>>
  BY DEF MyVector
<1> HIDE DEF u, a, b, c, x, y, z
<1>2. /\ u[1] = a /\ u[2] = b /\ u[3] = c /\ u[4] = l /\ Len(u) = 4
      /\ h[1] = x /\ h[2] = y /\ h[3] = z /\ h[4] = l
  BY <1>1
<1>3. Better(u, h) <=>
        \/ u[1] < h[1]
        \/ u[1] = h[1] /\ u[2] < h[2]
        \/ u[1] = h[1] /\ u[2] = h[2] /\ u[3] < h[3]
        \/ u[1] = h[1] /\ u[2] = h[2] /\ u[3] = h[3] /\ u[4] < h[4]
  BY <1>2, BetterFour
<1>4. Better(u, h) <=>
        a < x \/ (a = x /\ b < y) \/ (a = x /\ b = y /\ c < z) \/ (a = x /\ b = y /\ c = z /\ l < l)
  BY <1>2, <1>3
<1>5. QED BY <1>4 DEF u, a, b, c, x, y, z

\* The switches at the ends of a cable have the same root.
LEMMA RootNoWorse ==
  ASSUME NEW S, Near(S), NEW s \in Switches, NEW l \in Ports(s), l \in S[s].live
  PROVE  S[s].root <= S[Other(l, s)].root
<1> DEFINE t == Other(l, s)
           w == S[s]
           v == S[t]
<1>1. Adjacent(S, s, t, l)
  BY AdjacentIs
<1>2. t \in Switches /\ l \in Ports(t) /\ Other(l, t) = s /\ l \in v.live
  BY <1>1 DEF Adjacent
<1>3. Adjacent(S, t, s, l)
  BY <1>2, AdjacentIs
<1>4. w.root \in Nat /\ v.root \in Nat /\ Me(s, w) \in Nat
  BY <1>2, Numbers DEF Near, Quiet
<1>5. w \in SwitchType /\ Elected(s, w) /\ SwInv(S)
  BY DEF Near, Quiet, SwInv, Sane, Tree
<1>6. CASE w.heard[l] # None
  <2>1. w.heard[l].root = v.root
    BY <1>1, <1>6 DEF Adjacent
  <2>2. CASE Offers(s, w) = {}
    <3>1. ~ (v.root < Me(s, w))
      BY <1>6, <2>1, <2>2 DEF Offers
    <3>2. w.root = Me(s, w)
      BY <1>5, <2>2 DEF Elected
    <3>3. QED BY <1>4, <3>1, <3>2
  <2>3. CASE Offers(s, w) # {}
    <3> DEFINE k == w.port
    <3>1. /\ k \in Offers(s, w) /\ w.root = w.heard[k].root
          /\ \A j \in Offers(s, w) \ {k} : Better(Offer(w, k), Offer(w, j))
      BY <1>5, <2>3 DEF Elected
    <3>2. w.root < Me(s, w)
      BY <3>1 DEF Offers
    <3>3. CASE l \notin Offers(s, w)
      <4>1. ~ (v.root < Me(s, w))
        BY <1>6, <2>1, <3>3 DEF Offers
      <4>2. QED BY <1>4, <3>2, <4>1
    <3>4. CASE l = k
      BY <1>4, <2>1, <3>1, <3>4
    <3>5. CASE l \in Offers(s, w) /\ l # k
      <4> DEFINE a == Offer(w, k)
                 b == Offer(w, l)
      <4>1. Better(a, b)
        BY <3>1, <3>5
      <4>2. Len(a) = 5 /\ a[1] = w.root /\ b[1] = v.root
        BY <2>1, <3>1 DEF Offer
      <4> HIDE DEF a, b
      <4>3. a[1] < b[1] \/ a[1] = b[1]
        BY <4>1, <4>2, BetterFive
      <4>4. QED BY <1>4, <4>2, <4>3
    <3>6. QED BY <3>3, <3>4, <3>5
  <2>4. QED BY <2>2, <2>3
<1>7. CASE w.heard[l] = None
  <2>1. v.role[l] # "designated"
    BY <1>1, <1>7 DEF Adjacent
  <2>2. l = v.port \/ (v.heard[l] # None /\ ~ Better(MyVector(t, v, l), Vector(v.heard[l])))
    BY <1>3, <2>1 DEF Adjacent
  <2>3. CASE l = v.port
    <3>1. v.root = w.root
      <4>1. v.port # None
        BY <2>3, StpAssumption DEF Ports
      <4>2. Climbs(S, t)
        BY <1>2, <4>1, RootOrClimbs DEF Near, IsRoot
      <4>3. QED BY <1>2, <2>3, <4>2 DEF Climbs, Parent
    <3>2. QED BY <1>4, <3>1
  <2>4. CASE v.heard[l] # None /\ ~ Better(MyVector(t, v, l), Vector(v.heard[l]))
    <3>1. Vector(v.heard[l]) = <<w.root, w.cost, Me(s, w), l>>
      BY <1>3, <2>4 DEF Adjacent
    <3>2. v.root < w.root => Better(MyVector(t, v, l), Vector(v.heard[l]))
      BY <1>2, <1>5, <3>1, BetterMine
    <3>3. QED BY <1>4, <2>4, <3>2
  <2>5. QED BY <2>2, <2>3, <2>4
<1>8. QED BY <1>6, <1>7

LEMMA RootSame ==
  ASSUME NEW S, Near(S), NEW s \in Switches, NEW l \in Ports(s), l \in S[s].live
  PROVE  S[s].root = S[Other(l, s)].root
<1> DEFINE t == Other(l, s)
<1>1. t \in Switches /\ l \in Ports(t) /\ Other(l, t) = s /\ l \in S[t].live
  BY AdjacentIs DEF Adjacent
<1>2. S[s].root <= S[t].root /\ S[t].root <= S[s].root
  BY <1>1, RootNoWorse
<1>3. S[s].root \in Nat /\ S[t].root \in Nat
  BY <1>1, Numbers DEF Near, Quiet
<1>4. QED BY <1>2, <1>3


LEMMA ForwardingIs ==
  ASSUME NEW S, Near(S), NEW s \in Switches, NEW l \in Ports(s)
  PROVE  Forwarding(S[s], l) <=> S[s].role[l] = "root" \/ S[s].role[l] = "designated"
<1>1. S[s].on
  BY DEF Near, Quiet, Sane
<1>2. l # StationPort
  BY StpAssumption DEF Ports, StationPort
<1> DEFINE c == S[s].role[l]
<1>3. Forwarding(S[s], l) <=> c \in {"root", "designated"}
  BY <1>1, <1>2 DEF Forwarding
<1> HIDE DEF c
<1>4. QED BY <1>3 DEF c

\* Both ends of the cable to the parent forward.
LEMMA PortForwards ==
  ASSUME NEW S, Near(S), NEW s \in Switches, NEW l \in Ports(s), l \in S[s].live, l = S[s].port
  PROVE  Forwarding(S[s], l) /\ Forwarding(S[Other(l, s)], l)
<1> DEFINE t == Other(l, s)
           w == S[s]
           v == S[t]
<1>1. Adjacent(S, s, t, l)
  BY AdjacentIs
<1>2. t \in Switches /\ l \in Ports(t) /\ Other(l, t) = s /\ l \in v.live
  BY <1>1 DEF Adjacent
<1>3. Adjacent(S, t, s, l)
  BY <1>2, AdjacentIs
<1>4. Climbs(S, s) /\ Parent(S, s) = t
  <2>1. w.port # None
    BY StpAssumption DEF Ports
  <2>2. QED BY <2>1, RootOrClimbs DEF Near, IsRoot, Parent
<1>5. w.age = v.age + 1 /\ w.cost = v.cost + PortCost /\ w.root = v.root
  BY <1>4 DEF Climbs
<1>6. w.age \in Nat /\ v.age \in Nat /\ w.cost \in Nat /\ v.cost \in Nat /\ SwInv(S)
  BY <1>2, Numbers DEF Near, Quiet
<1>7. w.role[l] = "root"
  BY <1>1 DEF Adjacent
<1>8. l # v.port
  <2> SUFFICES ASSUME l = v.port PROVE FALSE
    OBVIOUS
  <2>1. v.port # None
    BY StpAssumption DEF Ports
  <2>2. Climbs(S, t) /\ Parent(S, t) = s
    BY <1>2, <2>1, RootOrClimbs DEF Near, IsRoot, Parent
  <2>3. v.age = w.age + 1
    BY <2>2 DEF Climbs
  <2>4. QED BY <1>5, <1>6, <2>3
<1>9. v.heard[l] = None \/ Better(MyVector(t, v, l), Vector(v.heard[l]))
  <2> SUFFICES ASSUME v.heard[l] # None PROVE Better(MyVector(t, v, l), Vector(v.heard[l]))
    OBVIOUS
  <2>1. Vector(v.heard[l]) = <<w.root, w.cost, Me(s, w), l>>
    BY <1>3 DEF Adjacent
  <2>2. v.root = w.root /\ v.cost < w.cost
    BY <1>5, <1>6, StpAssumption
  <2>3. QED BY <1>2, <1>6, <2>1, <2>2, BetterMine
<1>10. v.role[l] = "designated"
  BY <1>3, <1>8, <1>9 DEF Adjacent
<1>11. QED BY <1>2, <1>7, <1>10, ForwardingIs

LEMMA ForwardsIs ==
  ASSUME NEW S, Near(S), NEW s \in Switches, NEW l \in Ports(s), l \in S[s].live
  PROVE  Forwarding(S[s], l) /\ Forwarding(S[Other(l, s)], l) <=> l = S[s].port \/ l = S[Other(l, s)].port
<1> DEFINE t == Other(l, s)
           w == S[s]
           v == S[t]
<1>1. Adjacent(S, s, t, l)
  BY AdjacentIs
<1>2. t \in Switches /\ l \in Ports(t) /\ Other(l, t) = s /\ l \in v.live
  BY <1>1 DEF Adjacent
<1>3. Adjacent(S, t, s, l)
  BY <1>2, AdjacentIs
<1>4. l = w.port => Forwarding(w, l) /\ Forwarding(v, l)
  BY PortForwards
<1>5. l = v.port => Forwarding(w, l) /\ Forwarding(v, l)
  BY <1>2, PortForwards
<1>6. ASSUME Forwarding(w, l), Forwarding(v, l), l # w.port, l # v.port PROVE FALSE
  <2>1. w.role[l] = "designated" /\ v.role[l] = "designated"
    BY <1>1, <1>2, <1>3, <1>6, ForwardingIs DEF Adjacent
  <2>2. w.heard[l] # None /\ v.heard[l] # None
    BY <1>1, <1>3, <2>1 DEF Adjacent
  <2>3. /\ Better(MyVector(s, w, l), Vector(w.heard[l])) /\ Better(MyVector(t, v, l), Vector(v.heard[l]))
        /\ Vector(w.heard[l]) = <<v.root, v.cost, Me(t, v), l>>
        /\ Vector(v.heard[l]) = <<w.root, w.cost, Me(s, w), l>>
    BY <1>1, <1>3, <2>1, <2>2 DEF Adjacent
  <2> DEFINE a == w.root
             b == w.cost
             c == Me(s, w)
             x == v.root
             y == v.cost
             z == Me(t, v)
  <2>4. /\ a \in Nat /\ b \in Nat /\ c \in Nat /\ x \in Nat /\ y \in Nat /\ z \in Nat /\ SwInv(S)
    BY <1>2, Numbers DEF Near, Quiet
  <2>5. l \in Nat
    BY StpAssumption DEF Ports
  <2>6. a < x \/ (a = x /\ b < y) \/ (a = x /\ b = y /\ c < z) \/ (a = x /\ b = y /\ c = z /\ l < l)
    BY <1>2, <2>3, <2>4, BetterMine
  <2>7. x < a \/ (x = a /\ y < b) \/ (x = a /\ y = b /\ z < c) \/ (x = a /\ y = b /\ z = c /\ l < l)
    BY <1>2, <2>3, <2>4, BetterMine
  <2> HIDE DEF a, b, c, x, y, z
  <2>8. QED BY <2>4, <2>5, <2>6, <2>7
<1>7. QED BY <1>4, <1>5, <1>6

PluggedOf(S) == {l \in Links : l \in S[End1[l]].live}
ActiveOf(S)  == {l \in PluggedOf(S) : Forwarding(S[End1[l]], l) /\ Forwarding(S[End2[l]], l)}

\* The cable l leads from s to its parent.
LeadsUp(S, l, s) == s \in Switches /\ l \in Ports(s) /\ l = S[s].port /\ l \in S[s].live

\* The cables that forward are those to the parents.
LEMMA ActiveIs ==
  ASSUME NEW S, Near(S), NEW l \in Links
  PROVE  l \in ActiveOf(S) <=> \E s \in {End1[l], End2[l]} : LeadsUp(S, l, s)
<1> DEFINE s == End1[l]
           t == End2[l]
<1>1. /\ s \in Switches /\ t \in Switches /\ s # t /\ l \in Ports(s) /\ l \in Ports(t)
      /\ Other(l, s) = t /\ Other(l, t) = s
  BY StpAssumption DEF Ports, Other
<1>2. l \in S[s].live <=> l \in S[t].live
  BY DEF Near, Quiet, Sane
<1>3. l \in ActiveOf(S) <=> l \in S[s].live /\ Forwarding(S[s], l) /\ Forwarding(S[t], l)
  BY DEF ActiveOf, PluggedOf
<1> HIDE DEF s, t
<1>4. l \in S[s].live => (Forwarding(S[s], l) /\ Forwarding(S[t], l) <=> l = S[s].port \/ l = S[t].port)
  BY <1>1, ForwardsIs
<1>5. l \in ActiveOf(S) <=> LeadsUp(S, l, s) \/ LeadsUp(S, l, t)
  BY <1>1, <1>2, <1>3, <1>4 DEF LeadsUp
<1>6. QED BY <1>5 DEF s, t

-------------------------------------------------------------------------------
(* The tree *)

Closed(E, X) == X \in SUBSET Switches /\ \A l \in E : End1[l] \in X <=> End2[l] \in X

LEMMA JoinedIs ==
  ASSUME NEW E, NEW s, NEW t
  PROVE  /\ Joined(E, s, t) <=> \A X : Closed(E, X) => (s \in X <=> t \in X)
         /\ Joined(E, s, t) <=> Joined(E, t, s)
         /\ \A u : Joined(E, s, t) /\ Joined(E, t, u) => Joined(E, s, u)
<1>1. \A a, b : Joined(E, a, b) <=> \A X : Closed(E, X) => (a \in X <=> b \in X)
  BY DEF Joined, Closed
<1>2. QED BY <1>1

\* A set of switches of which each that is in it is in it with its parent, or the other way about.
LEMMA UpClosed ==
  ASSUME NEW S, Near(S), NEW E \in SUBSET ActiveOf(S), NEW X \in SUBSET Switches,
         \A s \in Switches : LeadsUp(S, S[s].port, s) /\ S[s].port \in E => (s \in X <=> Parent(S, s) \in X)
  PROVE  Closed(E, X)
<1>1. ASSUME NEW l \in E PROVE End1[l] \in X <=> End2[l] \in X
  <2>1. l \in Links /\ l \in ActiveOf(S)
    BY DEF ActiveOf, PluggedOf
  <2>2. PICK s \in {End1[l], End2[l]} : LeadsUp(S, l, s)
    BY <2>1, ActiveIs
  <2>3. s \in Switches /\ l \in Ports(s) /\ l = S[s].port
    BY <2>2 DEF LeadsUp
  <2>4. s \in X <=> Other(l, s) \in X
    BY <2>2, <2>3 DEF Parent
  <2>5. {End1[l], End2[l]} = {s, Other(l, s)}
    BY <2>3, OtherEnd
  <2>6. QED BY <2>4, <2>5
<1>2. QED BY <1>1 DEF Closed

\* All that are connected have the same root, which is no worse than any of them.
LEMMA RootsAgree ==
  ASSUME NEW S, Near(S), NEW s \in Switches, NEW x \in Switches, Joined(PluggedOf(S), s, x)
  PROVE  S[s].root = S[x].root /\ S[s].root <= Me(x, S[x])
<1> DEFINE X == {u \in Switches : S[u].root = S[s].root}
<1>1. ASSUME NEW l \in PluggedOf(S) PROVE End1[l] \in X <=> End2[l] \in X
  <2> DEFINE a == End1[l]
             b == End2[l]
  <2>1. l \in Links /\ l \in S[a].live
    BY DEF PluggedOf
  <2>2. a \in Switches /\ b \in Switches /\ l \in Ports(a) /\ Other(l, a) = b
    BY <2>1, StpAssumption DEF Ports, Other
  <2> HIDE DEF a, b
  <2>3. S[a].root = S[b].root
    BY <2>1, <2>2, RootSame
  <2>4. a \in X <=> b \in X
    BY <2>2, <2>3
  <2>5. QED BY <2>4 DEF a, b
<1>2. Closed(PluggedOf(S), X)
  BY <1>1 DEF Closed
<1>3. x \in X
  BY <1>2, JoinedIs
<1>4. S[s].root = S[x].root
  BY <1>3
<1>5. S[x].root <= Me(x, S[x])
  <2>1. IsRoot(S, x) \/ Climbs(S, x)
    BY RootOrClimbs DEF Near
  <2>2. S[x].root \in Nat /\ Me(x, S[x]) \in Nat
    BY Numbers DEF Near, Quiet
  <2>3. QED BY <2>1, <2>2 DEF IsRoot, Climbs
<1>6. QED BY <1>4, <1>5

\* No two switches have the same bridge ID.
LEMMA MeOnce ==
  ASSUME NEW S, SwInv(S), NEW s \in Switches, NEW t \in Switches, Me(s, S[s]) = Me(t, S[t])
  PROVE  s = t
<1> DEFINE n == MaxMac + 1
           p == S[s].prio
           q == S[t].prio
<1>1. p \in Nat /\ q \in Nat /\ n \in Nat /\ s \in Nat /\ t \in Nat /\ s > 0 /\ s < n /\ t > 0 /\ t < n
  BY StpAssumption DEF SwInv, SwitchType
<1>2. p * n + s = q * n + t
  BY DEF Me, Id
<1> HIDE DEF n, p, q
<1>3. ASSUME NEW a \in Nat, NEW b \in Nat, a < b, NEW i \in Nat, NEW j \in Nat, i < n, j < n
      PROVE  a * n + i # b * n + j
  <2> DEFINE d == b - (a + 1)
  <2>1. d \in Nat /\ b = (a + 1) + d
    BY <1>3
  <2> HIDE DEF d
  <2>2. b * n = a * n + n + d * n
    <3>1. b * n = ((a + 1) + d) * n
      BY <2>1
    <3>2. ((a + 1) + d) * n = (a + 1) * n + d * n
      BY <1>1, <2>1
    <3>3. (a + 1) * n = a * n + n
      BY <1>1
    <3>4. QED BY <3>1, <3>2, <3>3
  <2>3. a * n \in Nat /\ d * n \in Nat /\ b * n \in Nat
    BY <1>1, <2>1
  <2> DEFINE an == a * n
             bn == b * n
             dn == d * n
  <2>4. bn = an + n + dn /\ an \in Nat /\ dn \in Nat /\ bn \in Nat
    BY <2>2, <2>3
  <2> HIDE DEF an, bn, dn
  <2>5. an + i # bn + j
    BY <1>1, <1>3, <2>4
  <2>6. QED BY <2>5 DEF an, bn
<1>4. ~ (p < q) /\ ~ (q < p)
  BY <1>1, <1>2, <1>3
<1>5. p = q
  BY <1>1, <1>4
<1>6. p * n \in Nat
  BY <1>1
<1>7. QED BY <1>1, <1>2, <1>5, <1>6

\* The cables to the parents.
UpLinks(S, E) == E \in SUBSET Links /\ \A s \in Switches : Climbs(S, s) => S[s].port \in E

LEMMA UpJoined ==
  ASSUME NEW S, NEW E, UpLinks(S, E), NEW s \in Switches, Climbs(S, s)
  PROVE  Joined(E, s, Parent(S, s))
<1> DEFINE l == S[s].port
           t == Parent(S, s)
<1>1. l \in E /\ l \in Ports(s)
  BY DEF UpLinks, Climbs
<1>2. {End1[l], End2[l]} = {s, t}
  BY <1>1, OtherEnd DEF Parent
<1> HIDE DEF l, t
<1>3. ASSUME NEW X, Closed(E, X) PROVE s \in X <=> t \in X
  <2>1. End1[l] \in X <=> End2[l] \in X
    BY <1>1, <1>3 DEF Closed
  <2>2. QED BY <1>2, <2>1
<1>4. Joined(E, s, t)
  BY <1>3, JoinedIs
<1>5. QED BY <1>4 DEF t

\* Whoever climbs arrives at a root.
LEMMA ToTheTop ==
  ASSUME NEW S, Near(S), NEW E, UpLinks(S, E), NEW s \in Switches
  PROVE  \E u \in Switches : Joined(E, s, u) /\ IsRoot(S, u)
<1> DEFINE A == {u \in Switches : Joined(E, s, u)}
           f == [u \in Switches |-> S[u].age]
<1>1. Joined(E, s, s)
  BY JoinedIs
<1>2. A # {} /\ A \subseteq Switches
  BY <1>1
<1>3. \A u \in Switches : f[u] = S[u].age /\ f[u] \in Nat
  BY Numbers DEF Near, Quiet
<1>4. \A u \in A : f[u] \in Nat
  BY <1>2, <1>3
<1> HIDE DEF f
<1>5. PICK u \in A : \A y \in A : f[u] <= f[y]
  <2> HIDE DEF A
  <2>1. QED BY <1>2, <1>4, SmallestOf
<1>6. u \in Switches /\ Joined(E, s, u)
  OBVIOUS
<1>7. IsRoot(S, u)
  <2> SUFFICES ASSUME ~ IsRoot(S, u) PROVE FALSE
    OBVIOUS
  <2> DEFINE t == Parent(S, u)
  <2>1. Climbs(S, u)
    BY <1>6, RootOrClimbs DEF Near
  <2>2. t \in Switches /\ S[u].age = S[t].age + 1
    BY <2>1 DEF Climbs
  <2>3. Joined(E, u, t)
    BY <1>6, <2>1, UpJoined
  <2> HIDE DEF t
  <2>4. Joined(E, s, t)
    BY <1>6, <2>3, JoinedIs
  <2>5. t \in A
    BY <2>2, <2>4
  <2>6. f[u] <= f[t]
    BY <1>5, <2>5
  <2>7. QED BY <1>3, <1>6, <2>2, <2>6
<1>8. QED BY <1>6, <1>7

LEMMA UpIsPlugged ==
  ASSUME NEW S, Near(S)
  PROVE  UpLinks(S, PluggedOf(S)) /\ UpLinks(S, ActiveOf(S)) /\ ActiveOf(S) \subseteq PluggedOf(S)
<1>1. ActiveOf(S) \subseteq PluggedOf(S) /\ PluggedOf(S) \subseteq Links
  BY DEF ActiveOf, PluggedOf
<1>2. ASSUME NEW s \in Switches, Climbs(S, s) PROVE S[s].port \in ActiveOf(S)
  <2> DEFINE l == S[s].port
  <2>1. l \in Ports(s) /\ l \in S[s].live
    BY <1>2 DEF Climbs
  <2>2. l \in Links /\ s \in {End1[l], End2[l]}
    BY <2>1 DEF Ports
  <2>3. LeadsUp(S, l, s)
    BY <2>1 DEF LeadsUp
  <2> HIDE DEF l
  <2>4. l \in ActiveOf(S)
    BY <2>2, <2>3, ActiveIs
  <2>5. QED BY <2>4 DEF l
<1>3. QED BY <1>1, <1>2 DEF UpLinks

\* What is connected by some cables is connected by more of them.
LEMMA MoreJoins ==
  ASSUME NEW E, NEW F, E \subseteq F, NEW s, NEW t, Joined(E, s, t)
  PROVE  Joined(F, s, t)
BY DEF Joined

\* The roots: all that are connected to s follow the same switch, itself one of them, and
\* reach it over the cables that forward.
LEMMA OneTop ==
  ASSUME NEW S, Near(S), NEW s \in Switches
  PROVE  \E u \in Switches :
            /\ S[s].root = Me(u, S[u]) /\ Joined(ActiveOf(S), s, u) /\ Joined(PluggedOf(S), s, u)
            /\ \A x \in Switches : Joined(PluggedOf(S), s, x) => Joined(ActiveOf(S), x, u)
<1> DEFINE E == ActiveOf(S)
           F == PluggedOf(S)
<1>1. UpLinks(S, E) /\ E \subseteq F
  BY UpIsPlugged
<1> HIDE DEF E, F
<1>2. ASSUME NEW x \in Switches
      PROVE  \E u \in Switches : Joined(E, x, u) /\ Joined(F, x, u) /\ IsRoot(S, u)
  BY <1>1, ToTheTop, MoreJoins
<1>3. PICK u \in Switches : Joined(E, s, u) /\ Joined(F, s, u) /\ IsRoot(S, u)
  BY <1>2
<1>4. S[s].root = Me(u, S[u])
  <2>1. S[s].root = S[u].root
    BY <1>3, RootsAgree DEF F
  <2>2. QED BY <1>3, <2>1 DEF IsRoot
<1>5. ASSUME NEW x \in Switches, Joined(F, s, x) PROVE Joined(E, x, u)
  <2>1. PICK v \in Switches : Joined(E, x, v) /\ Joined(F, x, v) /\ IsRoot(S, v)
    BY <1>2
  <2>2. Joined(F, s, v)
    BY <1>5, <2>1, JoinedIs
  <2>3. S[s].root = S[v].root
    BY <2>2, RootsAgree DEF F
  <2>4. Me(v, S[v]) = Me(u, S[u])
    BY <1>4, <2>1, <2>3 DEF IsRoot
  <2>5. v = u
    BY <2>4, MeOnce DEF Near, Quiet
  <2>6. QED BY <2>1, <2>5
<1>6. QED BY <1>3, <1>4, <1>5 DEF E, F

\* X holds s and with a switch all those that follow it.
Down(S, s, X) ==
  X \in SUBSET Switches /\ s \in X /\ \A c \in Switches : Climbs(S, c) /\ Parent(S, c) \in X => c \in X

Below(S, s) == {u \in Switches : \A X : Down(S, s, X) => u \in X}

LEMMA BelowIs ==
  ASSUME NEW S, Near(S), NEW s \in Switches
  PROVE  /\ Down(S, s, Below(S, s))
         /\ \A u \in Below(S, s) : S[u].age >= S[s].age
         /\ \A u \in Below(S, s) \ {s} : Climbs(S, u) => Parent(S, u) \in Below(S, s)
<1> DEFINE D == Below(S, s)
<1>1. Down(S, s, D)
  BY DEF Down, Below
<1>2. \A u \in D : S[u].age >= S[s].age
  <2> DEFINE X == {u \in Switches : S[u].age >= S[s].age}
  <2>1. \A u \in Switches : S[u].age \in Nat
    BY Numbers DEF Near, Quiet
  <2>2. s \in X
    BY <2>1
  <2>3. ASSUME NEW c \in Switches, Climbs(S, c), Parent(S, c) \in X PROVE c \in X
    <3>1. Parent(S, c) \in Switches /\ S[c].age = S[Parent(S, c)].age + 1
      BY <2>3 DEF Climbs
    <3> DEFINE t == Parent(S, c)
    <3>2. t \in Switches /\ S[t].age >= S[s].age /\ S[c].age = S[t].age + 1
      BY <2>3, <3>1
    <3> HIDE DEF t
    <3>3. QED BY <2>1, <3>2
  <2>4. Down(S, s, X)
    BY <2>2, <2>3 DEF Down
  <2>5. D \subseteq X
    BY <2>4 DEF Below
  <2>6. QED BY <2>5
<1>3. ASSUME NEW u \in D, u # s, Climbs(S, u), Parent(S, u) \notin D PROVE FALSE
  <2> DEFINE X == D \ {u}
  <2>1. Down(S, s, X)
    BY <1>1, <1>3 DEF Down
  <2>2. u \in X
    BY <2>1 DEF Below
  <2>3. QED BY <2>2
<1> HIDE DEF D
<1>4. QED BY <1>1, <1>2, <1>3 DEF D

\* Without its cable to the parent a switch is cut off from it.
LEMMA NoSecondWay ==
  ASSUME NEW S, Near(S), NEW l \in ActiveOf(S)
  PROVE  ~ Joined(ActiveOf(S) \ {l}, End1[l], End2[l])
<1> DEFINE E == ActiveOf(S) \ {l}
<1>1. l \in Links
  BY DEF ActiveOf, PluggedOf
<1>2. PICK s \in {End1[l], End2[l]} : LeadsUp(S, l, s)
  BY <1>1, ActiveIs
<1>3. s \in Switches /\ l \in Ports(s) /\ l = S[s].port
  BY <1>2 DEF LeadsUp
<1>4. \A c \in Switches : LeadsUp(S, S[c].port, c) => Climbs(S, c)
  <2> TAKE c \in Switches
  <2>1. S[c].port \in Ports(c) => S[c].port # None
    BY StpAssumption DEF Ports
  <2>2. QED BY <2>1, RootOrClimbs DEF Near, LeadsUp, IsRoot
<1> DEFINE D == Below(S, s)
           t == Parent(S, s)
<1>5. /\ D \in SUBSET Switches /\ s \in D /\ \A c \in Switches : Climbs(S, c) /\ Parent(S, c) \in D => c \in D
      /\ \A u \in D : S[u].age >= S[s].age
      /\ \A u \in D \ {s} : Climbs(S, u) => Parent(S, u) \in D
  BY <1>3, BelowIs DEF Down
<1> HIDE DEF D
<1>6. t \notin D
  <2>1. Climbs(S, s)
    BY <1>2, <1>3, <1>4
  <2>2. t \in Switches /\ S[s].age = S[t].age + 1
    BY <2>1 DEF Climbs
  <2> HIDE DEF t
  <2>3. S[t].age \in Nat
    BY <2>2, Numbers DEF Near, Quiet
  <2>4. QED BY <1>5, <2>2, <2>3
<1>7. \A c \in Switches : LeadsUp(S, S[c].port, c) /\ S[c].port \in E => (c \in D <=> Parent(S, c) \in D)
  <2> SUFFICES ASSUME NEW c \in Switches, LeadsUp(S, S[c].port, c), S[c].port \in E
               PROVE  c \in D <=> Parent(S, c) \in D
    OBVIOUS
  <2>1. Climbs(S, c)
    BY <1>4
  <2>2. c # s
    BY <1>3
  <2>3. QED BY <1>5, <2>1, <2>2
<1>8. E \in SUBSET ActiveOf(S)
  OBVIOUS
<1> HIDE DEF E
<1>9. Closed(E, D)
  <2> HIDE DEF t
  <2>1. D \in SUBSET Switches
    BY <1>5
  <2>2. QED BY <1>7, <1>8, <2>1, UpClosed
<1>10. {End1[l], End2[l]} = {s, t}
  BY <1>3, OtherEnd DEF Parent
<1>11. ~ (End1[l] \in D <=> End2[l] \in D)
  BY <1>5, <1>6, <1>10
<1>12. ~ Joined(E, End1[l], End2[l])
  BY <1>9, <1>11, JoinedIs
<1>13. QED BY <1>12 DEF E

\* In a quiet state in which all are young the switches form one tree.
LEMMA TreeIs ==
  ASSUME Near(sw)
  PROVE  OneTree
<1>1. Plugged = PluggedOf(sw) /\ Active = ActiveOf(sw)
  BY DEF Plugged, PluggedOf, Active, ActiveOf
<1>2. ASSUME NEW s \in Switches
      PROVE  /\ \E u \in Switches : Joined(Plugged, s, u) /\ sw[s].root = Me(u, sw[u])
             /\ \A u \in Switches : Joined(Plugged, s, u) => sw[s].root <= Me(u, sw[u])
  BY <1>1, OneTop, RootsAgree
<1>3. OneRoot
  BY <1>2 DEF OneRoot
<1>4. ASSUME NEW s \in Switches, NEW t \in Switches, Joined(Plugged, s, t) PROVE Joined(Active, s, t)
  <2>1. PICK u \in Switches :
             /\ sw[s].root = Me(u, sw[u]) /\ Joined(ActiveOf(sw), s, u) /\ Joined(PluggedOf(sw), s, u)
             /\ \A x \in Switches : Joined(PluggedOf(sw), s, x) => Joined(ActiveOf(sw), x, u)
    BY OneTop
  <2>2. Joined(Active, s, u) /\ Joined(Active, t, u)
    BY <1>1, <1>4, <2>1
  <2>3. QED BY <2>2, JoinedIs
<1>5. ASSUME NEW l \in Active PROVE ~ Joined(Active \ {l}, End1[l], End2[l])
  BY <1>1, NoSecondWay
<1>6. SpanningTree
  BY <1>4, <1>5 DEF SpanningTree
<1>7. QED BY <1>3, <1>6 DEF OneTree

\* TreeIsOne: as long as no more than STP_MAX_AGE + 1 switches are joined, whatever the cables,
\* the priorities and what the user does to both, the switches agree on the best of those
\* connected as root once things have settled, and the cables that forward join all that is
\* connected without a loop (stp.ts:140-259).  With more switches what is told can grow too old
\* on its way, and this is false.
THEOREM TreeIsOne == Cardinality(Switches) <= MaxAge + 1 => (Spec => []OneTree)
<1> SUFFICES ASSUME Cardinality(Switches) <= MaxAge + 1 PROVE Spec => []OneTree
  OBVIOUS
<1>1. TInv /\ TreeInv => OneTree
  <2>1. CASE Settled /\ ~ stopped
    <3> SUFFICES ASSUME TInv, TreeInv PROVE OneTree
      OBVIOUS
    <3>1. Quiet(sw)
      BY <2>1, QuietIs
    <3>2. Near(sw)
      BY <3>1, AgesFit DEF Near
    <3>3. QED BY <3>2, TreeIs
  <2>2. CASE ~ (Settled /\ ~ stopped)
    BY <2>2 DEF OneTree, OneRoot, SpanningTree, NeverStopped
  <2>3. QED BY <2>1, <2>2
<1>2. Spec => []TInv
  BY TypesHold
<1>3. Spec => []TreeInv
  BY TreeHolds
<1>4. QED BY <1>1, <1>2, <1>3, PTL

-------------------------------------------------------------------------------
(* What a switch does with what it has learnt *)

\* A port through which data passes.
Open(w, l) == w.role[l] \in {"root", "designated"}

\* From state v to state w: what has been learnt is forgotten and that is told, or it is
\* kept, and no port in use changes its role for the worse.
Keeps(v, w) ==
  /\ w.mac \in {v.mac, None} /\ w.seen = v.seen
  /\ w.mac = None => v.mac = None \/ w.tcOut # None
  /\ \/ w.mac = None /\ w.tcOut # None
     \/ \A l \in Links : /\ v.role[l] = "designated" => w.role[l] = "designated"
                         /\ Open(v, l) => Open(w, l)

\* A topology change that s announces itself on the way from v to w.
Fresh(s, v, w, id) == id[1] = s /\ v.tcSeq < id[2] /\ id[2] <= w.tcSeq

\* Whoever has something to tell is going to speak.
Marked(w) == w.tcOut # None => w.pending

\* The topology changes s takes note of are its own or among those it hears, N.
Announces(s, v, w, N) ==
  /\ v.tcSeq <= w.tcSeq
  /\ \A id \in w.tcSeen \ v.tcSeen : w.mac = None /\ (id \in N \/ Fresh(s, v, w, id))
  /\ w.tcOut \in {v.tcOut, None} \cup N \/ Fresh(s, v, w, w.tcOut)
  /\ Marked(v) => Marked(w)

Tells(s, v, w, N) == Keeps(v, w) /\ Announces(s, v, w, N) /\ (v.tcOut # None => w.tcOut # None)

LEMMA TellsSame ==
  ASSUME NEW s, NEW v \in SwitchType, NEW N
  PROVE  Tells(s, v, v, N)
BY DEF Tells, Keeps, Announces, SwitchType

LEMMA TellsOn ==
  ASSUME NEW s, NEW v \in SwitchType, NEW x \in SwitchType, NEW w \in SwitchType, NEW N,
         Tells(s, v, x, N), Tells(s, x, w, N)
  PROVE  Tells(s, v, w, N)
<1>0. v.tcSeq \in Nat /\ x.tcSeq \in Nat /\ w.tcSeq \in Nat
  BY DEF SwitchType
<1>1. Keeps(v, x) /\ Keeps(x, w) /\ Announces(s, v, x, N) /\ Announces(s, x, w, N)
      /\ (v.tcOut # None => x.tcOut # None) /\ (x.tcOut # None => w.tcOut # None)
  BY DEF Tells
<1>2. Keeps(v, w)
  BY <1>1 DEF Keeps
<1>3. \A id : Fresh(s, v, x, id) /\ id[2] \in Nat => Fresh(s, v, w, id)
  BY <1>0, <1>1 DEF Fresh, Announces
<1>4. \A id : Fresh(s, x, w, id) /\ id[2] \in Nat => Fresh(s, v, w, id)
  BY <1>0, <1>1 DEF Fresh, Announces
<1>5. ASSUME NEW id \in w.tcSeen \ v.tcSeen
      PROVE  w.mac = None /\ (id \in N \/ Fresh(s, v, w, id))
  <2>1. id[2] \in Nat
    BY DEF SwitchType
  <2>2. CASE id \in x.tcSeen
    BY <1>1, <1>3, <2>1, <2>2 DEF Announces, Keeps
  <2>3. CASE id \notin x.tcSeen
    BY <1>1, <1>4, <2>1, <2>3 DEF Announces
  <2>4. QED BY <2>2, <2>3
<1>6. w.tcOut \in {v.tcOut, None} \cup N \/ Fresh(s, v, w, w.tcOut)
  <2>1. w.tcOut = None \/ w.tcOut[2] \in Nat
    BY DEF SwitchType
  <2>2. w.tcOut \in {x.tcOut, None} \cup N \/ Fresh(s, x, w, w.tcOut)
    BY <1>1 DEF Announces
  <2>3. x.tcOut \in {v.tcOut, None} \cup N \/ Fresh(s, v, x, x.tcOut)
    BY <1>1 DEF Announces
  <2>4. QED BY <1>3, <1>4, <2>1, <2>2, <2>3
<1>7. QED BY <1>0, <1>1, <1>2, <1>5, <1>6 DEF Tells, Announces

\* The tree of s is computed anew: a port whose role changes for the worse tells it.
LEMMA NotMoved ==
  ASSUME NEW v \in SwitchType, NEW w \in SwitchType, ~ MovedTree(v, w), NEW l \in Links, Open(v, l)
  PROVE  w.role[l] = v.role[l]
BY DEF MovedTree, LostPort, NewRoles, Open

\* What an election leaves of what was learnt and told.
Elects(s, v, w) ==
  \/ /\ ~ MovedTree(v, w) /\ w.mac = v.mac /\ w.tcSeq = v.tcSeq /\ w.tcSeen = v.tcSeen /\ w.tcOut = v.tcOut
     /\ v.pending => w.pending
  \/ /\ w.mac = None /\ w.tcSeq = v.tcSeq + 1 /\ w.tcOut = <<s, v.tcSeq + 1>>
     /\ w.tcSeen = v.tcSeen \cup {<<s, v.tcSeq + 1>>} /\ w.pending

LEMMA RecomputeElects ==
  ASSUME NEW s \in Switches, NEW v \in SwitchType, Young(v), NEW force \in BOOLEAN
  PROVE  Elects(s, v, Recompute(s, v, force).w) /\ Recompute(s, v, force).w.seen = v.seen
<1> DEFINE x == WithRoles(s, WithRoot(s, v))
           y == IF MovedTree(v, x) THEN TopologyChange(s, x) ELSE x
           r == Recompute(s, v, force)
<1>1. x \in SwitchType
  BY WithRootDoes, WithRolesDoes
<1>2. x.mac = v.mac /\ x.tcSeq = v.tcSeq /\ x.tcSeen = v.tcSeen /\ x.tcOut = v.tcOut /\ x.pending = v.pending
      /\ x.seen = v.seen
  <2> DEFINE z == WithRoot(s, v)
  <2>1. z.mac = v.mac /\ z.tcSeq = v.tcSeq /\ z.tcSeen = v.tcSeen /\ z.tcOut = v.tcOut /\ z.pending = v.pending
        /\ z.seen = v.seen /\ z \in SwitchType
    <3>1. z \in SwitchType
      BY WithRootDoes
    <3>2. CASE Offers(s, v) = {}
      BY <3>1, <3>2 DEF WithRoot, SwitchType
    <3>3. CASE Offers(s, v) # {}
      <4>1. z = Following(v, BestOffer(s, v))
        BY <3>3 DEF WithRoot
      <4> HIDE DEF z
      <4>2. z.mac = v.mac /\ z.tcSeq = v.tcSeq /\ z.tcSeen = v.tcSeen /\ z.tcOut = v.tcOut
            /\ z.pending = v.pending /\ z.seen = v.seen
        BY <4>1 DEF Following, SwitchType
      <4>3. QED BY <3>1, <4>2
    <3>4. QED BY <3>2, <3>3
  <2>2. x = [z EXCEPT !.role = [l \in Links |-> RoleOf(s, z, l)]]
    BY DEF WithRoles
  <2> HIDE DEF z, x
  <2>3. QED BY <2>1, <2>2 DEF SwitchType
<1>3. r.changed = Changed(v, x) /\ r.w = IF Changed(v, x) \/ force THEN Schedule(y) ELSE y
  BY DEF Recompute, Recomputed, Told
<1> HIDE DEF x, r
<1>4. y.seen = x.seen /\ y.role = x.role
      /\ \/ ~ MovedTree(v, x) /\ y = x
         \/ /\ MovedTree(v, x) /\ y.mac = None /\ y.tcSeq = x.tcSeq + 1 /\ y.tcOut = <<s, x.tcSeq + 1>>
            /\ y.tcSeen = x.tcSeen \cup {<<s, x.tcSeq + 1>>} /\ y.pending = x.pending
  <2>1. CASE MovedTree(v, x)
    <3>1. y = [x EXCEPT !.mac = None, !.tcSeq = x.tcSeq + 1, !.tcSeen = x.tcSeen \cup {<<s, x.tcSeq + 1>>},
                        !.tcOut = <<s, x.tcSeq + 1>>]
      BY <1>1, <2>1 DEF TopologyChange, Flushed, SwitchType
    <3> HIDE DEF y
    <3>2. QED BY <1>1, <2>1, <3>1 DEF SwitchType
  <2>2. CASE ~ MovedTree(v, x)
    BY <1>1, <2>2
  <2>3. QED BY <2>1, <2>2
<1>5. y = [y EXCEPT !.pending = y.pending] /\ DOMAIN y = DOMAIN x
  BY <1>1 DEF TopologyChange, Flushed, SwitchType
<1> HIDE DEF y
<1>6. r.w.seen = y.seen /\ r.w.role = y.role /\ r.w.mac = y.mac /\ r.w.tcSeq = y.tcSeq /\ r.w.tcSeen = y.tcSeen
      /\ r.w.tcOut = y.tcOut /\ (Changed(v, x) => r.w.pending) /\ (y.pending => r.w.pending)
  <2>1. CASE Changed(v, x) \/ force
    <3>1. r.w = [y EXCEPT !.pending = TRUE]
      BY <1>3, <2>1 DEF Schedule
    <3>3. "pending" \in DOMAIN y
      BY <1>1, <1>5 DEF SwitchType
    <3>4. QED BY <3>1, <3>3
  <2>2. CASE ~ (Changed(v, x) \/ force)
    BY <1>3, <2>2
  <2>3. QED BY <2>1, <2>2
<1>7. MovedTree(v, x) => Changed(v, x)
  BY DEF MovedTree, Changed
<1>8. MovedTree(v, r.w) <=> MovedTree(v, x)
  BY <1>4, <1>6 DEF MovedTree, LostPort, NewRoles
<1>9. Elects(s, v, r.w) /\ r.w.seen = v.seen
  BY <1>2, <1>4, <1>6, <1>7, <1>8 DEF Elects
<1>10. QED BY <1>9 DEF r

LEMMA ElectsTells ==
  ASSUME NEW s \in Switches, NEW v \in SwitchType, NEW w \in SwitchType, Elects(s, v, w), w.seen = v.seen, NEW N
  PROVE  Tells(s, v, w, N)
<1>0. v.tcSeq \in Nat /\ w.tcSeq \in Nat
  BY DEF SwitchType
<1>1. CASE /\ ~ MovedTree(v, w) /\ w.mac = v.mac /\ w.tcSeq = v.tcSeq /\ w.tcSeen = v.tcSeen /\ w.tcOut = v.tcOut
           /\ v.pending => w.pending
  <2>1. \A l \in Links : Open(v, l) => w.role[l] = v.role[l]
    BY <1>1, NotMoved
  <2>2. Keeps(v, w)
    BY <1>1, <2>1 DEF Keeps, Open
  <2>3. QED BY <1>0, <1>1, <2>2 DEF Tells, Announces, Marked
<1>2. CASE /\ w.mac = None /\ w.tcSeq = v.tcSeq + 1 /\ w.tcOut = <<s, v.tcSeq + 1>>
           /\ w.tcSeen = v.tcSeen \cup {<<s, v.tcSeq + 1>>} /\ w.pending
  <2>0. Fresh(s, v, w, <<s, v.tcSeq + 1>>)
    BY <1>0, <1>2 DEF Fresh
  <2>1. w.tcOut # None
    <3>1. <<s, v.tcSeq + 1>> \in Switches \X Nat
      BY <1>0
    <3>2. QED BY <1>2, <3>1, StpAssumption
  <2>2. Keeps(v, w)
    BY <1>2, <2>1 DEF Keeps
  <2>3. QED BY <1>0, <1>2, <2>0, <2>1, <2>2 DEF Tells, Announces, Marked
<1>3. QED BY <1>1, <1>2 DEF Elects

LEMMA HeardTcTells ==
  ASSUME NEW s \in Switches, NEW w \in SwitchType, NEW b \in BpduType
  PROVE  /\ Tells(s, w, HeardTc(w, b), {b.tc})
         /\ b.tc # None /\ b.tc \notin w.tcSeen => HeardTc(w, b).mac = None
<1>1. CASE b.tc = None \/ b.tc \in w.tcSeen
  BY <1>1, TellsSame DEF HeardTc
<1>2. CASE ~ (b.tc = None \/ b.tc \in w.tcSeen)
  <2> DEFINE id == b.tc
             x == HeardTc(w, b)
  <2>1. x = [w EXCEPT !.mac = None, !.tcSeen = w.tcSeen \cup {id}, !.tcOut = id, !.pending = TRUE]
    BY <1>2 DEF HeardTc, Schedule, Flushed, SwitchType
  <2>2. id # None
    BY <1>2
  <2> HIDE DEF x, id
  <2>3. /\ x.mac = None /\ x.tcSeen = w.tcSeen \cup {id} /\ x.tcOut = id /\ x.pending = TRUE
        /\ x.tcSeq = w.tcSeq /\ x.seen = w.seen
    BY <2>1 DEF SwitchType
  <2>4. w.tcSeq \in Nat
    BY DEF SwitchType
  <2>5. Tells(s, w, x, {id})
    BY <2>2, <2>3, <2>4 DEF Tells, Keeps, Announces, Marked
  <2>6. QED BY <2>3, <2>5 DEF x, id
<1>3. QED BY <1>1, <1>2

LEMMA HandleTells ==
  ASSUME NEW s \in Switches, NEW w \in SwitchType, Fit(s, w), NEW l \in Links, NEW b \in BpduType
  PROVE  /\ Tells(s, w, Handle(s, w, l, b).w, {b.tc})
         /\ b.tc # None /\ b.tc \notin w.tcSeen => Handle(s, w, l, b).w.mac = None
<1> DEFINE y == HeardTc(w, b)
           h == IF TooOld(b) THEN None ELSE b
           x == Hears(y, l, h)
           z == Handle(s, w, l, b).w
           q == Recompute(s, x, FALSE)
           N == {b.tc}
<1>1. /\ Tells(s, w, y, N) /\ y \in SwitchType /\ Young(y)
      /\ b.tc # None /\ b.tc \notin w.tcSeen => y.mac = None
  BY HeardTcTells, HeardTcDoes DEF Young, SameSwitch, Same, Fit
<1>2. z \in SwitchType
  BY HandleFits
<1>3. Handle(s, w, l, b) = Believe(s, y, l, b)
  BY DEF Handle
<1> HIDE DEF y, N
<1>4. Tells(s, y, z, N)
  <2>1. CASE Refused(y.heard[l], b)
    <3>1. z = y
      BY <1>3, <2>1 DEF Believe
    <3>2. QED BY <1>1, <3>1, TellsSame
  <2>2. CASE ~ Refused(y.heard[l], b)
    <3>1. h \in Heard /\ (h # None => h.age <= MaxAge)
      BY StpAssumption DEF Heard, TooOld, BpduType
    <3>2. Handle(s, w, l, b) = Replied(s, l, b, q)
      BY <1>3, <2>2 DEF Believe, Hears
    <3>3. z = q.w
      BY <3>2 DEF Replied
    <3> HIDE DEF h
    <3>4. x \in SwitchType /\ Young(x)
      BY <1>1, <3>1, HearsType DEF Young
    <3>5. /\ x.mac = y.mac /\ x.tcSeq = y.tcSeq /\ x.tcSeen = y.tcSeen /\ x.tcOut = y.tcOut
          /\ x.pending = y.pending /\ x.seen = y.seen /\ x.role = y.role
      BY <1>1 DEF Hears, SwitchType
    <3> HIDE DEF x, z
    <3>6. Elects(s, x, z) /\ z.seen = x.seen
      BY <3>3, <3>4, RecomputeElects
    <3>7. Tells(s, x, z, N)
      BY <1>2, <3>4, <3>6, ElectsTells
    <3>8. Tells(s, y, x, N)
      <4>1. y.tcSeq \in Nat
        BY <1>1 DEF SwitchType
      <4>2. QED BY <3>5, <4>1 DEF Tells, Keeps, Announces, Marked, Open
    <3>9. QED BY <1>1, <1>2, <3>4, <3>7, <3>8, TellsOn
  <2>3. QED BY <2>1, <2>2
<1> HIDE DEF z
<1>5. Tells(s, w, z, N)
  BY <1>1, <1>2, <1>4, TellsOn
<1>6. z.mac \in {y.mac, None}
  BY <1>4 DEF Tells, Keeps
<1>7. QED BY <1>1, <1>5, <1>6 DEF z, N

\* A cable is pulled: what was learnt on it is forgotten, and that is told.
LEMMA UnplugTells ==
  ASSUME NEW s \in Switches, NEW v \in SwitchType, Young(v), v.on, v.live \subseteq Ports(s),
         NEW l \in Ports(s), v.mac = l => Open(v, l)
  PROVE  Tells(s, v, Relinked(s, Unplugged(v, l), FALSE), {})
<1> DEFINE u == Unplugged(v, l)
           w == Relinked(s, u, FALSE)
           N == {}
<1>0. l \in Links
  BY OtherEnd
<1>1. u \in SwitchType /\ Young(u) /\ u.live = v.live \ {l} /\ u.on = v.on /\ u.role = v.role /\ u.pending = v.pending
  BY <1>0, UnpluggedType
<1>2. /\ u.mac \in {v.mac, None} /\ (v.mac # l => u.mac = v.mac) /\ u.tcSeq = v.tcSeq /\ u.tcSeen = v.tcSeen
      /\ u.tcOut = v.tcOut /\ u.seen = v.seen
  <2> DEFINE m == IF v.mac = l THEN None ELSE v.mac
             hl == [v.heard EXCEPT ![l] = IF v.on THEN None ELSE @]
             li == v.live \ {l}
  <2>1. u = [v EXCEPT !.live = li, !.mac = m, !.heard = hl]
    BY DEF Unplugged, SwitchType
  <2>2. m \in {v.mac, None} /\ (v.mac # l => m = v.mac)
    OBVIOUS
  <2> HIDE DEF m, hl, li, u
  <2>3. QED BY <2>1, <2>2 DEF SwitchType
<1> HIDE DEF u
<1>3. w = Recompute(s, u, FALSE).w
  BY <1>1 DEF Relinked
<1>4. Elects(s, u, w) /\ w.seen = u.seen
  BY <1>1, <1>3, RecomputeElects
<1>5. w \in SwitchType /\ Tree(s, w) /\ w.live = v.live \ {l}
  BY ZenonT(60), <1>1, <1>3, RecomputeDoes DEF Settles, Same
<1> HIDE DEF w
<1>6. w.role[l] = "disabled"
  BY <1>0, <1>5 DEF Tree, RoleOf
<1>7. CASE MovedTree(u, w)
  <2>1. /\ w.mac = None /\ w.tcSeq = u.tcSeq + 1 /\ w.tcOut = <<s, u.tcSeq + 1>>
        /\ w.tcSeen = u.tcSeen \cup {<<s, u.tcSeq + 1>>} /\ w.pending
    BY <1>4, <1>7 DEF Elects
  <2>2. v.tcSeq \in Nat /\ <<s, v.tcSeq + 1>> \in Switches \X Nat
    BY DEF SwitchType
  <2>3. w.tcOut # None
    BY <1>2, <2>1, <2>2, StpAssumption
  <2>4. Fresh(s, v, w, <<s, v.tcSeq + 1>>)
    BY <1>2, <2>1, <2>2 DEF Fresh
  <2>5. Keeps(v, w)
    BY <1>2, <1>4, <2>1, <2>3 DEF Keeps
  <2>6. Announces(s, v, w, N)
    BY <1>2, <2>1, <2>2, <2>4 DEF Announces, Marked
  <2>7. QED BY <2>3, <2>5, <2>6 DEF Tells, w, u
<1>8. CASE ~ MovedTree(u, w)
  <2>1. v.mac # l
    <3>1. SUFFICES ASSUME Open(v, l) PROVE FALSE
      OBVIOUS
    <3>2. MovedTree(u, w)
      BY <1>0, <1>1, <1>6, <3>1 DEF MovedTree, LostPort, Open
    <3>3. QED BY <1>8, <3>2
  <2>2. u.mac = v.mac
    BY <1>2, <2>1
  <2>3. Tells(s, u, w, N)
    BY <1>1, <1>4, <1>5, ElectsTells
  <2>4. v.tcSeq \in Nat
    BY DEF SwitchType
  <2>5. Tells(s, v, u, N)
    BY <1>1, <1>2, <2>2, <2>4 DEF Tells, Keeps, Announces, Marked, Open
  <2> HIDE DEF N
  <2>6. Tells(s, v, w, N)
    BY <1>1, <1>5, <2>3, <2>5, TellsOn
  <2>7. QED BY <2>6 DEF w, u, N
<1>9. QED BY <1>7, <1>8

LEMMA PlugTells ==
  ASSUME NEW s \in Switches, NEW v \in SwitchType, Young(v), v.on, NEW l \in Links
  PROVE  Tells(s, v, Relinked(s, PluggedIn(v, l), TRUE), {})
<1> DEFINE u == PluggedIn(v, l)
           w == Relinked(s, u, TRUE)
           N == {}
<1>1. u \in SwitchType /\ Young(u) /\ u = [v EXCEPT !.live = u.live]
  BY PluggedInType
<1> HIDE DEF u
<1>2. /\ u.mac = v.mac /\ u.tcSeq = v.tcSeq /\ u.tcSeen = v.tcSeen /\ u.tcOut = v.tcOut /\ u.seen = v.seen
      /\ u.role = v.role /\ u.pending = v.pending /\ u.on = v.on
  BY <1>1 DEF SwitchType
<1>3. w = Recompute(s, u, TRUE).w
  BY <1>2 DEF Relinked
<1>4. Elects(s, u, w) /\ w.seen = u.seen
  BY ZenonT(60), <1>1, <1>3, RecomputeElects
<1>5. w \in SwitchType
  BY <1>1, <1>3, RecomputeDoes DEF Settles
<1> HIDE DEF w
<1>6. v.tcSeq \in Nat
  BY DEF SwitchType
<1>7. Tells(s, v, u, N)
  BY <1>2, <1>6 DEF Tells, Keeps, Announces, Marked, Open
<1> HIDE DEF N
<1>8. Tells(s, u, w, N)
  BY <1>1, <1>4, <1>5, ElectsTells
<1>9. Tells(s, v, w, N)
  BY <1>1, <1>5, <1>7, <1>8, TellsOn
<1>10. QED BY <1>9 DEF w, u, N

\* A switch that is reconfigured uses all its ports until it hears of better ones.
LEMMA ConfigTells ==
  ASSUME NEW s \in Switches, NEW v \in SwitchType, v.live \subseteq Ports(s), Tree(s, v), NEW prio \in Nat
  PROVE  Tells(s, v, SetConfig(s, v, TRUE, prio).w, {})
<1> DEFINE u == Blank(v, TRUE, prio)
           w == SetConfig(s, v, TRUE, prio).w
           N == {}
<1>1. /\ u \in SwitchType /\ Young(u) /\ u.live = v.live /\ u.pending = v.pending
      /\ \A l \in Links : u.heard[l] = None
  BY BlankType
<1>2. u.mac = v.mac /\ u.tcSeq = v.tcSeq /\ u.tcSeen = v.tcSeen /\ u.tcOut = v.tcOut /\ u.seen = v.seen
  <2> DEFINE hl == [l \in Links |-> None]
             ro == [l \in Links |-> "none"]
  <2>1. u = [v EXCEPT !.on = TRUE, !.prio = prio, !.heard = hl, !.role = ro]
    BY DEF Blank
  <2> HIDE DEF hl, ro, u
  <2>2. QED BY <2>1 DEF SwitchType
<1>3. w = Recompute(s, u, TRUE).w
  BY SetConfigDoes
<1> HIDE DEF u
<1>4. Elects(s, u, w) /\ w.seen = u.seen
  BY <1>1, <1>3, RecomputeElects
<1>5. w \in SwitchType /\ Tree(s, w) /\ w.live = v.live /\ w.heard = u.heard
  <2>1. Settles(s, u, TRUE, Recompute(s, u, TRUE))
    BY <1>1, RecomputeDoes
  <2>2. QED BY <1>1, <1>3, <2>1 DEF Settles, Same
<1> HIDE DEF w
<1>6. ASSUME NEW l \in Links, l \in v.live PROVE w.role[l] = "designated"
  <2>1. Offers(s, w) = {}
    BY <1>1, <1>5 DEF Offers, SwitchType
  <2>2. w.port = None
    BY <1>5, <2>1 DEF Tree, Elected
  <2>3. l # None
    BY StpAssumption
  <2>4. QED BY <1>1, <1>5, <1>6, <2>2, <2>3 DEF Tree, RoleOf
<1>7. ASSUME NEW l \in Links, Open(v, l) PROVE l \in v.live
  <2>1. v.role[l] = RoleOf(s, v, l)
    BY DEF Tree
  <2>2. QED BY <1>7, <2>1 DEF RoleOf, Open
<1>8. v.tcSeq \in Nat /\ w.tcSeq \in Nat
  BY <1>5 DEF SwitchType
<1>9. CASE /\ w.mac = v.mac /\ w.tcSeq = v.tcSeq /\ w.tcSeen = v.tcSeen /\ w.tcOut = v.tcOut
           /\ v.pending => w.pending
  <2>1. Keeps(v, w)
    BY <1>2, <1>4, <1>6, <1>7, <1>9 DEF Keeps, Open
  <2>2. Announces(s, v, w, N)
    BY <1>8, <1>9 DEF Announces, Marked
  <2>3. QED BY <1>9, <2>1, <2>2 DEF Tells, w
<1>10. CASE /\ w.mac = None /\ w.tcSeq = v.tcSeq + 1 /\ w.tcOut = <<s, v.tcSeq + 1>>
            /\ w.tcSeen = v.tcSeen \cup {<<s, v.tcSeq + 1>>} /\ w.pending
  <2>1. <<s, v.tcSeq + 1>> \in Switches \X Nat /\ Fresh(s, v, w, <<s, v.tcSeq + 1>>)
    BY <1>8, <1>10 DEF Fresh
  <2>2. w.tcOut # None
    BY <1>10, <2>1, StpAssumption
  <2>3. Keeps(v, w)
    BY <1>2, <1>4, <1>10, <2>2 DEF Keeps
  <2>4. Announces(s, v, w, N)
    BY <1>8, <1>10, <2>1 DEF Announces, Marked
  <2>5. QED BY <2>2, <2>3, <2>4 DEF Tells, w
<1>11. QED BY <1>1, <1>2, <1>4, <1>9, <1>10 DEF Elects

-------------------------------------------------------------------------------
(* While no broadcast is under way *)

\* The cables over which nobody who has learnt anything has lost his port.
KeptOf(S) == {l \in PluggedOf(S) : \A s \in {End1[l], End2[l]} : S[s].mac # None => Open(S[s], l)}

\* Where a switch has learnt the station.
Placed(S) ==
  \A s \in Switches :
     /\ S[s].mac = StationPort => s = Home
     /\ S[s].mac \in Links => S[s].mac \in KeptOf(S) /\ s \in {End1[S[s].mac], End2[S[s].mac]}

\* The topology changes are numbered by those who announce them.
Numbered(S, id) == id[2] <= S[id[1]].tcSeq

Counted(S) ==
  \A s \in Switches : Marked(S[s]) /\ \A id \in Switches \X Nat : id \in S[s].tcSeen => Numbered(S, id)

\* The topology changes somebody is going to tell or has told.
IsNews(S, q, id) ==
  \/ \E s \in Switches : S[s].tcOut = id
  \/ \E i \in DOMAIN q : q[i].is.kind = "bpdu" /\ q[i].is.tc = id

\* Whoever has taken note of one has learnt nothing since.
Unlearnt(S, id) == \A s \in Switches : id \in S[s].tcSeen => S[s].mac = None

Noted(S, q) == \A id \in Switches \X Nat : IsNews(S, q, id) => Numbered(S, id) /\ Unlearnt(S, id)

\* A topology change is on its way to s on l.
ToldOn(q, s, l) == \E i \in Mine(q, s, l) : q[i].is.tc # None

Telling(S, q, s, l) == S[s].tcOut # None \/ ToldOn(q, Other(l, s), l)

BothInCharge(S, s, l) == S[s].role[l] = "designated" /\ S[Other(l, s)].role[l] = "designated"

\* Whoever has forgotten what he had learnt tells his neighbours so, or they do not know
\* each other yet.
Spreads(S, q) ==
  \A s \in Switches : \A l \in Ports(s) :
     l \in PluggedOf(S) /\ S[s].mac = None /\ S[Other(l, s)].mac # None =>
        BothInCharge(S, s, l) \/ Telling(S, q, s, l)

\* What has been learnt leads home, unless somebody on the way has forgotten it.
Leads(S) ==
  \A s \in Switches : S[s].mac \in Links =>
     \A X : Closed(KeptOf(S) \ {S[s].mac}, X) /\ Other(S[s].mac, s) \in X =>
        Home \in X \/ \E x \in X : S[x].mac = None

Ready(S, q) == Placed(S) /\ Counted(S) /\ Noted(S, q) /\ Spreads(S, q) /\ Leads(S)

\* A port in use has a cable.
LEMMA OpenIsLive ==
  ASSUME NEW S, Sane(S), NEW s \in Switches, NEW l \in Links, Open(S[s], l)
  PROVE  l \in Ports(s) /\ l \in S[s].live /\ l \in PluggedOf(S)
<1>1. S[s].role[l] = RoleOf(s, S[s], l)
  BY DEF Sane, Tree
<1>2. l \in Ports(s) /\ l \in S[s].live
  BY <1>1 DEF RoleOf, Open
<1>3. QED BY <1>2 DEF Sane, PluggedOf, Ports

LEMMA InPlugged ==
  ASSUME NEW S, Sane(S), NEW s \in Switches, NEW l \in Ports(s)
  PROVE  l \in PluggedOf(S) <=> l \in S[s].live
BY DEF Sane, PluggedOf, Ports

\* All keep or forget what they have learnt.
AllKeep(S, T) == SwInv(S) /\ SwInv(T) /\ Sane(S) /\ Sane(T) /\ \A s \in Switches : Keeps(S[s], T[s])

LEMMA StillOpen ==
  ASSUME NEW S, NEW T, AllKeep(S, T), NEW s \in Switches, T[s].mac # None, NEW l \in Links, Open(S[s], l)
  PROVE  Open(T[s], l)
<1>1. Keeps(S[s], T[s])
  BY DEF AllKeep
<1>2. QED BY <1>1 DEF Keeps

LEMMA StillLearnt ==
  ASSUME NEW S, NEW T, AllKeep(S, T), NEW s \in Switches, T[s].mac # None
  PROVE  S[s].mac = T[s].mac
<1>1. Keeps(S[s], T[s])
  BY DEF AllKeep
<1>2. QED BY <1>1 DEF Keeps

LEMMA StillKept ==
  ASSUME NEW S, NEW T, AllKeep(S, T), NEW l \in KeptOf(S), NEW s \in {End1[l], End2[l]}, T[s].mac # None
  PROVE  l \in KeptOf(T)
<1>1. l \in Links /\ End1[l] \in Switches /\ End2[l] \in Switches
  BY StpAssumption DEF KeptOf, PluggedOf
<1>2. ASSUME NEW e \in {End1[l], End2[l]}, T[e].mac # None
      PROVE  Open(T[e], l)
  <2>1. e \in Switches
    BY <1>1
  <2>2. S[e].mac # None
    BY <1>2, <2>1, StillLearnt
  <2>3. Open(S[e], l)
    BY <2>2 DEF KeptOf
  <2>4. QED BY <1>1, <1>2, <2>1, <2>3, StillOpen
<1>3. l \in PluggedOf(T)
  <2>1. s \in Switches /\ Open(T[s], l)
    BY <1>1, <1>2
  <2>2. QED BY <1>1, <2>1, OpenIsLive DEF AllKeep
<1>4. QED BY <1>2, <1>3 DEF KeptOf

LEMMA NoneIsNoPort == None \notin Links /\ None # StationPort /\ StationPort \notin Links
<1>1. None \notin Nat
  BY StpAssumption
<1>2. \A l \in Links : l \in Nat /\ l # 0
  BY StpAssumption
<1>3. None \notin Links
  BY <1>1, <1>2
<1>4. None # StationPort
  BY <1>1 DEF StationPort
<1>5. QED BY <1>2, <1>3, <1>4 DEF StationPort

LEMMA PlacedStays ==
  ASSUME NEW S, NEW T, AllKeep(S, T), Placed(S)
  PROVE  Placed(T)
<1> SUFFICES ASSUME NEW s \in Switches
             PROVE  /\ T[s].mac = StationPort => s = Home
                    /\ T[s].mac \in Links => T[s].mac \in KeptOf(T) /\ s \in {End1[T[s].mac], End2[T[s].mac]}
  BY DEF Placed
<1>0. None \notin Links /\ None # StationPort
  BY NoneIsNoPort
<1>1. ASSUME T[s].mac = StationPort PROVE s = Home
  <2>1. S[s].mac = StationPort
    BY <1>0, <1>1, StillLearnt
  <2>2. QED BY <2>1 DEF Placed
<1>2. ASSUME T[s].mac \in Links PROVE T[s].mac \in KeptOf(T) /\ s \in {End1[T[s].mac], End2[T[s].mac]}
  <2>1. T[s].mac # None
    BY <1>0, <1>2
  <2>2. S[s].mac = T[s].mac
    BY <2>1, StillLearnt
  <2>3. T[s].mac \in KeptOf(S) /\ s \in {End1[T[s].mac], End2[T[s].mac]}
    BY <1>2, <2>2 DEF Placed
  <2>4. QED BY <2>1, <2>3, StillKept
<1>3. QED BY <1>1, <1>2

LEMMA LeadsStays ==
  ASSUME NEW S, NEW T, AllKeep(S, T), Leads(S)
  PROVE  Leads(T)
<1> SUFFICES ASSUME NEW s \in Switches, T[s].mac \in Links, NEW X, Closed(KeptOf(T) \ {T[s].mac}, X),
                    Other(T[s].mac, s) \in X, \A x \in X : T[x].mac # None
             PROVE  Home \in X
  BY DEF Leads
<1>0. None \notin Links
  BY StpAssumption
<1>1. S[s].mac = T[s].mac
  BY <1>0, StillLearnt
<1>2. X \in SUBSET Switches
  BY DEF Closed
<1>3. ASSUME NEW k \in KeptOf(S) \ {S[s].mac}
      PROVE  End1[k] \in X <=> End2[k] \in X
  <2>1. SUFFICES ASSUME End1[k] \in X \/ End2[k] \in X PROVE End1[k] \in X <=> End2[k] \in X
    OBVIOUS
  <2>2. PICK a \in {End1[k], End2[k]} : a \in X
    BY <2>1
  <2>3. T[a].mac # None
    BY <2>2
  <2>4. k \in KeptOf(T)
    BY <1>3, <2>3, StillKept
  <2>5. QED BY <1>1, <2>4 DEF Closed
<1>4. Closed(KeptOf(S) \ {S[s].mac}, X)
  BY <1>2, <1>3 DEF Closed
<1>5. \A x \in X : S[x].mac # None
  BY <1>2, StillLearnt
<1>6. QED BY <1>1, <1>4, <1>5 DEF Leads

\* The topology changes of others that somebody has heard are news, and nothing else is told.
AllTell(S, T, q, p, N) ==
  /\ \A s \in Switches : Announces(s, S[s], T[s], N)
  /\ \A id \in Switches \X Nat : id \in N => IsNews(S, q, id)
  /\ \A id \in Switches \X Nat : IsNews(T, p, id) => IsNews(S, q, id) \/ \E s \in Switches : T[s].tcOut = id

LEMMA StillNumbered ==
  ASSUME NEW S, NEW T, AllKeep(S, T), NEW q, NEW p, NEW N, AllTell(S, T, q, p, N),
         NEW id \in Switches \X Nat, Numbered(S, id)
  PROVE  Numbered(T, id)
<1>1. id[1] \in Switches /\ id[2] \in Nat
  OBVIOUS
<1>2. S[id[1]].tcSeq <= T[id[1]].tcSeq
  BY <1>1 DEF AllTell, Announces
<1>3. S[id[1]].tcSeq \in Nat /\ T[id[1]].tcSeq \in Nat
  BY <1>1 DEF AllKeep, SwInv, SwitchType
<1>4. QED BY <1>1, <1>2, <1>3 DEF Numbered

\* A topology change somebody has just announced is nothing anybody has taken note of.
LEMMA FreshIs ==
  ASSUME NEW S, NEW T, AllKeep(S, T), Counted(S), NEW s \in Switches, NEW id \in Switches \X Nat,
         Fresh(s, S[s], T[s], id)
  PROVE  Numbered(T, id) /\ \A u \in Switches : id \notin S[u].tcSeen
<1>1. id[1] = s /\ id[2] \in Nat /\ S[s].tcSeq < id[2] /\ id[2] <= T[s].tcSeq
  BY DEF Fresh
<1>2. S[s].tcSeq \in Nat
  BY DEF AllKeep, SwInv, SwitchType
<1>3. ~ Numbered(S, id)
  BY <1>1, <1>2 DEF Numbered
<1>4. QED BY <1>1, <1>3 DEF Counted, Numbered

LEMMA NewsIs ==
  ASSUME NEW S, NEW T, AllKeep(S, T), NEW q, NEW p, NEW N, AllTell(S, T, q, p, N),
         NEW id \in Switches \X Nat, IsNews(T, p, id)
  PROVE  IsNews(S, q, id) \/ \E s \in Switches : Fresh(s, S[s], T[s], id)
<1>1. SUFFICES ASSUME NEW s \in Switches, T[s].tcOut = id
               PROVE  IsNews(S, q, id) \/ Fresh(s, S[s], T[s], id)
  BY DEF AllTell
<1>2. id # None
  BY StpAssumption
<1>3. id \in {S[s].tcOut, None} \cup N \/ Fresh(s, S[s], T[s], id)
  BY <1>1 DEF AllTell, Announces
<1>4. S[s].tcOut = id => IsNews(S, q, id)
  BY DEF IsNews
<1>5. id \in N => IsNews(S, q, id)
  BY DEF AllTell
<1>6. QED BY <1>2, <1>3, <1>4, <1>5

LEMMA CountedStays ==
  ASSUME NEW S, NEW T, AllKeep(S, T), NEW q, NEW p, NEW N, AllTell(S, T, q, p, N), Counted(S), Noted(S, q)
  PROVE  Counted(T)
<1> SUFFICES ASSUME NEW s \in Switches
             PROVE  Marked(T[s]) /\ \A id \in Switches \X Nat : id \in T[s].tcSeen => Numbered(T, id)
  BY DEF Counted
<1>1. Announces(s, S[s], T[s], N) /\ Marked(S[s])
  BY DEF AllTell, Counted
<1>2. Marked(T[s])
  BY <1>1 DEF Announces
<1>3. ASSUME NEW id \in Switches \X Nat, id \in T[s].tcSeen
      PROVE  Numbered(T, id)
  <2>1. CASE id \in S[s].tcSeen
    BY <2>1, StillNumbered DEF Counted
  <2>2. CASE id \in N
    <3>1. IsNews(S, q, id)
      BY <2>2 DEF AllTell
    <3>2. QED BY <3>1, StillNumbered DEF Noted
  <2>3. CASE Fresh(s, S[s], T[s], id)
    BY <2>3, FreshIs
  <2>4. QED BY <1>1, <1>3, <2>1, <2>2, <2>3 DEF Announces
<1>4. QED BY <1>2, <1>3

LEMMA NotedStays ==
  ASSUME NEW S, NEW T, AllKeep(S, T), NEW q, NEW p, NEW N, AllTell(S, T, q, p, N), Counted(S), Noted(S, q)
  PROVE  Noted(T, p)
<1> SUFFICES ASSUME NEW id \in Switches \X Nat, IsNews(T, p, id)
             PROVE  Numbered(T, id) /\ Unlearnt(T, id)
  BY DEF Noted
<1>1. Numbered(T, id) /\ \A s \in Switches : id \in S[s].tcSeen => S[s].mac = None
  <2>1. CASE IsNews(S, q, id)
    BY <2>1, StillNumbered DEF Noted, Unlearnt
  <2>2. ASSUME NEW s \in Switches, Fresh(s, S[s], T[s], id)
        PROVE  Numbered(T, id) /\ \A u \in Switches : id \notin S[u].tcSeen
    BY <2>2, FreshIs
  <2>3. QED BY <2>1, <2>2, NewsIs
<1>2. ASSUME NEW s \in Switches, id \in T[s].tcSeen PROVE T[s].mac = None
  <2>1. Announces(s, S[s], T[s], N) /\ Keeps(S[s], T[s])
    BY DEF AllTell, AllKeep
  <2>2. CASE id \in S[s].tcSeen
    BY <1>1, <2>1, <2>2 DEF Keeps
  <2>3. CASE id \notin S[s].tcSeen
    BY <1>2, <2>1, <2>3 DEF Announces
  <2>4. QED BY <2>2, <2>3
<1>3. QED BY <1>1, <1>2 DEF Unlearnt

\* What is being told goes on being told, or has been heard.
Passes(S, T, q, p) ==
  \A s \in Switches : \A l \in Ports(s) :
     l \in PluggedOf(S) /\ l \in PluggedOf(T) /\ T[Other(l, s)].mac # None /\ Telling(S, q, s, l) =>
        Telling(T, p, s, l)

\* A cable that has just been plugged in.
NewCables(S, T) ==
  \A s \in Switches : \A l \in Ports(s) :
     l \notin PluggedOf(S) /\ l \in PluggedOf(T) => T[s].role[l] = "designated"

LEMMA SpreadsStays ==
  ASSUME NEW S, NEW T, AllKeep(S, T), NEW q, NEW p, Passes(S, T, q, p), NewCables(S, T), Spreads(S, q)
  PROVE  Spreads(T, p)
<1> SUFFICES ASSUME NEW s \in Switches, NEW l \in Ports(s), l \in PluggedOf(T), T[s].mac = None,
                    T[Other(l, s)].mac # None
             PROVE  BothInCharge(T, s, l) \/ Telling(T, p, s, l)
  BY DEF Spreads
<1> DEFINE u == Other(l, s)
<1>0. u \in Switches /\ l \in Ports(u) /\ l \in Links
  BY OtherEnd
<1>1. Keeps(S[s], T[s]) /\ Keeps(S[u], T[u])
  BY <1>0 DEF AllKeep
<1>2. CASE l \notin PluggedOf(S)
  BY <1>0, <1>2 DEF NewCables, BothInCharge
<1>3. CASE T[s].tcOut # None
  BY <1>3 DEF Telling
<1>4. CASE l \in PluggedOf(S) /\ T[s].tcOut = None
  <2>1. S[s].mac = None
    BY <1>1, <1>4 DEF Keeps
  <2>2. S[u].mac # None
    BY <1>0, <1>1 DEF Keeps
  <2>3. CASE Telling(S, q, s, l)
    BY <1>4, <2>3 DEF Passes
  <2>4. CASE BothInCharge(S, s, l)
    BY <1>0, <1>1, <1>4, <2>4 DEF BothInCharge, Keeps
  <2>5. QED BY <1>4, <2>1, <2>2, <2>3, <2>4 DEF Spreads
<1>5. QED BY <1>2, <1>3, <1>4

LEMMA ReadyStays ==
  ASSUME NEW S, NEW T, AllKeep(S, T), NEW q, NEW p, NEW N, AllTell(S, T, q, p, N), Passes(S, T, q, p),
         NewCables(S, T), Ready(S, q)
  PROVE  Ready(T, p)
BY PlacedStays, LeadsStays, CountedStays, NotedStays, SpreadsStays DEF Ready

-------------------------------------------------------------------------------
(* At rest *)

LeadsHome(E, s, m) == m \in E /\ Joined(E \ {m}, Other(m, s), Home)

\* What has been learnt leads home over the cables that forward.
Way(S) == \A s \in Switches : S[s].mac \in Links => LeadsHome(ActiveOf(S), s, S[s].mac)

LEMMA OpenForwards ==
  ASSUME NEW S, Sane(S), NEW s \in Switches, NEW l \in Links
  PROVE  Forwarding(S[s], l) <=> Open(S[s], l)
<1>1. l # StationPort
  BY NoneIsNoPort
<1>2. S[s].on
  BY DEF Sane
<1>3. QED BY <1>1, <1>2 DEF Forwarding, Open

LEMMA ActiveOpen ==
  ASSUME NEW S, Sane(S), NEW l \in PluggedOf(S)
  PROVE  l \in ActiveOf(S) <=> Open(S[End1[l]], l) /\ Open(S[End2[l]], l)
<1>1. l \in Links /\ End1[l] \in Switches /\ End2[l] \in Switches
  BY StpAssumption DEF PluggedOf
<1>2. QED BY <1>1, OpenForwards DEF ActiveOf

\* The two ends of a cable are not both in charge of it.
LEMMA OneInCharge ==
  ASSUME NEW S, Near(S), NEW s \in Switches, NEW l \in Ports(s), l \in S[s].live
  PROVE  ~ BothInCharge(S, s, l)
<1> DEFINE t == Other(l, s)
<1>1. SUFFICES ASSUME S[s].role[l] = "designated", S[t].role[l] = "designated" PROVE FALSE
  BY DEF BothInCharge
<1>2. t \in Switches /\ l \in Ports(t) /\ Other(l, t) = s /\ l \in Links
  BY OtherEnd
<1>3. Sane(S)
  BY DEF Near, Quiet
<1>4. l \in S[t].live
  BY <1>3, LiveBoth
<1>5. Forwarding(S[s], l) /\ Forwarding(S[t], l)
  BY <1>1, <1>2, ForwardingIs
<1>6. l = S[s].port \/ l = S[t].port
  BY <1>5, ForwardsIs
<1>7. Adjacent(S, s, t, l)
  BY AdjacentIs
<1>8. Adjacent(S, t, s, l)
  BY <1>2, <1>4, AdjacentIs
<1>9. QED BY <1>1, <1>6, <1>7, <1>8 DEF Adjacent

\* Nobody has anything to tell.
Silent(S, q) == (\A s \in Switches : S[s].tcOut = None) /\ \A i \in DOMAIN q : q[i].is.kind # "bpdu"

\* Then two switches that are connected have both learnt something, or neither has.
LEMMA BothLearnt ==
  ASSUME NEW S, Near(S), NEW q, Silent(S, q), Spreads(S, q), NEW l \in PluggedOf(S)
  PROVE  S[End1[l]].mac = None <=> S[End2[l]].mac = None
<1>1. l \in Links /\ End1[l] \in Switches /\ End2[l] \in Switches /\ l \in Ports(End1[l]) /\ l \in Ports(End2[l])
  BY StpAssumption DEF PluggedOf, Ports
<1>2. Sane(S) /\ l \in S[End1[l]].live /\ l \in S[End2[l]].live
  BY DEF Near, Quiet, Sane, PluggedOf
<1>3. ASSUME NEW s \in Switches, l \in Ports(s), l \in S[s].live, S[s].mac = None
      PROVE  S[Other(l, s)].mac = None
  <2>1. ~ BothInCharge(S, s, l)
    BY <1>3, OneInCharge
  <2>2. ~ Telling(S, q, s, l)
    BY DEF Silent, Telling, ToldOn, Mine
  <2>3. QED BY <1>3, <2>1, <2>2 DEF Spreads
<1>4. Other(l, End1[l]) = End2[l] /\ Other(l, End2[l]) = End1[l]
  BY <1>1 DEF Other
<1>5. QED BY <1>1, <1>2, <1>3, <1>4

LEMMA WayIs ==
  ASSUME NEW S, Near(S), NEW q, Silent(S, q), Ready(S, q)
  PROVE  Way(S)
<1> SUFFICES ASSUME NEW s \in Switches, S[s].mac \in Links PROVE LeadsHome(ActiveOf(S), s, S[s].mac)
  BY DEF Way
<1> DEFINE m == S[s].mac
           t == Other(m, s)
           E == ActiveOf(S) \ {m}
<1>0. Sane(S) /\ m # None
  BY NoneIsNoPort DEF Near, Quiet
<1>1. m \in KeptOf(S) /\ s \in {End1[m], End2[m]} /\ m \in PluggedOf(S) /\ m \in Links
  BY DEF Ready, Placed, KeptOf
<1>2. m \in Ports(s) /\ t \in Switches /\ t \in {End1[m], End2[m]}
  BY <1>1, StpAssumption DEF Ports, Other
<1>3. ASSUME NEW k \in KeptOf(S), NEW a \in {End1[k], End2[k]}, S[a].mac # None
      PROVE  k \in ActiveOf(S) /\ S[End1[k]].mac # None /\ S[End2[k]].mac # None
  <2>1. k \in PluggedOf(S)
    BY DEF KeptOf
  <2>2. S[End1[k]].mac # None /\ S[End2[k]].mac # None
    BY <1>3, <2>1, BothLearnt DEF Ready
  <2>3. Open(S[End1[k]], k) /\ Open(S[End2[k]], k)
    BY <2>2 DEF KeptOf
  <2>4. QED BY <1>0, <2>1, <2>2, <2>3, ActiveOpen
<1>4. m \in ActiveOf(S) /\ S[t].mac # None
  BY <1>0, <1>1, <1>2, <1>3
<1>5. ASSUME NEW X, Closed(E, X), t \in X PROVE Home \in X
  <2> DEFINE Y == {x \in X : S[x].mac # None}
             F == KeptOf(S) \ {m}
  <2>1. X \in SUBSET Switches /\ Y \in SUBSET Switches /\ t \in Y
    BY <1>4, <1>5 DEF Closed
  <2>2. ASSUME NEW k \in F PROVE End1[k] \in Y <=> End2[k] \in Y
    <3>1. CASE S[End1[k]].mac # None \/ S[End2[k]].mac # None
      <4>1. k \in ActiveOf(S) /\ S[End1[k]].mac # None /\ S[End2[k]].mac # None
        BY <1>3, <3>1
      <4>2. End1[k] \in X <=> End2[k] \in X
        BY <1>5, <4>1 DEF Closed
      <4>3. QED BY <4>1, <4>2
    <3>2. CASE ~ (S[End1[k]].mac # None \/ S[End2[k]].mac # None)
      BY <3>2
    <3>3. QED BY <3>1, <3>2
  <2>3. Closed(F, Y)
    BY <2>1, <2>2 DEF Closed
  <2>4. \A x \in Y : S[x].mac # None
    OBVIOUS
  <2>5. \A x \in Y : x \in X
    OBVIOUS
  <2> HIDE DEF Y
  <2>6. Home \in Y
    BY <2>1, <2>3, <2>4 DEF Ready, Leads
  <2>7. QED BY <2>5, <2>6
<1>6. ASSUME NEW X, Closed(E, X), t \notin X PROVE Home \notin X
  <2> DEFINE Y == Switches \ X
  <2>1. Closed(E, Y)
    <3>1. \A k \in E : End1[k] \in Switches /\ End2[k] \in Switches
      BY StpAssumption DEF ActiveOf, PluggedOf
    <3>2. QED BY <1>6, <3>1 DEF Closed
  <2>2. t \in Y
    BY <1>2, <1>6
  <2> HIDE DEF Y
  <2>3. Home \in Y
    BY <1>5, <2>1, <2>2
  <2>4. QED BY <2>3 DEF Y
<1>7. \A X : Closed(E, X) => (t \in X <=> Home \in X)
  BY <1>5, <1>6
<1> HIDE DEF E
<1>8. Joined(E, t, Home)
  BY <1>7, JoinedIs
<1>9. QED BY <1>4, <1>8 DEF LeadsHome, E

-------------------------------------------------------------------------------
(* While a broadcast is under way *)

\* E joins without a loop.
NoLoop(E) == \A l \in E : ~ Joined(E \ {l}, End1[l], End2[l])

\* The neighbour of a on m leads home.  Then a does, seen from its neighbour on l, if
\* there is no loop: what is cut off by m cannot reach l.
LEMMA NextWay ==
  ASSUME NEW E \in SUBSET Links, NoLoop(E), NEW a \in Switches, NEW l \in Ports(a), l \in E,
         NEW m \in Ports(a), m # l, LeadsHome(E, a, m)
  PROVE  Joined(E \ {l}, a, Home)
<1> DEFINE s == Other(l, a)
           c == Other(m, a)
           El == E \ {l}
           Em == E \ {m}
           Elm == E \ {l, m}
           D == {x \in Switches : Joined(Elm, c, x)}
<1>0. /\ s \in Switches /\ c \in Switches /\ {End1[l], End2[l]} = {s, a} /\ {End1[m], End2[m]} = {a, c}
      /\ m \in E /\ m \in El /\ Joined(Em, c, Home)
  BY OtherEnd DEF LeadsHome
<1>1. ~ Joined(El, a, s) /\ ~ Joined(El, s, a) /\ ~ Joined(Em, a, c) /\ ~ Joined(Em, c, a)
  <2>1. ~ Joined(El, End1[l], End2[l]) /\ ~ Joined(El, End2[l], End1[l])
    BY JoinedIs DEF NoLoop
  <2>2. ~ Joined(Em, End1[m], End2[m]) /\ ~ Joined(Em, End2[m], End1[m])
    BY <1>0, JoinedIs DEF NoLoop
  <2> HIDE DEF El, Em, s, c
  <2>3. (End1[l] = s /\ End2[l] = a) \/ (End1[l] = a /\ End2[l] = s)
    BY <1>0
  <2>4. (End1[m] = c /\ End2[m] = a) \/ (End1[m] = a /\ End2[m] = c)
    BY <1>0
  <2>5. QED BY <2>1, <2>2, <2>3, <2>4
<1>2. Joined(El, a, c)
  <2>1. ASSUME NEW X, Closed(El, X) PROVE a \in X <=> c \in X
    BY <1>0, <2>1 DEF Closed
  <2> HIDE DEF El
  <2>2. QED BY <2>1, JoinedIs
<1>3. Elm \subseteq El /\ Elm \subseteq Em
  OBVIOUS
<1>4. \A k \in Elm : End1[k] \in Switches /\ End2[k] \in Switches
  BY StpAssumption
<1>5. ASSUME NEW x, Joined(Elm, c, x)
      PROVE  Joined(El, c, x) /\ Joined(Em, c, x)
  <2> HIDE DEF El, Em, Elm, c
  <2>1. QED BY <1>3, <1>5, MoreJoins
<1>6. a \notin D /\ s \notin D
  <2>1. a \notin D
    BY <1>1, <1>5
  <2>2. s \notin D
    <3>1. SUFFICES ASSUME Joined(Elm, c, s) PROVE FALSE
      OBVIOUS
    <3>2. Joined(El, c, s)
      BY <1>5, <3>1
    <3> HIDE DEF El, Elm, c, s
    <3>3. QED BY <1>1, <1>2, <3>2, JoinedIs
  <2>3. QED BY <2>1, <2>2
<1>7. ASSUME NEW k \in Elm PROVE End1[k] \in D <=> End2[k] \in D
  <2>1. Joined(Elm, End1[k], End2[k])
    <3>1. ASSUME NEW X, Closed(Elm, X) PROVE End1[k] \in X <=> End2[k] \in X
      BY <1>7, <3>1 DEF Closed
    <3> HIDE DEF Elm
    <3>2. QED BY <3>1, JoinedIs
  <2>2. Joined(Elm, End2[k], End1[k])
    BY <2>1, JoinedIs
  <2> HIDE DEF Elm, c
  <2>3. Joined(Elm, c, End1[k]) <=> Joined(Elm, c, End2[k])
    BY <2>1, <2>2, JoinedIs
  <2>4. End1[k] \in Switches /\ End2[k] \in Switches
    BY <1>4, <1>7
  <2>5. QED BY <2>3, <2>4
<1>8. Closed(Em, D)
  <2>1. ASSUME NEW k \in Em PROVE End1[k] \in D <=> End2[k] \in D
    <3>1. CASE k = l
      <4>1. End1[k] \in {s, a} /\ End2[k] \in {s, a}
        BY <1>0, <3>1
      <4> HIDE DEF D
      <4>2. QED BY <1>6, <4>1
    <3>2. CASE k # l
      <4>1. k \in Elm
        BY <2>1, <3>2
      <4> HIDE DEF D, Elm
      <4>2. QED BY <1>7, <4>1
    <3>3. QED BY <3>1, <3>2
  <2>2. D \in SUBSET Switches
    OBVIOUS
  <2> HIDE DEF D
  <2>3. QED BY <2>1, <2>2 DEF Closed
<1>9. Joined(Elm, c, c)
  <2> HIDE DEF Elm, c
  <2>1. QED BY JoinedIs
<1>10. Joined(Elm, c, Home)
  <2>1. c \in D
    BY <1>0, <1>9
  <2>2. Joined(Em, c, Home)
    BY <1>0
  <2>3. D \in SUBSET Switches
    OBVIOUS
  <2>4. \A x \in D : Joined(Elm, c, x)
    OBVIOUS
  <2> HIDE DEF D, Em, Elm, c
  <2>5. Home \in D
    BY <1>8, <2>1, <2>2, JoinedIs
  <2>6. QED BY <2>4, <2>5
<1>11. Joined(El, c, Home)
  BY <1>5, <1>10
<1> HIDE DEF El, c
<1>12. Joined(El, a, Home)
  BY <1>2, <1>11, JoinedIs
<1>13. QED BY <1>12 DEF El

Spanning(S) ==
  /\ \A s, t \in Switches : Joined(PluggedOf(S), s, t) => Joined(ActiveOf(S), s, t)
  /\ NoLoop(ActiveOf(S))

LEMMA NearSpans ==
  ASSUME NEW S, Near(S)
  PROVE  Spanning(S)
<1>1. ASSUME NEW s \in Switches, NEW t \in Switches, Joined(PluggedOf(S), s, t)
      PROVE  Joined(ActiveOf(S), s, t)
  <2>1. PICK u \in Switches : /\ Joined(ActiveOf(S), s, u)
                              /\ \A x \in Switches : Joined(PluggedOf(S), s, x) => Joined(ActiveOf(S), x, u)
    BY OneTop
  <2>2. Joined(ActiveOf(S), t, u)
    BY <1>1, <2>1
  <2>3. QED BY <2>1, <2>2, JoinedIs
<1>2. NoLoop(ActiveOf(S))
  BY NoSecondWay DEF NoLoop
<1>3. QED BY <1>1, <1>2 DEF Spanning

\* Broadcast f has come to a switch in state w.
Knew(w, f) == f \in w.seen

\* The frame g has been sent by a switch that has it, not back to where it came from.
SentOn(S, f, g) ==
  LET a == Other(g.on, g.to)
  IN  g.is.id = f /\ Knew(S[a], f) /\ S[a].mac # g.on /\ Open(S[a], g.on)

Coming(q, s, l) == \E i \in DOMAIN q : q[i].is.kind = "data" /\ q[i].to = s /\ q[i].on = l

\* The place where each has learnt the station is one of its ports.
Sits(S) ==
  \A s \in Switches : (S[s].mac = StationPort => s = Home) /\ (S[s].mac \in Links => S[s].mac \in Ports(s))

\* Who has broadcast f has learnt the station, and sends it on.
Spreading(S, q, f) ==
  /\ Knew(S[Home], f) /\ S[Home].mac = StationPort
  /\ \A s \in Switches : Knew(S[s], f) => S[s].mac # None
  /\ \A i \in DOMAIN q : q[i].is.kind = "data" => SentOn(S, f, q[i])
  /\ \A s \in Switches : \A l \in Ports(s) :
        l \in ActiveOf(S) /\ Knew(S[s], f) /\ ~ Knew(S[Other(l, s)], f) => Coming(q, Other(l, s), l)

\* While broadcast f is under way, and nothing else.
Flooding(S, q, f) ==
  /\ Sits(S) /\ Counted(S) /\ Way(S) /\ Spanning(S) /\ Spreading(S, q, f)
  /\ \A s \in Switches : S[s].tcOut = None
  /\ \A i \in DOMAIN q : q[i].is.kind \in {"data", "tick"}

\* When it has arrived everywhere, who is connected to the station has learnt it, and
\* nobody else has.
LEMMA FloodedBoth ==
  ASSUME NEW S, Sane(S), NEW q, NEW f, Flooding(S, q, f), \A i \in DOMAIN q : q[i].is.kind # "data",
         NEW s \in Switches, NEW l \in Ports(s), l \in PluggedOf(S), S[Other(l, s)].mac # None,
         S[Other(l, s)].mac \in Links \cup {StationPort, None}
  PROVE  S[s].mac # None
<1> DEFINE u == Other(l, s)
           E == ActiveOf(S)
           X == {x \in Switches : Knew(S[x], f)}
<1>0. u \in Switches /\ {End1[l], End2[l]} = {s, u}
  BY OtherEnd
<1>1. Joined(E, u, Home)
  <2>1. CASE S[u].mac = StationPort
    <3>1. u = Home
      BY <1>0, <2>1 DEF Flooding, Sits
    <3>2. QED BY <3>1, JoinedIs
  <2>2. CASE S[u].mac \in Links
    <3> DEFINE m == S[u].mac
               F == E \ {m}
    <3>1. m \in E /\ Joined(F, Other(m, u), Home)
      BY <1>0, <2>2 DEF Flooding, Way, LeadsHome
    <3>2. m \in Ports(u)
      BY <1>0, <2>2 DEF Flooding, Sits
    <3>3. Joined(E, Other(m, u), Home)
      <4>1. F \subseteq E
        OBVIOUS
      <4> HIDE DEF F, E, m, u
      <4>2. QED BY <3>1, <4>1, MoreJoins
    <3>4. Joined(E, u, Other(m, u))
      <4>1. {End1[m], End2[m]} = {u, Other(m, u)}
        BY <1>0, <3>2, OtherEnd
      <4>2. ASSUME NEW Y, Closed(E, Y) PROVE u \in Y <=> Other(m, u) \in Y
        <5>1. End1[m] \in Y <=> End2[m] \in Y
          BY <3>1, <4>2 DEF Closed
        <5> HIDE DEF E, m, u
        <5>2. QED BY <4>1, <5>1
      <4> HIDE DEF E, m, u
      <4>3. QED BY <4>2, JoinedIs
    <3> HIDE DEF E, m, u
    <3>5. QED BY <3>3, <3>4, JoinedIs
  <2>3. QED BY <2>1, <2>2
<1>2. Joined(E, s, u)
  <2>1. Joined(PluggedOf(S), s, u)
    <3>1. ASSUME NEW Y, Closed(PluggedOf(S), Y) PROVE s \in Y <=> u \in Y
      <4>1. End1[l] \in Y <=> End2[l] \in Y
        BY <3>1 DEF Closed
      <4> HIDE DEF u
      <4>2. QED BY <1>0, <4>1
    <3> HIDE DEF u
    <3>2. QED BY <3>1, JoinedIs
  <2>2. QED BY <1>0, <2>1 DEF Flooding, Spanning
<1>3. Closed(E, X)
  <2>1. ASSUME NEW k \in E, NEW a \in {End1[k], End2[k]}, Knew(S[a], f) PROVE Knew(S[Other(k, a)], f)
    <3>1. k \in Links /\ a \in Switches /\ k \in Ports(a)
      BY StpAssumption DEF ActiveOf, PluggedOf, Ports
    <3>2. ~ Coming(q, Other(k, a), k)
      BY DEF Coming
    <3>3. QED BY <2>1, <3>1, <3>2 DEF Flooding, Spreading
  <2>2. ASSUME NEW k \in E PROVE End1[k] \in X <=> End2[k] \in X
    <3>1. End1[k] \in Switches /\ End2[k] \in Switches /\ End1[k] # End2[k]
      BY StpAssumption DEF ActiveOf, PluggedOf
    <3>2. Other(k, End1[k]) = End2[k] /\ Other(k, End2[k]) = End1[k]
      BY <3>1 DEF Other
    <3>3. QED BY <2>1, <3>1, <3>2
  <2>3. X \in SUBSET Switches
    OBVIOUS
  <2> HIDE DEF X, E
  <2>4. QED BY <2>2, <2>3 DEF Closed
<1>4. Home \in X
  BY StpAssumption DEF Flooding, Spreading
<1>5. s \in X
  <2> HIDE DEF E, X, u
  <2>1. Joined(E, s, Home)
    BY <1>1, <1>2, JoinedIs
  <2>2. QED BY <1>3, <1>4, <2>1, JoinedIs
<1>6. QED BY <1>5 DEF Flooding, Spreading

LEMMA PlugsSame ==
  ASSUME NEW l \in Links
  PROVE  End1[l] \in Switches /\ End2[l] \in Switches /\ \A s \in {End1[l], End2[l]} : l \in Ports(s)
BY StpAssumption DEF Ports

LEMMA ActiveKept ==
  ASSUME NEW S, Sane(S), NEW l \in ActiveOf(S)
  PROVE  l \in KeptOf(S)
<1>1. l \in PluggedOf(S)
  BY DEF ActiveOf
<1>2. Open(S[End1[l]], l) /\ Open(S[End2[l]], l)
  BY <1>1, ActiveOpen
<1>3. QED BY <1>1, <1>2 DEF KeptOf

LEMMA FloodedReady ==
  ASSUME NEW S, SwInv(S), Sane(S), NEW q, NEW f, Flooding(S, q, f), \A i \in DOMAIN q : q[i].is.kind # "data"
  PROVE  Ready(S, q)
<1>1. \A i \in DOMAIN q : q[i].is.kind # "bpdu"
  BY DEF Flooding
<1>2. Placed(S)
  <2>1. ASSUME NEW s \in Switches, S[s].mac \in Links
        PROVE  S[s].mac \in KeptOf(S) /\ s \in {End1[S[s].mac], End2[S[s].mac]}
    <3>1. S[s].mac \in ActiveOf(S)
      BY <2>1 DEF Flooding, Way, LeadsHome
    <3>2. S[s].mac \in Ports(s)
      BY <2>1 DEF Flooding, Sits
    <3>3. QED BY <3>1, <3>2, ActiveKept DEF Ports
  <2>2. QED BY <2>1 DEF Placed, Flooding, Sits
<1>3. Counted(S)
  BY DEF Flooding
<1>4. Noted(S, q)
  <2>1. ASSUME NEW id \in Switches \X Nat, IsNews(S, q, id) PROVE FALSE
    <3>1. id # None
      BY StpAssumption
    <3>2. QED BY <1>1, <2>1, <3>1 DEF IsNews, Flooding
  <2>2. QED BY <2>1 DEF Noted
<1>5. Spreads(S, q)
  <2>1. ASSUME NEW s \in Switches, NEW l \in Ports(s), l \in PluggedOf(S), S[s].mac = None, S[Other(l, s)].mac # None
        PROVE  FALSE
    <3>1. Other(l, s) \in Switches
      BY OtherEnd
    <3>2. S[Other(l, s)].mac \in Links \cup {StationPort, None}
      BY <3>1 DEF SwInv, SwitchType
    <3>3. QED BY <2>1, <3>2, FloodedBoth
  <2>2. QED BY <2>1 DEF Spreads
<1>6. Leads(S)
  <2>1. ASSUME NEW s \in Switches, S[s].mac \in Links, NEW X, Closed(KeptOf(S) \ {S[s].mac}, X),
               Other(S[s].mac, s) \in X
        PROVE  Home \in X
    <3> DEFINE m == S[s].mac
               E == ActiveOf(S) \ {m}
    <3>1. Joined(E, Other(m, s), Home)
      BY <2>1 DEF Flooding, Way, LeadsHome
    <3>2. Closed(E, X)
      BY <2>1, ActiveKept DEF Closed
    <3> HIDE DEF E
    <3>3. QED BY <2>1, <3>1, <3>2, JoinedIs
  <2>2. QED BY <2>1 DEF Leads
<1>7. QED BY <1>2, <1>3, <1>4, <1>5, <1>6 DEF Ready

\* Only what was learnt may differ.
Alike(S, T) ==
  SwInv(S) /\ SwInv(T) /\ Sane(S) /\ Sane(T)
  /\ \A s \in Switches : SameSwitch(S[s], T[s]) /\ T[s].tcOut = S[s].tcOut /\ T[s].tcSeen = S[s].tcSeen
                         /\ T[s].tcSeq = S[s].tcSeq /\ T[s].pending = S[s].pending

LEMMA AlikeIs ==
  ASSUME NEW S, NEW T, Alike(S, T)
  PROVE  /\ PluggedOf(T) = PluggedOf(S) /\ ActiveOf(T) = ActiveOf(S)
         /\ \A s \in Switches, l \in Links : Open(T[s], l) <=> Open(S[s], l)
         /\ Counted(S) => Counted(T)
         /\ Spanning(S) => Spanning(T)
<1>0. \A l \in Links : End1[l] \in Switches /\ End2[l] \in Switches
  BY StpAssumption
<1>1. \A s \in Switches : T[s].live = S[s].live /\ T[s].role = S[s].role /\ T[s].on = S[s].on
  BY DEF Alike, SameSwitch, Same
<1>2. PluggedOf(T) = PluggedOf(S)
  BY <1>0, <1>1 DEF PluggedOf
<1>3. \A s \in Switches, l \in Links : Open(T[s], l) <=> Open(S[s], l)
  BY <1>1 DEF Open
<1>4. \A s \in Switches, l \in Links : Forwarding(T[s], l) <=> Forwarding(S[s], l)
  BY <1>1 DEF Forwarding
<1>5. ActiveOf(T) = ActiveOf(S)
  BY <1>0, <1>2, <1>4 DEF ActiveOf, PluggedOf
<1>6. Counted(S) => Counted(T)
  <2>1. \A s \in Switches : T[s].tcOut = S[s].tcOut /\ T[s].tcSeen = S[s].tcSeen
                            /\ T[s].tcSeq = S[s].tcSeq /\ T[s].pending = S[s].pending
    BY DEF Alike
  <2>2. QED BY <2>1 DEF Counted, Marked, Numbered
<1>7. Spanning(S) => Spanning(T)
  BY <1>2, <1>5 DEF Spanning
<1>8. QED BY <1>2, <1>3, <1>5, <1>6, <1>7

\* The frames of p are those of q but the first, and those of out.
Replaced(q, p, out) ==
  /\ \A j \in DOMAIN p : (\E i \in DOMAIN q : p[j] = q[i]) \/ \E i \in DOMAIN out : p[j] = out[i]
  /\ \A i \in DOMAIN q : i = 1 \/ \E j \in DOMAIN p : p[j] = q[i]
  /\ \A i \in DOMAIN out : \E j \in DOMAIN p : p[j] = out[i]

LEMMA TailReplaces ==
  ASSUME NEW q, AirInv(q), q # <<>>, NEW out, AirInv(out)
  PROVE  Replaced(q, Tail(q) \o out, out)
<1> DEFINE F == FrameType \cup {Tick}
           u == Tail(q)
           p == u \o out
<1>1. q \in Seq(F) /\ out \in Seq(F) /\ q # <<>>
  BY DEF AirInv
<1> HIDE DEF F
<1>2. u \in Seq(F) /\ Len(u) = Len(q) - 1 /\ Len(q) \in Nat /\ Len(q) > 0 /\ Len(out) \in Nat
      /\ \A i \in 1 .. Len(q) - 1 : u[i] = q[i + 1]
  BY <1>1
<1> HIDE DEF u
<1>3. DOMAIN q = 1 .. Len(q) /\ DOMAIN out = 1 .. Len(out) /\ DOMAIN u = 1 .. Len(u)
  BY <1>1, <1>2
<1>4. /\ Len(p) = Len(u) + Len(out) /\ DOMAIN p = 1 .. Len(p)
      /\ \A i \in 1 .. Len(u) : p[i] = u[i]
      /\ \A i \in 1 .. Len(out) : p[Len(u) + i] = out[i]
  <2>1. u \in Seq(F) /\ out \in Seq(F)
    BY <1>1, <1>2
  <2>2. QED BY <2>1
<1> HIDE DEF p
<1>5. ASSUME NEW j \in DOMAIN p PROVE (\E i \in DOMAIN q : p[j] = q[i]) \/ \E i \in DOMAIN out : p[j] = out[i]
  <2>1. CASE j <= Len(u)
    <3>1. p[j] = q[j + 1] /\ j + 1 \in DOMAIN q
      BY <1>2, <1>3, <1>4, <2>1
    <3>2. QED BY <3>1
  <2>2. CASE j > Len(u)
    <3>1. j - Len(u) \in 1 .. Len(out) /\ Len(u) + (j - Len(u)) = j
      BY <1>2, <1>4, <2>2
    <3>2. p[j] = out[j - Len(u)]
      BY <1>4, <3>1
    <3>3. QED BY <1>3, <3>1, <3>2
  <2>3. QED BY <1>2, <1>4, <2>1, <2>2
<1>6. ASSUME NEW i \in DOMAIN q, i # 1 PROVE \E j \in DOMAIN p : p[j] = q[i]
  <2>1. i - 1 \in 1 .. Len(u) /\ (i - 1) + 1 = i
    BY <1>2, <1>3, <1>6
  <2>2. p[i - 1] = q[i] /\ i - 1 \in DOMAIN p
    BY <1>2, <1>4, <2>1
  <2>3. QED BY <2>2
<1>7. ASSUME NEW i \in DOMAIN out PROVE \E j \in DOMAIN p : p[j] = out[i]
  <2>1. Len(u) + i \in DOMAIN p /\ p[Len(u) + i] = out[i]
    BY <1>2, <1>3, <1>4
  <2>2. QED BY <2>1
<1>8. QED BY <1>5, <1>6, <1>7 DEF Replaced, p, u

LEMMA AppendReplaces ==
  ASSUME NEW q, AirInv(q), NEW out, AirInv(out)
  PROVE  Replaced(q, q \o out, out) /\ \A i \in DOMAIN q : \E j \in DOMAIN (q \o out) : (q \o out)[j] = q[i]
<1> DEFINE F == FrameType \cup {Tick}
           p == q \o out
<1>1. q \in Seq(F) /\ out \in Seq(F)
  BY DEF AirInv
<1> HIDE DEF F
<1>2. Len(q) \in Nat /\ Len(out) \in Nat /\ DOMAIN q = 1 .. Len(q) /\ DOMAIN out = 1 .. Len(out)
  BY <1>1
<1>3. /\ Len(p) = Len(q) + Len(out) /\ DOMAIN p = 1 .. Len(p)
      /\ \A i \in 1 .. Len(q) : p[i] = q[i]
      /\ \A i \in 1 .. Len(out) : p[Len(q) + i] = out[i]
  BY <1>1
<1> HIDE DEF p
<1>4. ASSUME NEW j \in DOMAIN p PROVE (\E i \in DOMAIN q : p[j] = q[i]) \/ \E i \in DOMAIN out : p[j] = out[i]
  <2>1. CASE j <= Len(q)
    BY <1>2, <1>3, <2>1
  <2>2. CASE j > Len(q)
    <3>1. j - Len(q) \in 1 .. Len(out) /\ Len(q) + (j - Len(q)) = j
      BY <1>2, <1>3, <2>2
    <3>2. p[j] = out[j - Len(q)]
      BY <1>3, <3>1
    <3>3. QED BY <1>2, <3>1, <3>2
  <2>3. QED BY <1>2, <1>3, <2>1, <2>2
<1>5. ASSUME NEW i \in DOMAIN q PROVE \E j \in DOMAIN p : p[j] = q[i]
  <2>1. i \in DOMAIN p /\ p[i] = q[i]
    BY <1>2, <1>3
  <2>2. QED BY <2>1
<1>6. ASSUME NEW i \in DOMAIN out PROVE \E j \in DOMAIN p : p[j] = out[i]
  <2>1. Len(q) + i \in DOMAIN p /\ p[Len(q) + i] = out[i]
    BY <1>2, <1>3
  <2>2. QED BY <2>1
<1>7. QED BY <1>4, <1>5, <1>6 DEF Replaced, p

\* Only the queue changes: no frame is new, and none is gone that somebody waits for.
LEMMA FloodingQueue ==
  ASSUME NEW S, NEW q, NEW f, Flooding(S, q, f), NEW p,
         \A j \in DOMAIN p : p[j] = Tick \/ \E i \in DOMAIN q : p[j] = q[i],
         \A s \in Switches : \A l \in Ports(s) :
            l \in ActiveOf(S) /\ Knew(S[s], f) /\ ~ Knew(S[Other(l, s)], f) /\ Coming(q, Other(l, s), l) =>
               Coming(p, Other(l, s), l)
  PROVE  Flooding(S, p, f)
<1>0. Tick.is.kind = "tick"
  BY DEF Tick
<1>1. \A j \in DOMAIN p : p[j].is.kind \in {"data", "tick"}
  BY <1>0 DEF Flooding
<1>2. \A j \in DOMAIN p : p[j].is.kind = "data" => SentOn(S, f, p[j])
  BY <1>0 DEF Flooding, Spreading
<1>3. \A s \in Switches : \A l \in Ports(s) :
        l \in ActiveOf(S) /\ Knew(S[s], f) /\ ~ Knew(S[Other(l, s)], f) => Coming(p, Other(l, s), l)
  BY DEF Flooding, Spreading
<1>4. Spreading(S, p, f)
  BY <1>2, <1>3 DEF Flooding, Spreading
<1>5. QED BY <1>1, <1>4 DEF Flooding

\* The frame that comes first brings broadcast f to s on l, where it forwards.
LEMMA FirstWay ==
  ASSUME NEW S, SwInv(S), Sane(S), NEW q, NEW f, Flooding(S, q, f), NEW s \in Switches, NEW l \in Ports(s),
         q # <<>>, 1 \in DOMAIN q, q[1].to = s, q[1].on = l, q[1].is.kind = "data", Open(S[s], l)
  PROVE  LeadsHome(ActiveOf(S), s, l) /\ Knew(S[Other(l, s)], f)
<1> DEFINE a == Other(l, s)
           E == ActiveOf(S)
           m == S[a].mac
<1>0. a \in Switches /\ l \in Ports(a) /\ Other(l, a) = s /\ {End1[l], End2[l]} = {s, a} /\ l \in Links
  BY OtherEnd
<1>1. Knew(S[a], f) /\ m # l /\ Open(S[a], l)
  BY DEF Flooding, Spreading, SentOn
<1>2. l \in E
  <2>1. l \in PluggedOf(S)
    BY <1>0, OpenIsLive
  <2>2. Open(S[End1[l]], l) /\ Open(S[End2[l]], l)
    BY <1>0, <1>1
  <2>3. QED BY <2>1, <2>2, ActiveOpen
<1>3. m # None /\ m \in Links \cup {StationPort, None}
  BY <1>0, <1>1 DEF Flooding, Spreading, SwInv, SwitchType
<1>4. Joined(E \ {l}, a, Home)
  <2>1. CASE m = StationPort
    <3>1. a = Home
      BY <1>0, <2>1 DEF Flooding, Sits
    <3> DEFINE F == E \ {l}
    <3> HIDE DEF F, a
    <3>2. Joined(F, a, Home)
      BY <3>1, JoinedIs
    <3>3. QED BY <3>2 DEF F
  <2>2. CASE m \in Links
    <3>1. m \in Ports(a) /\ LeadsHome(E, a, m)
      BY <1>0, <2>2 DEF Flooding, Sits, Way
    <3>2. NoLoop(E) /\ E \in SUBSET Links
      BY DEF Flooding, Spanning, ActiveOf, PluggedOf
    <3> HIDE DEF E, a, m
    <3>3. QED BY <1>0, <1>1, <1>2, <3>1, <3>2, NextWay
  <2>3. QED BY <1>3, <2>1, <2>2
<1>5. QED BY <1>1, <1>2, <1>4 DEF LeadsHome

\* s, which has learnt the station on l, or is its own switch, sends f to all others.
SendsOn(S, s, l, f, ls, out) ==
  /\ ls = {k \in S[s].live \ {l} : Open(S[s], k)}
  /\ \E what : OnePerPort(s, ls, what, out) /\ \A k \in ls : what[k] = [kind |-> "data", id |-> f]

LEMMA SendsOnIs ==
  ASSUME NEW S, SwInv(S), NEW s \in Switches, NEW l, NEW f, NEW ls, NEW out, SendsOn(S, s, l, f, ls, out)
  PROVE  /\ AirInv(out)
         /\ \A i \in DOMAIN out : /\ out[i].is.kind = "data" /\ out[i].is.id = f /\ out[i].on \in ls
                                  /\ Other(out[i].on, out[i].to) = s
         /\ \A k \in ls : Coming(out, Other(k, s), k)
<1>1. PICK what : OnePerPort(s, ls, what, out) /\ \A k \in ls : what[k] = [kind |-> "data", id |-> f]
  BY DEF SendsOn
<1>2. ls \in SUBSET Ports(s)
  BY DEF SendsOn, SwInv, Fit
<1>3. AirInv(out) /\ \A i \in DOMAIN out : out[i].to = Other(out[i].on, s) /\ out[i].is = what[out[i].on]
  <2>1. OnePerPort(s, ls, what, out)
    BY <1>1
  <2>2. AirInv(out)
    BY <1>2, <2>1, SentFrames
  <2>3. \A i \in DOMAIN out : out[i].to = Other(out[i].on, s) /\ out[i].is = what[out[i].on]
    BY <1>2, <2>1, SentFrames
  <2>4. QED BY <2>2, <2>3
<1>4. \A i \in DOMAIN out : out[i].on \in ls /\ out[i].is.kind = "data" /\ out[i].is.id = f
  BY <1>1, <1>3 DEF OnePerPort
<1>5. ASSUME NEW i \in DOMAIN out PROVE Other(out[i].on, out[i].to) = s
  BY <1>2, <1>3, <1>4, OtherEnd
<1>6. ASSUME NEW k \in ls PROVE Coming(out, Other(k, s), k)
  <2>1. PICK i \in DOMAIN out : out[i].on = k
    BY <1>1 DEF OnePerPort
  <2>2. QED BY <1>3, <1>4, <2>1 DEF Coming
<1>7. QED BY <1>3, <1>4, <1>5, <1>6

\* s learns the station on l and sends on what it has received there.
Learns(S, T, q, s, l, f) ==
  /\ Alike(S, T) /\ AirInv(q) /\ q # <<>> /\ 1 \in DOMAIN q
  /\ q[1].to = s /\ q[1].on = l /\ q[1].is.kind = "data" /\ Open(S[s], l) /\ ~ Knew(S[s], f)
  /\ T[s].mac = l /\ T[s].seen = S[s].seen \cup {f} /\ \A t \in Switches \ {s} : T[t] = S[t]

LEMMA LearnsFlooding ==
  ASSUME NEW S, NEW T, NEW q, NEW f, Flooding(S, q, f), NEW s \in Switches, NEW l \in Ports(s),
         Learns(S, T, q, s, l, f), NEW ls, NEW out, SendsOn(S, s, l, f, ls, out), NEW p, p = Tail(q) \o out
  PROVE  Flooding(T, p, f)
<1>0. /\ SwInv(S) /\ SwInv(T) /\ Sane(S) /\ Sane(T) /\ l \in Links /\ AirInv(q) /\ q # <<>>
      /\ ActiveOf(T) = ActiveOf(S) /\ PluggedOf(T) = PluggedOf(S)
      /\ \A t \in Switches, k \in Links : Open(T[t], k) <=> Open(S[t], k)
  BY AlikeIs, OtherEnd DEF Learns, Alike
<1>1. LeadsHome(ActiveOf(S), s, l) /\ Knew(S[Other(l, s)], f)
  BY <1>0, FirstWay DEF Learns
<1>2. /\ AirInv(out)
      /\ \A i \in DOMAIN out : /\ out[i].is.kind = "data" /\ out[i].is.id = f /\ out[i].on \in ls
                               /\ Other(out[i].on, out[i].to) = s
      /\ \A k \in ls : Coming(out, Other(k, s), k)
  BY <1>0, SendsOnIs
<1>3. Replaced(q, p, out)
  BY <1>0, <1>2, TailReplaces
<1>4. \A t \in Switches : Knew(T[t], f) <=> t = s \/ Knew(S[t], f)
  BY DEF Learns, Knew
<1>5. T[s].mac = l /\ l # None /\ l # StationPort /\ \A t \in Switches \ {s} : T[t] = S[t]
  BY <1>0, NoneIsNoPort DEF Learns
<1>6. s # Home /\ Home \in Switches
  BY StpAssumption DEF Learns, Flooding, Spreading
<1>7. Sits(T)
  BY <1>5 DEF Flooding, Sits
<1>8. Counted(T) /\ Spanning(T)
  BY AlikeIs DEF Flooding, Learns
<1>9. Way(T)
  BY <1>0, <1>1, <1>5 DEF Flooding, Way
<1>10. \A t \in Switches : T[t].tcOut = None
  BY DEF Flooding, Learns, Alike
<1>11. \A j \in DOMAIN p : p[j].is.kind \in {"data", "tick"}
  BY <1>2, <1>3 DEF Flooding, Replaced
<1>12. ASSUME NEW j \in DOMAIN p, p[j].is.kind = "data" PROVE SentOn(T, f, p[j])
  <2>1. CASE \E i \in DOMAIN q : p[j] = q[i]
    <3>1. SentOn(S, f, p[j]) /\ p[j] # Tick
      BY <1>12, <2>1 DEF Flooding, Spreading, Tick
    <3>2. Frame(p[j])
      BY <1>0, <2>1, <3>1 DEF AirInv
    <3> DEFINE g == p[j]
               a == Other(g.on, g.to)
    <3>3. a \in Switches /\ g.on \in Links
      BY <3>2, OtherEnd DEF Frame, FrameType
    <3>4. Knew(S[a], f) /\ g.is.id = f /\ S[a].mac # g.on /\ Open(S[a], g.on)
      BY <3>1 DEF SentOn
    <3>5. a # s
      BY <3>4 DEF Learns
    <3>6. T[a] = S[a]
      BY <1>5, <3>3, <3>5
    <3>7. QED BY <3>4, <3>6 DEF SentOn
  <2>2. CASE \E i \in DOMAIN out : p[j] = out[i]
    <3>1. p[j].is.id = f /\ p[j].on \in ls /\ Other(p[j].on, p[j].to) = s
      BY <1>2, <2>2
    <3>2. p[j].on # l /\ p[j].on \in Links /\ Open(S[s], p[j].on)
      BY <1>0, <3>1 DEF SendsOn, SwInv, SwitchType
    <3>3. QED BY <1>0, <1>4, <1>5, <3>1, <3>2 DEF SentOn
  <2>3. QED BY <1>3, <2>1, <2>2 DEF Replaced
<1>13. ASSUME NEW t \in Switches, NEW k \in Ports(t), k \in ActiveOf(T), Knew(T[t], f), ~ Knew(T[Other(k, t)], f)
       PROVE  Coming(p, Other(k, t), k)
  <2>0. Other(k, t) \in Switches /\ k \in Links /\ {End1[k], End2[k]} = {t, Other(k, t)} /\ k \in Ports(Other(k, t))
    BY OtherEnd
  <2>1. CASE t = s
    <3>1. k # l
      BY <1>1, <1>4, <1>13, <2>0, <2>1
    <3>2. k \in PluggedOf(S) /\ Open(S[End1[k]], k) /\ Open(S[End2[k]], k)
      BY <1>0, <1>13, ActiveOpen DEF ActiveOf
    <3>3. Open(S[s], k)
      BY <2>0, <2>1, <3>2
    <3>4. k \in ls
      BY <1>0, <2>0, <3>1, <3>3, OpenIsLive DEF SendsOn
    <3>5. PICK i \in DOMAIN out : out[i].is.kind = "data" /\ out[i].to = Other(k, s) /\ out[i].on = k
      BY <1>2, <3>4 DEF Coming
    <3>6. QED BY <1>3, <2>1, <3>5 DEF Replaced, Coming
  <2>2. CASE t # s
    <3>1. Knew(S[t], f) /\ ~ Knew(S[Other(k, t)], f) /\ Other(k, t) # s
      BY <1>4, <1>13, <2>0, <2>2
    <3>2. Coming(q, Other(k, t), k)
      BY <1>0, <1>13, <3>1 DEF Flooding, Spreading
    <3>3. PICK i \in DOMAIN q : q[i].is.kind = "data" /\ q[i].to = Other(k, t) /\ q[i].on = k
      BY <3>2 DEF Coming
    <3>4. i # 1
      BY <3>1, <3>3 DEF Learns
    <3>5. QED BY SMTT(60), <1>3, <3>3, <3>4 DEF Replaced, Coming
  <2>3. QED BY <2>1, <2>2
<1>14. Knew(T[Home], f) /\ T[Home].mac = StationPort /\ \A t \in Switches : Knew(T[t], f) => T[t].mac # None
  BY <1>4, <1>5, <1>6 DEF Flooding, Spreading
<1>15. Spreading(T, p, f)
  BY <1>12, <1>13, <1>14 DEF Spreading
<1>16. QED BY <1>7, <1>8, <1>9, <1>10, <1>11, <1>15 DEF Flooding

\* The station talks at rest: nobody else has this broadcast yet.
LEMMA TalkFlooding ==
  ASSUME NEW S, NEW T, Alike(S, T), Near(S), NEW q, AirInv(q), \A i \in DOMAIN q : q[i].is.kind = "tick",
         Ready(S, q), \A t \in Switches : S[t].tcOut = None, NEW f, \A t \in Switches : ~ Knew(S[t], f),
         T[Home].mac = StationPort, Knew(T[Home], f), \A t \in Switches \ {Home} : T[t] = S[t],
         NEW ls, NEW out, SendsOn(S, Home, StationPort, f, ls, out), NEW p, p = q \o out
  PROVE  Flooding(T, p, f)
<1>0. /\ SwInv(S) /\ SwInv(T) /\ Sane(S) /\ Sane(T) /\ Home \in Switches
      /\ ActiveOf(T) = ActiveOf(S) /\ PluggedOf(T) = PluggedOf(S)
      /\ \A t \in Switches, k \in Links : Open(T[t], k) <=> Open(S[t], k)
  BY AlikeIs, StpAssumption DEF Alike
<1>1. /\ AirInv(out)
      /\ \A i \in DOMAIN out : /\ out[i].is.kind = "data" /\ out[i].is.id = f /\ out[i].on \in ls
                               /\ Other(out[i].on, out[i].to) = Home
      /\ \A k \in ls : Coming(out, Other(k, Home), k)
  BY <1>0, SendsOnIs
<1>2. Replaced(q, p, out)
  BY <1>1, AppendReplaces
<1>3. \A t \in Switches : Knew(T[t], f) <=> t = Home
  BY <1>0
<1>4. Way(S)
  <2>1. Silent(S, q)
    BY DEF Silent
  <2>2. QED BY <2>1, WayIs
<1>5. StationPort \notin Links /\ None # StationPort
  BY NoneIsNoPort
<1>6. Sits(T)
  <2>1. \A s \in Switches : S[s].mac \in Links => S[s].mac \in Ports(s)
    BY DEF Ready, Placed, Ports
  <2>2. \A s \in Switches : S[s].mac = StationPort => s = Home
    BY DEF Ready, Placed
  <2>3. QED BY <1>5, <2>1, <2>2 DEF Sits
<1>7. Counted(T) /\ Spanning(T)
  BY NearSpans, AlikeIs DEF Ready
<1>8. Way(T)
  BY <1>0, <1>4, <1>5 DEF Way
<1>9. \A t \in Switches : T[t].tcOut = None
  BY DEF Alike
<1>10. \A j \in DOMAIN p : p[j].is.kind \in {"data", "tick"}
  BY <1>1, <1>2 DEF Replaced
<1>11. ASSUME NEW j \in DOMAIN p, p[j].is.kind = "data" PROVE SentOn(T, f, p[j])
  <2>1. \E i \in DOMAIN out : p[j] = out[i]
    BY <1>2, <1>11 DEF Replaced
  <2>2. p[j].is.id = f /\ p[j].on \in ls /\ Other(p[j].on, p[j].to) = Home
    BY <1>1, <2>1
  <2>3. p[j].on # StationPort /\ p[j].on \in Links /\ Open(S[Home], p[j].on)
    BY <1>0, <2>2 DEF SendsOn, SwInv, SwitchType
  <2>4. QED BY <1>0, <2>2, <2>3 DEF SentOn
<1>12. ASSUME NEW t \in Switches, NEW k \in Ports(t), k \in ActiveOf(T), Knew(T[t], f), ~ Knew(T[Other(k, t)], f)
       PROVE  Coming(p, Other(k, t), k)
  <2>0. k \in Links /\ {End1[k], End2[k]} = {t, Other(k, t)}
    BY OtherEnd
  <2>1. t = Home
    BY <1>3, <1>12
  <2>2. k \in PluggedOf(S) /\ Open(S[End1[k]], k) /\ Open(S[End2[k]], k)
    BY <1>0, <1>12, ActiveOpen DEF ActiveOf
  <2>3. Open(S[Home], k)
    BY <2>0, <2>1, <2>2
  <2>4. k \in ls
    BY <1>0, <1>5, <2>0, <2>3, OpenIsLive DEF SendsOn
  <2>5. PICK i \in DOMAIN out : out[i].is.kind = "data" /\ out[i].to = Other(k, Home) /\ out[i].on = k
    BY <1>1, <2>4 DEF Coming
  <2>6. QED BY <1>2, <2>1, <2>5 DEF Replaced, Coming
<1>13. \A t \in Switches : Knew(T[t], f) => T[t].mac # None
  BY <1>3, <1>5
<1>14. Spreading(T, p, f)
  BY <1>11, <1>12, <1>13 DEF Spreading
<1>15. QED BY <1>6, <1>7, <1>8, <1>9, <1>10, <1>14 DEF Flooding

-------------------------------------------------------------------------------
(* The steps *)

NoData(q) == \A i \in DOMAIN q : q[i].is.kind # "data"

\* What everybody has learnt leads home, as far as broadcasts and changes have come.
InWay(S, q, d, f) ==
  /\ \A s \in Switches : S[s].seen \subseteq 1 .. f
  /\ NoData(q) => Ready(S, q)
  /\ ~ NoData(q) => Flooding(S, q, f) /\ d = <<>>

WayInv == ~ stopped => InWay(sw, air, due, frames)

\* The frames of out carry what a says on each port.
SentBy(a, what, out) ==
  AirInv(out) /\ \A i \in DOMAIN out : out[i].to = Other(out[i].on, a) /\ out[i].is = what[out[i].on]

LEMMA SentIs ==
  ASSUME NEW a \in Switches, NEW ls \in SUBSET Ports(a), NEW what, NEW out, OnePerPort(a, ls, what, out)
  PROVE  SentBy(a, what, out)
<1>1. AirInv(out) /\ \A i \in DOMAIN out : out[i].to = Other(out[i].on, a) /\ out[i].is = what[out[i].on]
  BY SentFrames
<1>2. QED BY <1>1 DEF SentBy

AllAnnounce(S, T, N) == \A s \in Switches : Announces(s, S[s], T[s], N)

NewsOf(S, q, N) == \A id \in Switches \X Nat : id \in N => IsNews(S, q, id)

\* The frames of p are some of q and of out.
Within(q, p, out) == \A j \in DOMAIN p : (\E i \in DOMAIN q : p[j] = q[i]) \/ \E i \in DOMAIN out : p[j] = out[i]

\* The topology changes the frames of out tell.
SaidIn(S, T, out) ==
  \A i \in DOMAIN out : out[i].is.kind = "bpdu" =>
     out[i].is.tc = None \/ \E s \in Switches : out[i].is.tc \in {S[s].tcOut, T[s].tcOut}

LEMMA OneKeeps ==
  ASSUME NEW S, NEW T, SwInv(S), SwInv(T), Sane(S), Sane(T), NEW a \in Switches, NEW N,
         Keeps(S[a], T[a]), Announces(a, S[a], T[a], N), \A t \in Switches \ {a} : T[t] = S[t]
  PROVE  AllKeep(S, T) /\ AllAnnounce(S, T, N)
<1>1. ASSUME NEW s \in Switches PROVE Keeps(S[s], T[s]) /\ Announces(s, S[s], T[s], N)
  <2>1. CASE s = a
    BY <2>1
  <2>2. CASE s # a
    <3>1. S[s] \in SwitchType /\ T[s] = S[s]
      BY <2>2 DEF SwInv
    <3>2. Tells(s, S[s], S[s], N)
      BY <3>1, TellsSame
    <3>3. QED BY <3>1, <3>2 DEF Tells
  <2>3. QED BY <2>1, <2>2
<1>2. QED BY <1>1 DEF AllKeep, AllAnnounce

LEMMA TellsMore ==
  ASSUME NEW S, NEW T, NEW q, NEW p, NEW out, NEW N, AllAnnounce(S, T, N), NewsOf(S, q, N), Within(q, p, out),
         SaidIn(S, T, out)
  PROVE  AllTell(S, T, q, p, N)
<1>1. ASSUME NEW id \in Switches \X Nat, IsNews(T, p, id)
      PROVE  IsNews(S, q, id) \/ \E s \in Switches : T[s].tcOut = id
  <2>1. SUFFICES ASSUME NEW j \in DOMAIN p, p[j].is.kind = "bpdu", p[j].is.tc = id
                 PROVE  IsNews(S, q, id) \/ \E s \in Switches : T[s].tcOut = id
    BY <1>1 DEF IsNews
  <2>2. id # None
    BY StpAssumption
  <2>3. CASE \E i \in DOMAIN q : p[j] = q[i]
    BY <2>1, <2>3 DEF IsNews
  <2>4. CASE \E i \in DOMAIN out : p[j] = out[i]
    <3>1. \E s \in Switches : id \in {S[s].tcOut, T[s].tcOut}
      BY <2>1, <2>2, <2>4 DEF SaidIn
    <3>2. QED BY <3>1 DEF IsNews
  <2>5. QED BY <2>3, <2>4 DEF Within
<1>2. QED BY <1>1 DEF AllTell, AllAnnounce, NewsOf

LEMMA PassesIs ==
  ASSUME NEW S, NEW T, NEW q, NEW p,
         \A s \in Switches : \A l \in Ports(s) :
            l \in PluggedOf(S) /\ l \in PluggedOf(T) /\ S[s].tcOut # None => Telling(T, p, s, l),
         \A i \in DOMAIN q : q[i].is.kind = "bpdu" /\ q[i].is.tc # None /\ q[i].on \in PluggedOf(T) =>
            T[q[i].to].mac = None \/ \E j \in DOMAIN p : p[j] = q[i]
  PROVE  Passes(S, T, q, p)
<1> SUFFICES ASSUME NEW s \in Switches, NEW l \in Ports(s), l \in PluggedOf(S), l \in PluggedOf(T),
                    T[Other(l, s)].mac # None, Telling(S, q, s, l)
             PROVE  Telling(T, p, s, l)
  BY DEF Passes
<1>1. CASE S[s].tcOut # None
  BY <1>1
<1>2. CASE ToldOn(q, Other(l, s), l)
  <2>1. PICK i \in DOMAIN q : /\ q[i].to = Other(l, s) /\ q[i].on = l /\ q[i].is.kind = "bpdu"
                              /\ q[i].is.tc # None
    BY <1>2 DEF ToldOn, Mine
  <2>2. PICK j \in DOMAIN p : p[j] = q[i]
    BY <2>1
  <2>3. QED BY <2>1, <2>2 DEF Telling, ToldOn, Mine
<1>3. QED BY <1>1, <1>2 DEF Telling

LEMMA SamePlugged ==
  ASSUME NEW S, NEW T, \A s \in Switches : T[s].live = S[s].live
  PROVE  PluggedOf(T) = PluggedOf(S) /\ NewCables(S, T)
<1>1. \A l \in Links : End1[l] \in Switches
  BY StpAssumption
<1>2. PluggedOf(T) = PluggedOf(S)
  BY <1>1 DEF PluggedOf
<1>3. QED BY <1>2 DEF NewCables

\* Only the queue changes, and not by a BPDU.
LEMMA ReadyQueue ==
  ASSUME NEW S, SwInv(S), Sane(S), NEW q, Ready(S, q), NEW p,
         \A j \in DOMAIN p : p[j] = Tick \/ \E i \in DOMAIN q : p[j] = q[i],
         \A i \in DOMAIN q : q[i].is.kind = "bpdu" => \E j \in DOMAIN p : p[j] = q[i]
  PROVE  Ready(S, p)
<1> DEFINE N == {}
           out == <<Tick>>
<1>1. AllKeep(S, S) /\ AllAnnounce(S, S, N)
  <2>1. \A s \in Switches : Tells(s, S[s], S[s], N)
    BY TellsSame DEF SwInv
  <2> HIDE DEF N
  <2>2. QED BY <2>1 DEF Tells, AllKeep, AllAnnounce
<1>2. \A i \in DOMAIN out : out[i] = Tick
  OBVIOUS
<1>3. Tick.is.kind # "bpdu"
  BY DEF Tick
<1>4. Within(q, p, out)
  <2>1. 1 \in DOMAIN out /\ out[1] = Tick
    OBVIOUS
  <2> HIDE DEF out
  <2>2. QED BY <2>1 DEF Within
<1>5. NewsOf(S, q, N)
  BY DEF NewsOf
<1> HIDE DEF N, out
<1>6. AllTell(S, S, q, p, N)
  <2>1. SaidIn(S, S, out)
    BY <1>2, <1>3 DEF SaidIn
  <2>2. QED BY <1>1, <1>4, <1>5, <2>1, TellsMore
<1>7. Passes(S, S, q, p)
  <2>1. \A s \in Switches : \A l \in Ports(s) :
            l \in PluggedOf(S) /\ l \in PluggedOf(S) /\ S[s].tcOut # None => Telling(S, p, s, l)
    BY DEF Telling
  <2>2. \A i \in DOMAIN q : q[i].is.kind = "bpdu" /\ q[i].is.tc # None /\ q[i].on \in PluggedOf(S) =>
            S[q[i].to].mac = None \/ \E j \in DOMAIN p : p[j] = q[i]
    OBVIOUS
  <2>3. QED BY <2>1, <2>2, PassesIs
<1>8. NewCables(S, S)
  BY DEF NewCables
<1>9. QED BY <1>1, <1>6, <1>7, <1>8, ReadyStays

\* Switch a tells what it has to tell on all its cables.
Spoke(v, w) ==
  /\ w.live = v.live /\ w.role = v.role /\ w.mac = v.mac /\ w.seen = v.seen
  /\ w.tcSeq = v.tcSeq /\ w.tcSeen = v.tcSeen /\ w.tcOut = None

LEMMA SpokenReady ==
  ASSUME NEW S, NEW T, SwInv(S), SwInv(T), Sane(S), Sane(T), NEW q, AirInv(q), Ready(S, q), NoData(q),
         NEW a \in Switches, Spoke(S[a], T[a]), \A t \in Switches \ {a} : T[t] = S[t],
         NEW ls, ls = S[a].live, NEW what, \A l \in ls : what[l] = Bpdu(a, S[a], l),
         NEW out, OnePerPort(a, ls, what, out), NEW p, p = q \o out
  PROVE  Ready(T, p) /\ NoData(p)
<1> DEFINE N == {}
<1>0. ls \in SUBSET Ports(a) /\ ls \subseteq Links
  BY DEF SwInv, Fit, SwitchType
<1>1. AirInv(out)
  BY <1>0, SentFrames
<1>2. \A i \in DOMAIN out : out[i].on \in ls /\ out[i].to = Other(out[i].on, a) /\ out[i].is = what[out[i].on]
  <2>1. OnePerPort(a, ls, what, out)
    OBVIOUS
  <2>2. ls \in SUBSET Ports(a)
    BY <1>0
  <2>3. SentBy(a, what, out)
    BY <2>1, <2>2, SentIs
  <2>4. QED BY <2>1, <2>3 DEF OnePerPort, SentBy
<1>3. \A i \in DOMAIN out : out[i].is.kind = "bpdu" /\ out[i].is.tc = S[a].tcOut
  <2>1. ASSUME NEW i \in DOMAIN out PROVE out[i].is.kind = "bpdu" /\ out[i].is.tc = S[a].tcOut
    <3>1. out[i].is = Bpdu(a, S[a], out[i].on)
      BY <1>2
    <3>2. QED BY <3>1 DEF Bpdu
  <2>2. QED BY <2>1
<1>4. Replaced(q, p, out) /\ \A i \in DOMAIN q : \E j \in DOMAIN p : p[j] = q[i]
  BY <1>1, AppendReplaces
<1>5. Keeps(S[a], T[a])
  BY DEF Spoke, Keeps, Open
<1>6. Announces(a, S[a], T[a], N)
  <2>1. S[a].tcSeq \in Nat
    BY DEF SwInv, SwitchType
  <2>2. QED BY <2>1 DEF Spoke, Announces, Marked
<1>7. NewsOf(S, q, N)
  BY DEF NewsOf
<1> HIDE DEF N
<1>8. AllKeep(S, T) /\ AllAnnounce(S, T, N)
  BY <1>5, <1>6, OneKeeps
<1>9. AllTell(S, T, q, p, N)
  <2>1. SaidIn(S, T, out)
    BY <1>3 DEF SaidIn
  <2>2. Within(q, p, out)
    BY <1>4 DEF Replaced, Within
  <2>3. AllAnnounce(S, T, N)
    BY <1>8
  <2>4. QED BY <1>7, <2>1, <2>2, <2>3, TellsMore
<1>10. ASSUME NEW s \in Switches, NEW l \in Ports(s), l \in PluggedOf(S), S[s].tcOut # None
       PROVE  Telling(T, p, s, l)
  <2>1. CASE s # a
    BY <1>10, <2>1 DEF Telling
  <2>2. CASE s = a
    <3>1. l \in ls
      BY <1>10, <2>2, InPlugged
    <3>2. PICK i \in DOMAIN out : out[i].on = l
      BY <3>1 DEF OnePerPort
    <3>3. PICK j \in DOMAIN p : p[j] = out[i]
      BY <1>4 DEF Replaced
    <3>4. p[j].to = Other(l, s) /\ p[j].on = l /\ p[j].is.kind = "bpdu" /\ p[j].is.tc # None
      BY <1>2, <1>3, <1>10, <2>2, <3>2, <3>3
    <3>5. QED BY <3>4 DEF Telling, ToldOn, Mine
  <2>3. QED BY <2>1, <2>2
<1>11. Passes(S, T, q, p)
  <2>1. \A s \in Switches : \A l \in Ports(s) :
            l \in PluggedOf(S) /\ l \in PluggedOf(T) /\ S[s].tcOut # None => Telling(T, p, s, l)
    BY <1>10
  <2>2. \A i \in DOMAIN q : q[i].is.kind = "bpdu" /\ q[i].is.tc # None /\ q[i].on \in PluggedOf(T) =>
            T[q[i].to].mac = None \/ \E j \in DOMAIN p : p[j] = q[i]
    BY <1>4
  <2>3. QED BY <2>1, <2>2, PassesIs
<1>12. NewCables(S, T)
  BY SamePlugged DEF Spoke
<1>13. Ready(T, p)
  BY <1>8, <1>9, <1>11, <1>12, ReadyStays
<1>14. NoData(p)
  BY <1>3, <1>4 DEF Replaced, NoData
<1>15. QED BY <1>13, <1>14

LEMMA SaneIs ==
  ASSUME TInv, TreeInv, ~ stopped
  PROVE  SwInv(sw) /\ AirInv(air) /\ Sane(sw) /\ Talking(sw, air)
BY TalkingIs DEF TInv, TreeInv

\* No broadcast is under way, and none has been sent.
LEMMA ReadyWay ==
  ASSUME NEW S, NEW q, NEW d, NEW f, \A s \in Switches : S[s].seen \subseteq 1 .. f, NoData(q), Ready(S, q)
  PROVE  InWay(S, q, d, f)
BY DEF InWay

LEMMA SendTimerWay ==
  ASSUME TInv, TreeInv, WayInv, SendTimer PROVE WayInv'
<1> SUFFICES ASSUME ~ stopped' PROVE InWay(sw', air', due', frames')
  BY DEF WayInv
<1> DEFINE s == Head(due)
           w == sw[s]
           x == [w EXCEPT !.pending = FALSE, !.tcOut = IF w.on THEN None ELSE @]
           ls == {l \in w.live : w.role[l] # "none"}
           what == [l \in w.live |-> Bpdu(s, w, l)]
           out == Frames(s, ls, what)
           S == sw
           T == sw'
           p == air'
<1>0. ~ stopped /\ due # <<>> /\ frames' = frames
  BY DEF SendTimer
<1>1. s \in Switches
  BY DEF TInv, DueInv, SendTimer
<1>2. SwInv(S) /\ AirInv(air) /\ Sane(S)
  BY <1>0, SaneIs
<1>3. SwInv(T) /\ Sane(T)
  <2>1. TInv' /\ TreeInv'
    BY SendTimerType, SendTimerTree
  <2>2. QED BY <2>1, TalkingIs DEF TInv, TreeInv
<1>4. (\A t \in Switches : S[t].seen \subseteq 1 .. frames) /\ Ready(S, air) /\ NoData(air)
  BY <1>0 DEF WayInv, InWay
<1>5. w \in SwitchType /\ w.live \subseteq Ports(s) /\ w.live \subseteq Links /\ w.on /\ Tree(s, w)
  BY <1>1, <1>2 DEF SwInv, Fit, SwitchType, Sane
<1>6. /\ sw' = [sw EXCEPT ![s].pending = FALSE, ![s].tcOut = IF w.on THEN None ELSE @]
      /\ air' = IF w.on THEN air \o out ELSE air
  BY DEF SendTimer
<1> HIDE DEF s
<1>7. ls = w.live
  <2>1. \A l \in w.live : w.role[l] # "none"
    BY <1>1, <1>5, InCharge
  <2>2. QED BY <2>1
<1>8. x = [w EXCEPT !.pending = FALSE, !.tcOut = None]
  BY <1>5 DEF SwitchType
<1>9. sw' = [sw EXCEPT ![s] = x]
  BY <1>1, <1>2, <1>6 DEF SwInv
<1> HIDE DEF x
<1>10. Spoke(w, x)
  BY <1>5, <1>8 DEF Spoke, SwitchType
<1>11. T[s] = x /\ \A t \in Switches \ {s} : T[t] = S[t]
  BY <1>1, <1>2, <1>9 DEF SwInv
<1>12. ls \in SUBSET Ports(s) /\ (\A l \in ls : what[l] \in BpduType \cup DataType)
       /\ \A l \in ls : what[l] = Bpdu(s, w, l)
  BY <1>1, <1>5, BpdusAre
<1>13. OnePerPort(s, ls, what, out)
  <2> HIDE DEF ls, what
  <2>1. QED BY <1>1, <1>12, FramesAre
<1>14. ls = S[s].live /\ (\A l \in ls : what[l] = Bpdu(s, S[s], l)) /\ Spoke(S[s], T[s]) /\ p = air \o out
  BY <1>5, <1>6, <1>7, <1>10, <1>11, <1>12
<1> HIDE DEF ls, what, out, S, T, w, p
<1>15. Ready(T, p) /\ NoData(p)
  BY <1>1, <1>2, <1>3, <1>4, <1>11, <1>13, <1>14, SpokenReady
<1>16. \A t \in Switches : T[t].seen \subseteq 1 .. frames
  BY <1>4, <1>11, <1>14 DEF Spoke
<1> DEFINE d == due'
<1> HIDE DEF d
<1>17. InWay(T, p, d, frames)
  BY <1>15, <1>16, ReadyWay
<1>18. QED BY <1>0, <1>17 DEF T, p, d

\* The first BPDU of the queue is heard by switch a.
LEMMA TakenReady ==
  ASSUME NEW S, NEW T, NEW q, NEW a \in Switches, NEW k \in Ports(a), NEW b \in BpduType, NEW r,
         Taken(S, T, q, a, k, b, r), NEW out, Replies(T, a, k, r, out), SwInv(T), Ready(S, q), NoData(q)
  PROVE  Ready(T, Tail(q) \o out) /\ NoData(Tail(q) \o out) /\ T[a].seen = S[a].seen
<1> DEFINE N == {b.tc}
           p == Tail(q) \o out
<1> HIDE DEF p
<1>0. /\ SwInv(S) /\ AirInv(q) /\ q # <<>> /\ Sane(S) /\ Sane(T) /\ b.kind = "bpdu" /\ 1 \in DOMAIN q
      /\ q[1].to = a /\ q[1].on = k /\ q[1].is = b
      /\ T[a] = Handle(a, S[a], k, b).w /\ \A t \in Switches \ {a} : T[t] = S[t]
  <2>1. 1 \in Mine(q, a, k) /\ Sane(T)
    BY TakenHandled
  <2>2. SwInv(S) /\ Talking(S, q)
    BY DEF Taken
  <2>3. Sane(S)
    BY <2>2, TalkingIs
  <2>4. QED BY <2>1, <2>2, <2>3 DEF Taken, BpduType, Mine
<1>00. \A t \in Switches : T[t].live = S[t].live
  <2>1. Handled(a, S[a], k, b, r) /\ T[a] = r.w
    BY TakenHandled DEF Taken
  <2>2. QED BY <1>0, <2>1 DEF Handled
<1>1. S[a] \in SwitchType /\ Fit(a, S[a]) /\ k \in Links
  BY <1>0, OtherEnd DEF SwInv
<1>2. Tells(a, S[a], T[a], N) /\ (b.tc # None /\ b.tc \notin S[a].tcSeen => T[a].mac = None)
  <2> DEFINE v == S[a]
             w == Handle(a, v, k, b).w
  <2>1. T[a] = w
    BY <1>0
  <2>2. v \in SwitchType /\ Fit(a, v)
    BY <1>1
  <2>3. Tells(a, v, w, N) /\ (b.tc # None /\ b.tc \notin v.tcSeen => w.mac = None)
    <3> HIDE DEF v
    <3>1. QED BY <1>1, <2>2, HandleTells
  <2> HIDE DEF w
  <2>4. QED BY <2>1, <2>3
<1>3. NewsOf(S, q, N)
  BY <1>0 DEF NewsOf, IsNews
<1>4. b.tc # None => T[a].mac = None
  <2>1. SUFFICES ASSUME b.tc # None, b.tc \in S[a].tcSeen PROVE T[a].mac = None
    BY <1>2
  <2>2. b.tc \in Switches \X Nat
    BY <2>1 DEF BpduType
  <2>3. S[a].mac = None
    BY <1>3, <2>1, <2>2 DEF Ready, Noted, Unlearnt, NewsOf
  <2>4. QED BY <1>2, <2>3 DEF Tells, Keeps
<1> DEFINE ls == IF r.reply THEN {k} ELSE {}
           what == [j \in {k} |-> Bpdu(a, T[a], j)]
<1>5. OnePerPort(a, ls, what, out) /\ ls \in SUBSET Ports(a) /\ \A j \in ls : what[j] = Bpdu(a, T[a], j)
  BY DEF Replies
<1> HIDE DEF ls, what
<1>6. AirInv(out) /\ \A i \in DOMAIN out : out[i].on \in ls /\ out[i].is = what[out[i].on]
  <2>1. OnePerPort(a, ls, what, out)
    BY <1>5
  <2>2. ls \in SUBSET Ports(a)
    BY <1>5
  <2>3. SentBy(a, what, out)
    BY <2>1, <2>2, SentIs
  <2>4. QED BY <2>1, <2>3 DEF OnePerPort, SentBy
<1>7. \A i \in DOMAIN out : out[i].is.kind = "bpdu" /\ out[i].is.tc = T[a].tcOut
  <2>1. ASSUME NEW i \in DOMAIN out PROVE out[i].is.kind = "bpdu" /\ out[i].is.tc = T[a].tcOut
    <3>1. out[i].is = Bpdu(a, T[a], out[i].on)
      BY <1>5, <1>6
    <3>2. QED BY <3>1 DEF Bpdu
  <2>2. QED BY <2>1
<1>8. Replaced(q, p, out)
  BY <1>0, <1>6, TailReplaces DEF p
<1>9. Keeps(S[a], T[a]) /\ Announces(a, S[a], T[a], N) /\ (S[a].tcOut # None => T[a].tcOut # None)
  BY <1>2 DEF Tells
<1> HIDE DEF N
<1>10. AllKeep(S, T) /\ AllAnnounce(S, T, N)
  BY <1>0, <1>9, OneKeeps
<1>11. AllTell(S, T, q, p, N)
  <2>1. SaidIn(S, T, out)
    BY <1>7 DEF SaidIn
  <2>2. Within(q, p, out)
    BY <1>8 DEF Replaced, Within
  <2>3. AllAnnounce(S, T, N)
    BY <1>10
  <2>4. QED BY <1>3, <2>1, <2>2, <2>3, TellsMore
<1>12. Passes(S, T, q, p)
  <2>1. \A s \in Switches : \A l \in Ports(s) :
            l \in PluggedOf(S) /\ l \in PluggedOf(T) /\ S[s].tcOut # None => Telling(T, p, s, l)
    BY <1>0, <1>9 DEF Telling
  <2>2. \A i \in DOMAIN q : q[i].is.kind = "bpdu" /\ q[i].is.tc # None /\ q[i].on \in PluggedOf(T) =>
            T[q[i].to].mac = None \/ \E j \in DOMAIN p : p[j] = q[i]
    BY <1>0, <1>4, <1>8 DEF Replaced
  <2>3. QED BY <2>1, <2>2, PassesIs
<1>13. NewCables(S, T)
  BY <1>00, SamePlugged
<1>14. Ready(T, p)
  BY <1>10, <1>11, <1>12, <1>13, ReadyStays
<1>15. NoData(p)
  BY <1>7, <1>8 DEF Replaced, NoData
<1>16. QED BY <1>9, <1>14, <1>15 DEF Keeps, p

LEMMA FirstIs ==
  ASSUME TInv, NEW kind \in {"bpdu", "data", "lost"}, Comes(kind)
  PROVE  Head(air) = air[1] /\ 1 \in DOMAIN air /\ air[1].is.kind = kind /\ air # <<>>
<1>1. air # <<>> /\ Head(air).is.kind = kind
  BY DEF Comes
<1>2. AirInv(air)
  BY DEF TInv
<1>3. Head(air) = air[1]
  BY <1>1, <1>2, AirHead
<1>4. 1 \in DOMAIN air
  BY <1>1, <1>2 DEF AirInv
<1>5. QED BY <1>1, <1>3, <1>4

LEMMA ReceiveBpduWay ==
  ASSUME TInv, TreeInv, WayInv, ReceiveBpdu PROVE WayInv'
<1> SUFFICES ASSUME ~ stopped' PROVE InWay(sw', air', due', frames')
  BY DEF WayInv
<1> DEFINE a == Head(air).to
           k == Head(air).on
           b == Head(air).is
           r == Handle(a, sw[a], k, b)
           ls == IF r.reply THEN {k} ELSE {}
           what == [j \in {k} |-> Bpdu(a, r.w, j)]
           out == Frames(a, ls, what)
           S == sw
           T == sw'
           q == air
           p == air'
<1>1. Comes("bpdu") /\ Worked(a, r.w) /\ Received(out)
  BY DEF ReceiveBpdu
<1>2. ~ stopped /\ p = Tail(q) \o out /\ frames' = frames
  BY <1>1 DEF Received
<1>3. SwInv(S) /\ AirInv(q) /\ Sane(S) /\ Talking(S, q)
  BY <1>2, SaneIs
<1>4. SwInv(T) /\ Sane(T)
  <2>1. TInv' /\ TreeInv'
    BY ReceiveBpduType, ReceiveBpduTree
  <2>2. QED BY <2>1, TalkingIs DEF TInv, TreeInv
<1>5. a \in Switches /\ k \in Ports(a) /\ k \in Links /\ b \in BpduType /\ q # <<>>
      /\ sw[a] \in SwitchType /\ Fit(a, sw[a]) /\ b.kind = "bpdu"
  BY <1>1, FirstFrame
<1>6. q[1].to = a /\ q[1].on = k /\ q[1].is = b /\ 1 \in DOMAIN q
  BY <1>1, FirstIs
<1>7. (\A t \in Switches : S[t].seen \subseteq 1 .. frames) /\ NoData(q) /\ Ready(S, q)
  <2>1. q[1].is.kind = "bpdu"
    BY <1>5, <1>6
  <2>2. ~ Flooding(S, q, frames)
    BY <1>6, <2>1 DEF Flooding
  <2>3. QED BY <1>2, <2>2 DEF WayInv, InWay
<1>8. r.w \in SwitchType
  BY <1>5, HandleFits
<1>9. sw' = [sw EXCEPT ![a] = r.w]
  BY <1>1 DEF Worked
<1>10. r = Handle(a, sw[a], k, b)
  OBVIOUS
<1> HIDE DEF a, k, b, r
<1>11. T[a] = r.w /\ \A t \in Switches \ {a} : T[t] = S[t]
  BY <1>3, <1>5, <1>9 DEF SwInv
<1>12. ls \in SUBSET Ports(a) /\ \A j \in ls : what[j] \in BpduType \cup DataType
  BY <1>5, <1>8, BpdusAre
<1>13. OnePerPort(a, ls, what, out)
  <2> HIDE DEF ls, what
  <2>1. QED BY <1>5, <1>12, FramesAre
<1>14. Replies(T, a, k, r, out)
  BY <1>11, <1>13 DEF Replies
<1> HIDE DEF out, ls, what, T, p
<1>15. Taken(S, T, q, a, k, b, r)
  BY <1>3, <1>5, <1>6, <1>10, <1>11 DEF Taken
<1> HIDE DEF S, q
<1>18. Ready(T, p) /\ NoData(p) /\ T[a].seen = S[a].seen
  <2>1. a \in Switches /\ k \in Ports(a) /\ b \in BpduType
    BY <1>5
  <2>2. SwInv(T)
    BY <1>4
  <2>3. p = Tail(q) \o out
    BY <1>2 DEF p, q
  <2>4. Ready(S, q)
    BY <1>7
  <2>5. NoData(q)
    BY <1>7
  <2>6. Ready(T, Tail(q) \o out) /\ NoData(Tail(q) \o out) /\ T[a].seen = S[a].seen
    BY <1>14, <1>15, <2>1, <2>2, <2>4, <2>5, TakenReady
  <2>7. QED BY <2>3, <2>6
<1>19. \A t \in Switches : T[t].seen \subseteq 1 .. frames
  BY <1>7, <1>11, <1>18
<1> DEFINE d == due'
<1> HIDE DEF d
<1>20. InWay(T, p, d, frames)
  BY <1>18, <1>19, ReadyWay
<1>21. QED BY <1>2, <1>20 DEF T, p, d


\* No BPDU and no broadcast comes or goes on the way from queue q to p.
KeepsFrames(q, p) ==
  /\ \A j \in DOMAIN p : p[j] = Tick \/ \E i \in DOMAIN q : p[j] = q[i]
  /\ \A i \in DOMAIN q : q[i].is.kind \in {"bpdu", "data"} => \E j \in DOMAIN p : p[j] = q[i]

LEMMA KeepsFramesOn ==
  ASSUME NEW q, NEW p, NEW r, KeepsFrames(q, p), KeepsFrames(p, r)
  PROVE  KeepsFrames(q, r)
BY DEF KeepsFrames

LEMMA TailKeeps ==
  ASSUME NEW q, AirInv(q), q # <<>>, q[1].is.kind \notin {"bpdu", "data"}
  PROVE  KeepsFrames(q, Tail(q))
<1> DEFINE F == FrameType \cup {Tick}
           p == Tail(q)
<1>1. q \in Seq(F)
  BY DEF AirInv
<1> HIDE DEF F
<1>2. Len(q) \in Nat /\ DOMAIN q = 1 .. Len(q) /\ DOMAIN p = 1 .. (Len(q) - 1)
      /\ \A i \in 1 .. (Len(q) - 1) : p[i] = q[i + 1]
  BY <1>1
<1> HIDE DEF p
<1>3. ASSUME NEW j \in DOMAIN p PROVE \E i \in DOMAIN q : p[j] = q[i]
  <2>1. j + 1 \in DOMAIN q /\ p[j] = q[j + 1]
    BY <1>2
  <2>2. QED BY <2>1
<1>4. ASSUME NEW i \in DOMAIN q, q[i].is.kind \in {"bpdu", "data"} PROVE \E j \in DOMAIN p : p[j] = q[i]
  <2>1. i # 1
    BY <1>4
  <2>2. i - 1 \in 1 .. (Len(q) - 1) /\ (i - 1) + 1 = i
    BY <1>2, <2>1
  <2>3. i - 1 \in DOMAIN p /\ p[i - 1] = q[i]
    BY <1>2, <2>2
  <2>4. QED BY <2>3
<1>5. QED BY <1>3, <1>4 DEF KeepsFrames, p

LEMMA EndedKeeps ==
  ASSUME TInv
  PROVE  KeepsFrames(air, Ended)
<1> DEFINE q == air
           p == Append(q, Tick)
<1>1. AirInv(q)
  BY DEF TInv
<1>2. AirInv(p) /\ Len(p) = Len(q) + 1 /\ p[Len(q) + 1] = Tick /\ \A i \in DOMAIN q : p[i] = q[i]
  BY <1>1, AirTick
<1>3. Len(q) \in Nat /\ DOMAIN q = 1 .. Len(q) /\ DOMAIN p = 1 .. Len(p)
  BY <1>1, <1>2 DEF AirInv
<1> HIDE DEF p
<1>4. \A j \in DOMAIN p : p[j] = Tick \/ \E i \in DOMAIN q : p[j] = q[i]
  BY <1>2, <1>3
<1>5. \A i \in DOMAIN q : \E j \in DOMAIN p : p[j] = q[i]
  BY <1>2, <1>3
<1>6. KeepsFrames(q, p)
  BY <1>4, <1>5 DEF KeepsFrames
<1>7. KeepsFrames(q, q)
  BY DEF KeepsFrames
<1>8. QED BY <1>6, <1>7 DEF Ended, p

LEMMA QueueWay ==
  ASSUME NEW S, SwInv(S), Sane(S), NEW q, NEW d, NEW f, InWay(S, q, d, f), NEW p, KeepsFrames(q, p)
  PROVE  InWay(S, p, d, f)
<1>0. Tick.is.kind = "tick"
  BY DEF Tick
<1>1. NoData(p) <=> NoData(q)
  <2>1. NoData(q) => NoData(p)
    BY <1>0 DEF KeepsFrames, NoData
  <2>2. NoData(p) => NoData(q)
    BY DEF KeepsFrames, NoData
  <2>3. QED BY <2>1, <2>2
<1>2. \A j \in DOMAIN p : p[j] = Tick \/ \E i \in DOMAIN q : p[j] = q[i]
  BY DEF KeepsFrames
<1>3. \A i \in DOMAIN q : q[i].is.kind = "bpdu" => \E j \in DOMAIN p : p[j] = q[i]
  BY DEF KeepsFrames
<1>4. ASSUME NEW s, NEW l, Coming(q, s, l) PROVE Coming(p, s, l)
  BY <1>4 DEF Coming, KeepsFrames
<1>5. CASE NoData(q)
  <2>1. Ready(S, q)
    BY <1>5 DEF InWay
  <2>2. Ready(S, p)
    BY <1>2, <1>3, <2>1, ReadyQueue
  <2>3. QED BY <1>1, <1>5, <2>2 DEF InWay
<1>6. CASE ~ NoData(q)
  <2>1. Flooding(S, q, f) /\ d = <<>>
    BY <1>6 DEF InWay
  <2>2. Flooding(S, p, f)
    BY <1>2, <1>4, <2>1, FloodingQueue
  <2>3. QED BY <1>1, <1>6, <2>1, <2>2 DEF InWay
<1>7. QED BY <1>5, <1>6

LEMMA FloodingWay ==
  ASSUME NEW S, SwInv(S), Sane(S), NEW q, NEW d, NEW f, Flooding(S, q, f), d = <<>>,
         \A s \in Switches : S[s].seen \subseteq 1 .. f
  PROVE  InWay(S, q, d, f)
<1>1. NoData(q) => Ready(S, q)
  BY FloodedReady DEF NoData
<1>2. QED BY <1>1 DEF InWay

LEMMA ReceiveLostWay ==
  ASSUME TInv, TreeInv, WayInv, ReceiveLost PROVE WayInv'
<1> SUFFICES ASSUME ~ stopped' PROVE InWay(sw', air', due', frames')
  BY DEF WayInv
<1> DEFINE none == <<>>
<1>1. Comes("lost") /\ air' = Tail(air) \o none /\ sw' = sw /\ due' = due /\ frames' = frames /\ ~ stopped
  BY DEF ReceiveLost, Received
<1>2. air # <<>> /\ air[1].is.kind = "lost" /\ AirInv(Tail(air))
  BY <1>1, FirstIs, FirstFrame
<1>3. Tail(air) \o none = Tail(air)
  BY <1>2 DEF AirInv
<1> HIDE DEF none
<1>4. AirInv(air) /\ SwInv(sw) /\ Sane(sw)
  BY <1>1, SaneIs
<1>5. KeepsFrames(air, air')
  BY <1>1, <1>2, <1>3, <1>4, TailKeeps
<1>6. InWay(sw, air, due, frames)
  BY <1>1 DEF WayInv
<1> DEFINE p == air'
<1> HIDE DEF p
<1>7. InWay(sw, p, due, frames)
  BY <1>4, <1>5, <1>6, QueueWay DEF p
<1>8. QED BY <1>1, <1>7 DEF p

LEMMA TimePassesWay ==
  ASSUME TInv, TreeInv, WayInv, TimePasses PROVE WayInv'
<1> SUFFICES ASSUME ~ stopped' PROVE InWay(sw', air', due', frames')
  BY DEF WayInv
<1>1. air' = Ended /\ sw' = sw /\ due' = due /\ frames' = frames /\ ~ stopped
  BY DEF TimePasses
<1>2. SwInv(sw) /\ Sane(sw) /\ InWay(sw, air, due, frames) /\ KeepsFrames(air, Ended)
  BY <1>1, SaneIs, EndedKeeps DEF WayInv
<1>3. InWay(sw, Ended, due, frames)
  BY <1>2, QueueWay
<1>4. QED BY <1>1, <1>3

LEMMA ArriveWay ==
  ASSUME TInv, TreeInv, WayInv, Arrive PROVE WayInv'
<1> SUFFICES ASSUME ~ stopped' PROVE InWay(sw', air', due', frames')
  BY DEF WayInv
<1> DEFINE q == Ended
<1>1. air' = Tail(q) /\ sw' = sw /\ due' = due /\ frames' = frames /\ ~ stopped /\ Comes("tick")
  BY DEF Arrive, Rests
<1>2. SwInv(sw) /\ Sane(sw) /\ InWay(sw, air, due, frames) /\ KeepsFrames(air, q) /\ AirInv(q)
  BY <1>1, SaneIs, EndedKeeps, EndedType DEF WayInv
<1>3. q # <<>> /\ q[1].is.kind = "tick"
  <2>1. air \in Seq(FrameType \cup {Tick}) /\ air # <<>> /\ air[1].is.kind = "tick"
    BY <1>1, AirHead DEF TInv, AirInv, Comes
  <2>2. Len(air) \in Nat /\ Len(air) >= 1 /\ DOMAIN air = 1 .. Len(air)
    BY <2>1
  <2>3. Append(air, Tick)[1] = air[1] /\ Append(air, Tick) # <<>>
    BY <2>2, AirTick DEF TInv
  <2>4. QED BY <2>1, <2>3 DEF Ended
<1> HIDE DEF q
<1>4. KeepsFrames(q, Tail(q))
  BY <1>2, <1>3, TailKeeps
<1>5. KeepsFrames(air, Tail(q))
  BY <1>2, <1>4, KeepsFramesOn
<1>6. InWay(sw, Tail(q), due, frames)
  BY <1>2, <1>5, QueueWay
<1>7. QED BY <1>1, <1>6

LEMMA PassBpduWay ==
  ASSUME TInv, TreeInv, WayInv, PassBpdu PROVE WayInv'
<1> SUFFICES ASSUME ~ stopped' PROVE FALSE
  BY DEF WayInv
<1>1. Comes("bpdu") /\ ~ sw[Head(air).to].on
  BY DEF PassBpdu
<1>2. stopped' = stopped
  BY DEF PassBpdu, Received
<1>3. Head(air).to \in Switches
  BY <1>1, FirstFrame
<1>4. Talking(sw, air)
  BY <1>2 DEF TreeInv
<1>5. QED BY <1>1, <1>3, <1>4 DEF Talking


\* Switch a learns where the station is, and that it has sent this broadcast.
LearntBy(S, T, a, l, id) == T = [S EXCEPT ![a] = [S[a] EXCEPT !.mac = l, !.seen = @ \cup {id}]]

LEMMA LearnsAlike ==
  ASSUME NEW S, SwInv(S), Sane(S), NEW a \in Switches, NEW l, NEW id, NEW T, SwInv(T), Sane(T),
         LearntBy(S, T, a, l, id)
  PROVE  /\ Alike(S, T) /\ T[a].mac = l /\ T[a].seen = S[a].seen \cup {id} /\ T[a].pending = S[a].pending
         /\ \A t \in Switches \ {a} : T[t] = S[t]
<1> DEFINE w == S[a]
           e == w.seen \cup {id}
           x == [w EXCEPT !.mac = l, !.seen = e]
<1>1. w \in SwitchType
  BY DEF SwInv
<1>2. [w EXCEPT !.mac = l, !.seen = @ \cup {id}] = x
  BY <1>1 DEF SwitchType
<1>3. T[a] = x /\ \A t \in Switches \ {a} : T[t] = S[t]
  BY <1>2 DEF SwInv, LearntBy
<1>4. SameSwitch(w, x)
  BY <1>1, <1>2, LearnsSame
<1> HIDE DEF e
<1>5. /\ x.mac = l /\ x.seen = e /\ x.pending = w.pending /\ x.tcOut = w.tcOut /\ x.tcSeen = w.tcSeen
      /\ x.tcSeq = w.tcSeq
  BY <1>1 DEF SwitchType
<1>6. ASSUME NEW t \in Switches
      PROVE  SameSwitch(S[t], T[t]) /\ T[t].tcOut = S[t].tcOut /\ T[t].tcSeen = S[t].tcSeen
             /\ T[t].tcSeq = S[t].tcSeq /\ T[t].pending = S[t].pending
  <2>1. CASE t = a
    <3> HIDE DEF x
    <3>1. QED BY <1>3, <1>4, <1>5, <2>1
  <2>2. CASE t # a
    <3>1. T[t] = S[t]
      BY <1>3, <2>2
    <3>2. SameSwitch(S[t], S[t])
      BY DEF SameSwitch, Same
    <3>3. QED BY <3>1, <3>2
  <2>3. QED BY <2>1, <2>2
<1>7. Alike(S, T)
  BY <1>6 DEF Alike
<1>8. QED BY <1>3, <1>5, <1>7 DEF e

\* Switch s floods what has come on l.
LEMMA FloodsIs ==
  ASSUME NEW S, SwInv(S), Sane(S), NEW s \in Switches, NEW l, NEW f, NEW d \in DataType, d.id = f
  PROVE  SendsOn(S, s, l, f, Flood(S[s], l), Frames(s, Flood(S[s], l), [k \in Flood(S[s], l) |-> d]))
<1> DEFINE ls == Flood(S[s], l)
           what == [k \in ls |-> d]
           out == Frames(s, ls, what)
<1>1. S[s].live \subseteq Ports(s) /\ S[s].live \subseteq Links
  BY DEF SwInv, Fit, SwitchType
<1>2. ls = {k \in S[s].live \ {l} : Open(S[s], k)}
  BY <1>1, OpenForwards DEF Flood
<1>3. ls \in SUBSET Ports(s) /\ (\A k \in ls : what[k] \in BpduType \cup DataType)
  BY <1>1, <1>2
<1>4. d = [kind |-> "data", id |-> f]
  BY DEF DataType
<1>5. \A k \in ls : what[k] = [kind |-> "data", id |-> f]
  BY <1>4
<1> HIDE DEF ls, what
<1>6. OnePerPort(s, ls, what, out)
  BY <1>3, FramesAre
<1>7. SendsOn(S, s, l, f, ls, out)
  BY <1>2, <1>5, <1>6 DEF SendsOn
<1>8. QED BY <1>7 DEF ls, what

\* A broadcast that has been here before, or comes where it may not, is dropped.
LEMMA DroppedWay ==
  ASSUME NEW S, SwInv(S), Sane(S), NEW q, AirInv(q), q # <<>>, 1 \in DOMAIN q, NEW f, Flooding(S, q, f),
         q[1].to \in Switches, q[1].on \in Links, Open(S[q[1].to], q[1].on) => Knew(S[q[1].to], f)
  PROVE  Flooding(S, Tail(q), f)
<1> DEFINE none == <<>>
           p == Tail(q)
<1>1. AirInv(none) /\ DOMAIN none = {} /\ AirInv(p) /\ p \o none = p
  <2>1. AirInv(p)
    BY AirHead
  <2>2. p \o none = p
    BY <2>1 DEF AirInv
  <2>3. QED BY <2>1, <2>2, EmptyAir
<1> HIDE DEF none
<1>2. Replaced(q, p, none)
  <2>1. Replaced(q, Tail(q) \o none, none)
    BY <1>1, TailReplaces
  <2>2. QED BY <1>1, <2>1
<1> HIDE DEF p
<1>3. \A j \in DOMAIN p : \E i \in DOMAIN q : p[j] = q[i]
  BY <1>1, <1>2 DEF Replaced
<1>4. ASSUME NEW s \in Switches, NEW l \in Ports(s), l \in ActiveOf(S), ~ Knew(S[Other(l, s)], f),
             Coming(q, Other(l, s), l)
      PROVE  Coming(p, Other(l, s), l)
  <2> DEFINE t == Other(l, s)
  <2>1. PICK i \in DOMAIN q : q[i].is.kind = "data" /\ q[i].to = t /\ q[i].on = l
    BY <1>4 DEF Coming
  <2>2. t \in {End1[l], End2[l]} /\ l \in PluggedOf(S)
    BY <1>4, OtherEnd DEF ActiveOf
  <2>3. Open(S[t], l)
    BY <1>4, <2>2, ActiveOpen
  <2>4. i # 1
    BY <1>4, <2>1, <2>3
  <2>5. QED BY <1>2, <2>1, <2>4 DEF Replaced, Coming
<1>5. Flooding(S, p, f)
  BY <1>3, <1>4, FloodingQueue
<1>6. QED BY <1>5 DEF p

LEMMA ReceiveDataWay ==
  ASSUME TInv, TreeInv, WayInv, ReceiveData PROVE WayInv'
<1> SUFFICES ASSUME ~ stopped' PROVE InWay(sw', air', due', frames')
  BY DEF WayInv
<1> DEFINE s == Head(air).to
           l == Head(air).on
           w == sw[s]
           d == Head(air).is
           ls == Flood(w, l)
           out == Frames(s, ls, [k \in ls |-> d])
           x == [w EXCEPT !.mac = l, !.seen = @ \cup {d.id}]
           none == <<>>
           S == sw
           T == sw'
           q == air
           f == frames
<1>1. Comes("data")
  BY Zenon DEF ReceiveData
<1>2. \/ Forwarding(w, l) /\ d.id \notin w.seen /\ Worked(s, x) /\ Received(out)
      \/ ~ (Forwarding(w, l) /\ d.id \notin w.seen) /\ Worked(s, w) /\ Received(none)
  <2>1. CASE Forwarding(w, l) /\ d.id \notin w.seen
    BY <2>1, Zenon DEF ReceiveData
  <2>2. CASE ~ (Forwarding(w, l) /\ d.id \notin w.seen)
    BY <2>2, Zenon DEF ReceiveData
  <2>3. QED BY <2>1, <2>2
<1>3. ~ stopped /\ frames' = f
  <2> HIDE DEF out, none, x, s, l, d, w
  <2>1. Received(out) \/ Received(none)
    BY <1>2
  <2>2. QED BY <2>1 DEF Received
<1>4. /\ s \in Switches /\ l \in Ports(s) /\ l \in Links /\ d \in DataType /\ w \in SwitchType /\ AirInv(Tail(q))
  BY <1>1, FirstFrame
<1>5. q # <<>> /\ 1 \in DOMAIN q /\ q[1].to = s /\ q[1].on = l /\ q[1].is = d /\ d.kind = "data"
  BY <1>1, FirstIs
<1>6. SwInv(S) /\ AirInv(q) /\ Sane(S)
  BY <1>3, SaneIs
<1>7. SwInv(T) /\ Sane(T)
  <2>1. TInv' /\ TreeInv'
    BY ReceiveDataType, ReceiveDataTree
  <2>2. QED BY <2>1, TalkingIs DEF TInv, TreeInv
<1> HIDE DEF s, l, d
<1>8. Flooding(S, q, f) /\ due = <<>> /\ \A t \in Switches : S[t].seen \subseteq 1 .. f
  <2>1. ~ NoData(q)
    BY <1>5 DEF NoData
  <2>2. QED BY <1>3, <2>1 DEF WayInv, InWay
<1>9. d.id = f
  BY <1>5, <1>8 DEF Flooding, Spreading, SentOn
<1>10. Open(S[s], l) <=> Forwarding(w, l)
  BY <1>4, <1>6, OpenForwards
<1>11. CASE Forwarding(w, l) /\ d.id \notin w.seen
  <2>1. Worked(s, x) /\ Received(out)
    BY <1>2, <1>11
  <2>2. LearntBy(S, T, s, l, f) /\ air' = Tail(q) \o out
    BY <1>9, <2>1 DEF Worked, Received, LearntBy
  <2>3. SendsOn(S, s, l, f, ls, out)
    <3> HIDE DEF S
    <3>1. SendsOn(S, s, l, f, Flood(S[s], l), Frames(s, Flood(S[s], l), [k \in Flood(S[s], l) |-> d]))
      BY <1>4, <1>6, <1>9, FloodsIs
    <3>2. QED BY <3>1 DEF S
  <2> HIDE DEF ls, out, S, T, q, f
  <2>4. /\ Alike(S, T) /\ T[s].mac = l /\ T[s].seen = S[s].seen \cup {f} /\ T[s].pending = S[s].pending
        /\ \A t \in Switches \ {s} : T[t] = S[t]
    BY <1>4, <1>6, <1>7, <2>2, LearnsAlike
  <2>5. Learns(S, T, q, s, l, f)
    BY <1>5, <1>6, <1>9, <1>10, <1>11, <2>4 DEF Learns, Knew, S
  <2>6. Flooding(T, Tail(q) \o out, f)
    BY <1>4, <1>8, <2>3, <2>5, LearnsFlooding
  <2>7. due' = <<>>
    <3>1. due' = due
      BY <2>1, <2>2, <2>4 DEF Worked, S, T, q
    <3>2. QED BY <1>8, <3>1
  <2>8. f \in 1 .. f
    <3>1. d.id \in 1 .. MaxFrames /\ MaxFrames \in Nat
      BY <1>4, StpAssumption DEF DataType
    <3>2. QED BY <1>9, <3>1
  <2>9. \A t \in Switches : T[t].seen \subseteq 1 .. f
    BY <1>8, <2>4, <2>8
  <2> DEFINE p == Tail(q) \o out
             e == due'
  <2> HIDE DEF p, e
  <2>10. InWay(T, p, e, f)
    BY <1>7, <2>6, <2>7, <2>9, FloodingWay DEF p, e
  <2>11. QED BY <1>3, <2>2, <2>10 DEF p, e, T, f
<1>12. CASE ~ (Forwarding(w, l) /\ d.id \notin w.seen)
  <2>1. Worked(s, w) /\ Received(none)
    BY <1>2, <1>12
  <2>2. T = S /\ due' = due
    BY <1>4, <2>1, SameWorks
  <2>3. air' = Tail(q)
    <3>1. air' = Tail(q) \o none
      BY <2>1 DEF Received
    <3>2. QED BY <1>4, <3>1 DEF AirInv
  <2>4. Open(S[s], l) => Knew(S[s], f)
    BY <1>9, <1>10, <1>12 DEF Knew
  <2> HIDE DEF S, q, f, T
  <2>5. Flooding(S, Tail(q), f)
    BY <1>4, <1>5, <1>6, <1>8, <2>4, DroppedWay
  <2>6. InWay(S, Tail(q), due, f)
    BY <1>6, <1>8, <2>5, FloodingWay
  <2>7. QED BY <1>3, <2>2, <2>3, <2>6 DEF T, f
<1>13. QED BY <1>11, <1>12


\* Once things have settled, nobody has anything to tell.
LEMMA RestIs ==
  ASSUME TInv, TreeInv, WayInv, Settled, ~ stopped, Cardinality(Switches) <= MaxAge + 1
  PROVE  /\ Near(sw) /\ Ready(sw, air) /\ due = <<>>
         /\ (\A i \in DOMAIN air : air[i].is.kind = "tick") /\ \A s \in Switches : sw[s].tcOut = None
<1> DEFINE q == air
<1>1. Comes("tick") /\ due = <<>> /\ Len(air) = 1
  BY DEF Settled, Rests
<1>2. \A i \in DOMAIN air : air[i].is.kind = "tick"
  <2>1. AirInv(q) /\ q # <<>> /\ Head(q).is.kind = "tick" /\ Len(q) = 1
    BY <1>1 DEF TInv, Comes
  <2>2. q[1].is.kind = "tick"
    BY <2>1, AirHead
  <2>3. DOMAIN q = 1 .. 1
    BY <2>1, LineIsNat
  <2>4. \A i \in DOMAIN q : i = 1
    BY <2>3
  <2>5. QED BY <2>2, <2>4
<1>3. Near(sw)
  <2>1. Quiet(sw)
    BY QuietIs
  <2>2. QED BY <2>1, AgesFit DEF Near
<1>4. Ready(sw, air)
  BY <1>2 DEF WayInv, InWay, NoData
<1>5. ASSUME NEW s \in Switches PROVE sw[s].tcOut = None
  <2>1. Marked(sw[s])
    BY <1>4 DEF Ready, Counted
  <2>2. ~ sw[s].pending
    BY <1>1 DEF TInv, DueInv
  <2>3. QED BY <2>1, <2>2 DEF Marked
<1>6. QED BY <1>1, <1>2, <1>3, <1>4, <1>5

LEMMA TalkWay ==
  ASSUME TInv, TreeInv, WayInv, Cardinality(Switches) <= MaxAge + 1, Talk PROVE WayInv'
<1> SUFFICES ASSUME ~ stopped' PROVE InWay(sw', air', due', frames')
  BY DEF WayInv
<1> DEFINE S == sw
           T == sw'
           q == air
           f == frames + 1
           ls == Flood(S[Home], StationPort)
           d == [kind |-> "data", id |-> f]
           out == Frames(Home, ls, [k \in ls |-> d])
           x == [S[Home] EXCEPT !.mac = StationPort, !.seen = @ \cup {f}]
<1>1. Worked(Home, x) /\ air' = q \o out /\ frames < MaxFrames /\ ~ stopped /\ frames' = f /\ Settled
  BY DEF Talk
<1>2. Home \in Switches /\ frames \in Nat /\ f \in 1 .. MaxFrames /\ f \in 1 .. f
  BY <1>1, StpAssumption DEF TInv
<1>3. SwInv(S) /\ AirInv(q) /\ Sane(S)
  BY <1>1, SaneIs
<1>4. SwInv(T) /\ Sane(T)
  <2>1. TInv' /\ TreeInv'
    BY TalkType, TalkTree
  <2>2. QED BY <2>1, TalkingIs DEF TInv, TreeInv
<1>5. /\ Near(S) /\ Ready(S, q) /\ due = <<>>
      /\ (\A i \in DOMAIN q : q[i].is.kind = "tick") /\ \A s \in Switches : S[s].tcOut = None
  BY <1>1, RestIs
<1>6. \A t \in Switches : S[t].seen \subseteq 1 .. frames
  BY <1>1 DEF WayInv, InWay
<1>7. \A t \in Switches : S[t].seen \subseteq 1 .. f /\ ~ Knew(S[t], f)
  <2>1. f \notin 1 .. frames /\ 1 .. frames \subseteq 1 .. f
    BY <1>2
  <2> HIDE DEF f
  <2>2. QED BY <1>6, <2>1 DEF Knew
<1>8. LearntBy(S, T, Home, StationPort, f)
  BY <1>1 DEF Worked, LearntBy
<1>9. SendsOn(S, Home, StationPort, f, ls, out)
  <2>1. d \in DataType /\ d.id = f
    BY <1>2 DEF DataType
  <2> HIDE DEF S, d, f
  <2>2. SendsOn(S, Home, StationPort, f, Flood(S[Home], StationPort),
                Frames(Home, Flood(S[Home], StationPort), [k \in Flood(S[Home], StationPort) |-> d]))
    BY <1>2, <1>3, <2>1, FloodsIs
  <2>3. QED BY <2>2
<1> HIDE DEF ls, d, out, S, T, q, f
<1>10. /\ Alike(S, T) /\ T[Home].mac = StationPort /\ T[Home].seen = S[Home].seen \cup {f}
       /\ T[Home].pending = S[Home].pending /\ \A t \in Switches \ {Home} : T[t] = S[t]
  BY <1>2, <1>3, <1>4, <1>8, LearnsAlike
<1>11. due' = <<>>
  <2>1. T = [sw EXCEPT ![Home] = x] /\ T[Home].pending = sw[Home].pending
    BY <1>1, <1>10 DEF Worked, T, S
  <2>2. T[Home] = x
    BY <1>2, <2>1 DEF TInv, SwInv
  <2>3. x.pending = sw[Home].pending
    BY <2>1, <2>2
  <2> HIDE DEF x
  <2>4. due' = due
    BY <1>1, <2>3 DEF Worked
  <2>5. QED BY <1>5, <2>4
<1>12. Knew(T[Home], f)
  BY <1>10 DEF Knew
<1> DEFINE p == q \o out
<1>13. Flooding(T, p, f)
  <2>1. \A t \in Switches : ~ Knew(S[t], f)
    BY <1>7
  <2> HIDE DEF p
  <2>2. p = q \o out
    BY DEF p
  <2>3. QED BY <1>3, <1>5, <1>9, <1>10, <1>12, <2>1, <2>2, TalkFlooding
<1>14. \A t \in Switches : T[t].seen \subseteq 1 .. f
  BY <1>2, <1>7, <1>10
<1> DEFINE e == due'
<1> HIDE DEF e, p
<1>15. InWay(T, p, e, f)
  BY <1>4, <1>11, <1>13, <1>14, FloodingWay DEF e
<1>16. QED BY <1>1, <1>15 DEF T, p, e


\* All keep or forget what they have learnt, tell that, and what is being told is not lost
\* on a cable that stays plugged in.
AllTells(S, T) == \A s \in Switches : Tells(s, S[s], T[s], {})

StillTold(T, q, p) ==
  /\ \A j \in DOMAIN p : p[j].is.kind = "bpdu" => p[j].is.tc = None \/ \E i \in DOMAIN q : p[j] = q[i]
  /\ \A i \in DOMAIN q : q[i].is.kind = "bpdu" /\ q[i].on \in PluggedOf(T) => \E j \in DOMAIN p : p[j] = q[i]

LEMMA EditReady ==
  ASSUME NEW S, NEW T, SwInv(S), SwInv(T), Sane(S), Sane(T), AllTells(S, T), NewCables(S, T),
         NEW q, Ready(S, q), NEW p, StillTold(T, q, p)
  PROVE  Ready(T, p) /\ \A t \in Switches : T[t].seen = S[t].seen
<1> DEFINE N == {}
<1>1. \A s \in Switches : /\ Keeps(S[s], T[s]) /\ Announces(s, S[s], T[s], N)
                          /\ (S[s].tcOut # None => T[s].tcOut # None)
  BY DEF AllTells, Tells
<1>2. AllKeep(S, T)
  BY <1>1 DEF AllKeep
<1>3. \A id \in Switches \X Nat : id \in N => IsNews(S, q, id)
  OBVIOUS
<1> HIDE DEF N
<1>4. \A id \in Switches \X Nat : IsNews(T, p, id) => IsNews(S, q, id) \/ \E s \in Switches : T[s].tcOut = id
  <2> SUFFICES ASSUME NEW id \in Switches \X Nat, NEW j \in DOMAIN p, p[j].is.kind = "bpdu", p[j].is.tc = id
               PROVE  IsNews(S, q, id)
    BY DEF IsNews
  <2>1. id # None
    BY StpAssumption
  <2>2. \E i \in DOMAIN q : p[j] = q[i]
    BY <2>1 DEF StillTold
  <2>3. QED BY <2>2 DEF IsNews
<1>5. AllTell(S, T, q, p, N)
  BY <1>1, <1>3, <1>4 DEF AllTell
<1>6. Passes(S, T, q, p)
  <2>1. \A s \in Switches : \A l \in Ports(s) :
            l \in PluggedOf(S) /\ l \in PluggedOf(T) /\ S[s].tcOut # None => Telling(T, p, s, l)
    BY <1>1 DEF Telling
  <2>2. \A i \in DOMAIN q : q[i].is.kind = "bpdu" /\ q[i].is.tc # None /\ q[i].on \in PluggedOf(T) =>
            T[q[i].to].mac = None \/ \E j \in DOMAIN p : p[j] = q[i]
    BY DEF StillTold
  <2>3. QED BY <2>1, <2>2, PassesIs
<1>7. Ready(T, p)
  BY <1>2, <1>5, <1>6, ReadyStays
<1>8. QED BY <1>1, <1>7 DEF Keeps

LEMMA EditWay ==
  ASSUME NEW S, NEW T, SwInv(S), SwInv(T), Sane(S), Sane(T), AllTells(S, T), NewCables(S, T),
         NEW q, NEW d, NEW f, InWay(S, q, d, f), NoData(q), NEW p, StillTold(T, q, p), NoData(p), NEW e
  PROVE  InWay(T, p, e, f)
<1>1. Ready(S, q) /\ \A s \in Switches : S[s].seen \subseteq 1 .. f
  BY DEF InWay
<1>2. Ready(T, p) /\ \A t \in Switches : T[t].seen = S[t].seen
  BY <1>1, EditReady
<1>3. \A t \in Switches : T[t].seen \subseteq 1 .. f
  BY <1>1, <1>2
<1>4. QED BY <1>2, <1>3, ReadyWay

LEMMA EditIs ==
  ASSUME TInv, TreeInv, WayInv, Editing, ~ stopped
  PROVE  /\ SwInv(sw) /\ AirInv(air) /\ Sane(sw) /\ Talking(sw, air)
         /\ InWay(sw, air, due, frames) /\ NoData(air) /\ frames' = frames
<1>1. NoData(air)
  BY DEF Editing, DataUnderWay, NoData
<1>2. QED BY <1>1, SaneIs DEF WayInv, Editing

LEMMA AllTellsOne ==
  ASSUME NEW S, NEW T, SwInv(S), NEW s \in Switches, Tells(s, S[s], T[s], {}), \A t \in Switches \ {s} : T[t] = S[t]
  PROVE  AllTells(S, T)
<1> DEFINE N == {}
<1>1. ASSUME NEW t \in Switches PROVE Tells(t, S[t], T[t], N)
  <2>1. CASE t = s
    BY <2>1
  <2>2. CASE t # s
    <3>1. S[t] \in SwitchType /\ T[t] = S[t]
      BY <2>2 DEF SwInv
    <3> HIDE DEF N
    <3>2. QED BY <3>1, TellsSame
  <2>3. QED BY <2>1, <2>2
<1>2. QED BY <1>1 DEF AllTells

LEMMA SetStpWay ==
  ASSUME TInv, TreeInv, WayInv, NEW s \in Switches, NEW on \in BOOLEAN, NEW prio \in Prios, SetStp(s, on, prio)
  PROVE  WayInv'
<1> SUFFICES ASSUME ~ stopped' PROVE InWay(sw', air', due', frames')
  BY DEF WayInv
<1> DEFINE w == sw[s]
           r == SetConfig(s, w, on, prio)
           x == r.w
           ls == IF r.said THEN w.live ELSE {}
           what == [l \in w.live |-> Withdrawal(s, w, l)]
           out == Frames(s, ls, what)
           S == sw
           T == sw'
           q == air
<1>1. Worked(s, x) /\ air' = q \o out /\ stopped' = (stopped \/ ~ on) /\ Editing
  BY DEF SetStp
<1>2. ~ stopped /\ on = TRUE
  BY <1>1
<1>3. /\ SwInv(S) /\ AirInv(q) /\ Sane(S) /\ InWay(S, q, due, frames) /\ NoData(q) /\ frames' = frames
  BY <1>1, <1>2, EditIs
<1>4. w \in SwitchType /\ Fit(s, w) /\ prio \in Nat /\ Tree(s, w) /\ w.live \subseteq Ports(s)
  BY <1>3, StpAssumption DEF SwInv, Sane, Fit
<1>5. SwInv(T) /\ Sane(T)
  <2>1. TInv' /\ TreeInv'
    BY SetStpType, SetStpTree
  <2>2. QED BY <2>1, TalkingIs DEF TInv, TreeInv
<1>6. Tells(s, w, x, {})
  <2> HIDE DEF w
  <2>1. Tells(s, w, SetConfig(s, w, TRUE, prio).w, {})
    BY <1>4, ConfigTells
  <2>2. QED BY <1>2, <2>1
<1>7. sw' = [sw EXCEPT ![s] = x]
  BY <1>1 DEF Worked
<1>8. ls \in SUBSET Ports(s) /\ (\A l \in ls : what[l] \in BpduType \cup DataType)
      /\ \A l \in ls : what[l] = Withdrawal(s, w, l)
  BY <1>4, BpdusAre DEF Fit, SwitchType
<1> HIDE DEF x
<1>9. T[s] = x /\ \A t \in Switches \ {s} : T[t] = S[t]
  BY <1>3, <1>7 DEF SwInv
<1> HIDE DEF ls, what
<1>10. OnePerPort(s, ls, what, out)
  BY <1>8, FramesAre
<1> HIDE DEF out
<1>11. AirInv(out) /\ \A i \in DOMAIN out : out[i].is.kind = "bpdu" /\ out[i].is.tc = None
  <2>1. ls \in SUBSET Ports(s)
    BY <1>8
  <2>2. SentBy(s, what, out)
    BY <1>10, <2>1, SentIs
  <2>3. ASSUME NEW i \in DOMAIN out PROVE out[i].is.kind = "bpdu" /\ out[i].is.tc = None
    <3>1. out[i].is = Withdrawal(s, w, out[i].on)
      BY <1>8, <1>10, <2>2 DEF OnePerPort, SentBy
    <3>2. QED BY <3>1 DEF Withdrawal
  <2>4. QED BY <2>2, <2>3 DEF SentBy
<1> DEFINE p == q \o out
<1>12. Replaced(q, p, out) /\ \A i \in DOMAIN q : \E j \in DOMAIN p : p[j] = q[i]
  BY <1>3, <1>11, AppendReplaces
<1> HIDE DEF p, q, T
<1>13. StillTold(T, q, p)
  BY <1>11, <1>12 DEF StillTold, Replaced
<1>14. NoData(p)
  BY <1>3, <1>11, <1>12 DEF NoData, Replaced
<1>15. AllTells(S, T)
  <2>1. Tells(s, S[s], T[s], {})
    BY <1>6, <1>9
  <2> HIDE DEF S, w
  <2>2. QED BY <1>3, <1>9, <2>1, AllTellsOne
<1>16. NewCables(S, T)
  <2> DEFINE u == Blank(w, TRUE, prio)
             rr == Recompute(s, u, TRUE)
             y == SetConfig(s, w, TRUE, prio)
  <2>0. x = y.w
    BY <1>2 DEF x
  <2> HIDE DEF w
  <2>1. u \in SwitchType /\ Young(u) /\ u.live = w.live
    BY <1>4, BlankType
  <2>2. y.w = rr.w
    BY <1>4, SetConfigDoes
  <2> HIDE DEF u, y
  <2>5. Settles(s, u, TRUE, rr)
    BY <2>1, RecomputeDoes
  <2> HIDE DEF rr
  <2>6. rr.w.live = u.live
    BY <2>5 DEF Settles, Same
  <2>7. x.live = w.live
    BY <2>0, <2>1, <2>2, <2>6
  <2>3. \A t \in Switches : T[t].live = S[t].live
    BY <1>9, <2>7 DEF w
  <2> HIDE DEF S
  <2>4. QED BY <2>3, SamePlugged
<1> DEFINE e == due'
<1> HIDE DEF e, S
<1>17. InWay(T, p, e, frames)
  BY <1>3, <1>5, <1>13, <1>14, <1>15, <1>16, EditWay
<1>18. QED BY <1>1, <1>3, <1>17 DEF T, p, e


\* Nobody is heard on cable k yet: each end is in charge of it.
LEMMA UnheardInCharge ==
  ASSUME NEW s \in Switches, NEW w \in SwitchType, Tree(s, w), NEW k \in Ports(s), k \in w.live, w.heard[k] = None
  PROVE  w.role[k] = "designated"
<1>1. k \in Links /\ w.role = [l \in Links |-> RoleOf(s, w, l)]
  BY DEF Ports, Tree
<1>2. w.role[k] = RoleOf(s, w, k)
  BY <1>1
<1>3. k # w.port
  <2>1. w.port = None \/ w.port \in Offers(s, w)
    BY DEF Tree, Elected
  <2>2. k \notin Offers(s, w)
    BY DEF Offers
  <2>3. QED BY <1>1, <2>1, <2>2, NoneIsNoPort
<1>4. QED BY <1>2, <1>3 DEF RoleOf

\* The ends of cable k are two switches that know of its change, and the others do not.
LEMMA EndsTell ==
  ASSUME NEW S, NEW T, SwInv(S), NEW k \in Links,
         \A s \in {End1[k], End2[k]} : Tells(s, S[s], T[s], {}),
         \A t \in Switches \ {End1[k], End2[k]} : T[t] = S[t]
  PROVE  AllTells(S, T)
<1> DEFINE N == {}
<1>1. ASSUME NEW t \in Switches PROVE Tells(t, S[t], T[t], N)
  <2>1. CASE t \in {End1[k], End2[k]}
    BY <2>1
  <2>2. CASE t \notin {End1[k], End2[k]}
    <3>1. S[t] \in SwitchType /\ T[t] = S[t]
      BY <2>2 DEF SwInv
    <3> HIDE DEF N
    <3>2. QED BY <3>1, TellsSame
  <2>3. QED BY <2>1, <2>2
<1>2. QED BY <1>1 DEF AllTells

LEMMA CableInWay ==
  ASSUME TInv, TreeInv, WayInv, NEW k \in Links, CableIn(k) PROVE WayInv'
<1> SUFFICES ASSUME ~ stopped' PROVE InWay(sw', air', due', frames')
  BY DEF WayInv
<1> DEFINE new == [s \in {End1[k], End2[k]} |-> LinkUp(s, k)]
           S == sw
           T == sw'
           q == air
<1>1. k \notin Plugged /\ BothEnds(k, new) /\ air' = air /\ stopped' = stopped /\ Editing
  BY DEF CableIn
<1>2. SwInv(S) /\ AirInv(q) /\ Sane(S) /\ Talking(S, q) /\ InWay(S, q, due, frames) /\ NoData(q) /\ frames' = frames
  BY <1>1, EditIs
<1>3. SwInv(T) /\ Sane(T)
  <2>1. TInv' /\ TreeInv'
    BY CableInType, CableInTree
  <2>2. QED BY <2>1, TalkingIs DEF TInv, TreeInv
<1>4. \A t \in Switches : sw'[t] = IF t \in {End1[k], End2[k]} THEN new[t] ELSE sw[t]
  BY <1>1, <1>3 DEF BothEnds
<1>5. ASSUME NEW s \in {End1[k], End2[k]}
      PROVE  Tells(s, S[s], T[s], {}) /\ T[s].role[k] = "designated"
  <2> DEFINE w == sw[s]
             u == PluggedIn(w, k)
             x == Relinked(s, u, TRUE)
             z == Recompute(s, u, TRUE).w
  <2>1. s \in Switches /\ k \in Ports(s)
    BY StpAssumption DEF Ports
  <2>2. k \notin w.live
    BY <1>1, <1>2 DEF Plugged, Sane
  <2>3. w.heard[k] = None
    <3>1. Chan(sw, air, s, k)
      BY <1>2, <2>1, TalkingIs
    <3>2. QED BY <2>2, <3>1 DEF Chan, Channel
  <2>4. w \in SwitchType /\ Fit(s, w) /\ w.on
    BY <1>2, <2>1 DEF SwInv, Sane
  <2>5. T[s] = x
    BY <1>4, <2>1, LinkUpIs
  <2>6. S[s] = w
    OBVIOUS
  <2> HIDE DEF S, T, w
  <2>7. Tells(s, w, x, {})
    BY <2>1, <2>4, PlugTells DEF Fit
  <2>8. u \in SwitchType /\ Young(u) /\ u.live = w.live \cup {k} /\ u = [w EXCEPT !.live = u.live]
    BY <2>4, PluggedInType DEF Fit
  <2> HIDE DEF u
  <2>9. u.on = w.on /\ u.heard = w.heard
    BY <2>4, <2>8 DEF SwitchType
  <2>10. x = z
    BY <2>4, <2>9 DEF Relinked
  <2>11. Settles(s, u, TRUE, Recompute(s, u, TRUE))
    BY <2>1, <2>8, RecomputeDoes
  <2> HIDE DEF x
  <2>12. z \in SwitchType /\ Tree(s, z) /\ z.live = u.live /\ z.heard = u.heard
    BY <2>11 DEF Settles, Same
  <2> HIDE DEF z
  <2>13. k \in z.live /\ z.heard[k] = None
    BY <2>3, <2>8, <2>9, <2>12
  <2>14. z.role[k] = "designated"
    BY <2>1, <2>12, <2>13, UnheardInCharge
  <2>15. QED BY <2>5, <2>6, <2>7, <2>10, <2>14
<1>6. \A t \in Switches \ {End1[k], End2[k]} : T[t] = S[t]
  BY <1>4
<1>7. ASSUME NEW s \in {End1[k], End2[k]} PROVE T[s].live = S[s].live \cup {k}
  <2> DEFINE w == sw[s]
             u == PluggedIn(w, k)
             x == Relinked(s, u, TRUE)
  <2>1. s \in Switches
    BY StpAssumption
  <2>2. w \in SwitchType /\ Young(w) /\ w.on
    BY <1>2, <2>1 DEF SwInv, Sane, Fit
  <2>3. T[s] = x
    BY <1>4, <2>1, LinkUpIs
  <2>4. S[s] = w
    OBVIOUS
  <2> HIDE DEF S, T, w
  <2>5. u \in SwitchType /\ Young(u) /\ u.live = w.live \cup {k}
    BY <2>2, PluggedInType
  <2> HIDE DEF u
  <2>6. Settles(s, u, TRUE, Recompute(s, u, TRUE))
    BY <2>1, <2>5, RecomputeDoes
  <2>7. x.live = u.live
    BY <2>6 DEF Relinked, Settles, Same
  <2>8. QED BY <2>3, <2>4, <2>5, <2>7
<1> HIDE DEF S, T, q
<1>8. AllTells(S, T)
  BY <1>2, <1>5, <1>6, EndsTell
<1>9. NewCables(S, T)
  <2> SUFFICES ASSUME NEW s \in Switches, NEW l \in Ports(s), l \notin PluggedOf(S), l \in PluggedOf(T)
               PROVE  T[s].role[l] = "designated"
    BY DEF NewCables
  <2>1. l \in Links /\ End1[l] \in Switches /\ s \in {End1[l], End2[l]}
    BY StpAssumption DEF Ports
  <2>2. l \notin S[End1[l]].live /\ l \in T[End1[l]].live
    BY <2>1 DEF PluggedOf
  <2>3. l = k
    BY <1>6, <1>7, <2>1, <2>2
  <2>4. QED BY <1>5, <2>1, <2>3
<1>10. StillTold(T, q, q)
  BY DEF StillTold
<1> DEFINE e == due'
<1> HIDE DEF e
<1>11. InWay(T, q, e, frames)
  BY <1>2, <1>3, <1>8, <1>9, <1>10, EditWay
<1>12. QED BY <1>1, <1>2, <1>11 DEF T, q, e


\* What is on cable k is lost: q becomes p.
IsCut(p, q, k) ==
  p = [i \in DOMAIN q |-> IF q[i].on = k THEN [q[i] EXCEPT !.is = [kind |-> "lost"]] ELSE q[i]]

LEMMA CutFrames ==
  ASSUME NEW q, AirInv(q), NEW k \in Links, NEW p, IsCut(p, q, k)
  PROVE  /\ DOMAIN p = DOMAIN q
         /\ \A i \in DOMAIN q : q[i].on # k => p[i] = q[i]
         /\ \A i \in DOMAIN q : q[i].on = k => p[i].is.kind = "lost"
<1>1. ASSUME NEW i \in DOMAIN q, q[i].on = k
      PROVE  p[i].is.kind = "lost"
  <2> DEFINE f == q[i]
             lost == [kind |-> "lost"]
  <2>1. f \in FrameType \cup {Tick} /\ f.on = k
    BY <1>1, ElementOfSeq DEF AirInv
  <2>2. f \in FrameType
    BY <2>1, StpAssumption DEF Tick
  <2>3. p[i] = [f EXCEPT !.is = lost]
    BY <1>1 DEF IsCut
  <2>4. lost.kind = "lost"
    OBVIOUS
  <2> HIDE DEF f, lost
  <2>5. p[i].is = lost
    BY <2>2, <2>3 DEF FrameType
  <2>6. QED BY <2>4, <2>5
<1>2. DOMAIN p = DOMAIN q /\ \A i \in DOMAIN q : q[i].on # k => p[i] = q[i]
  BY DEF IsCut
<1>3. QED BY <1>1, <1>2

LEMMA CutStillTold ==
  ASSUME NEW q, AirInv(q), NEW k \in Links, NEW p, IsCut(p, q, k), NEW T, k \notin PluggedOf(T), NoData(q)
  PROVE  StillTold(T, q, p) /\ NoData(p)
<1>1. /\ DOMAIN p = DOMAIN q
      /\ \A i \in DOMAIN q : q[i].on # k => p[i] = q[i]
      /\ \A i \in DOMAIN q : q[i].on = k => p[i].is.kind = "lost"
  BY CutFrames
<1>2. NoData(p)
  BY <1>1 DEF NoData
<1>3. ASSUME NEW j \in DOMAIN p, p[j].is.kind = "bpdu" PROVE \E i \in DOMAIN q : p[j] = q[i]
  BY <1>1, <1>3
<1>4. ASSUME NEW i \in DOMAIN q, q[i].is.kind = "bpdu", q[i].on \in PluggedOf(T)
      PROVE  \E j \in DOMAIN p : p[j] = q[i]
  <2>1. p[i] = q[i] /\ i \in DOMAIN p
    BY <1>1, <1>4
  <2>2. QED BY <2>1
<1>5. QED BY <1>2, <1>3, <1>4 DEF StillTold

LEMMA CableOutWay ==
  ASSUME TInv, TreeInv, WayInv, NEW k \in Links, CableOut(k) PROVE WayInv'
<1> SUFFICES ASSUME ~ stopped' PROVE InWay(sw', air', due', frames')
  BY DEF WayInv
<1> DEFINE new == [s \in {End1[k], End2[k]} |-> LinkDown(s, k)]
           S == sw
           T == sw'
           q == air
           p == air'
<1>1. BothEnds(k, new) /\ IsCut(p, q, k) /\ stopped' = stopped /\ Editing
  BY DEF CableOut, IsCut
<1>2. SwInv(S) /\ AirInv(q) /\ Sane(S) /\ Talking(S, q) /\ InWay(S, q, due, frames) /\ NoData(q) /\ frames' = frames
  BY <1>1, EditIs
<1>3. SwInv(T) /\ Sane(T)
  <2>1. TInv' /\ TreeInv'
    BY CableOutType, CableOutTree
  <2>2. QED BY <2>1, TalkingIs DEF TInv, TreeInv
<1>4. \A t \in Switches : sw'[t] = IF t \in {End1[k], End2[k]} THEN new[t] ELSE sw[t]
  BY <1>1, <1>3 DEF BothEnds
<1>5. ASSUME NEW s \in {End1[k], End2[k]}
      PROVE  Tells(s, S[s], T[s], {}) /\ T[s].live = S[s].live \ {k}
  <2> DEFINE w == sw[s]
             u == Unplugged(w, k)
             x == Relinked(s, u, FALSE)
  <2>1. s \in Switches /\ k \in Ports(s)
    BY StpAssumption DEF Ports
  <2>2. w \in SwitchType /\ Fit(s, w) /\ w.on /\ Young(w) /\ w.live \subseteq Ports(s)
    BY <1>2, <2>1 DEF SwInv, Sane, Fit
  <2>3. w.mac = k => Open(w, k)
    <3> SUFFICES ASSUME w.mac = k PROVE Open(w, k)
      OBVIOUS
    <3>1. Placed(S)
      BY <1>2 DEF InWay, Ready
    <3>2. k \in KeptOf(S)
      BY <2>1, <3>1 DEF Placed
    <3>3. k # None
      BY NoneIsNoPort
    <3>4. QED BY <3>2, <3>3 DEF KeptOf
  <2>4. T[s] = x
    BY <1>4, <2>1, <2>2, LinkDownIs
  <2>5. S[s] = w
    OBVIOUS
  <2> HIDE DEF S, T, w
  <2>6. Tells(s, w, x, {})
    BY <2>1, <2>2, <2>3, UnplugTells
  <2>7. u \in SwitchType /\ Young(u) /\ u.live = w.live \ {k}
    BY <2>2, UnpluggedType
  <2> HIDE DEF u
  <2>8. Settles(s, u, FALSE, Recompute(s, u, FALSE))
    BY <2>1, <2>7, RecomputeDoes
  <2>9. x.live = u.live
    BY <2>8 DEF Relinked, Settles, Same
  <2>10. QED BY <2>4, <2>5, <2>6, <2>7, <2>9
<1>6. \A t \in Switches \ {End1[k], End2[k]} : T[t] = S[t]
  BY <1>4
<1> HIDE DEF S, T, q, p
<1>7. AllTells(S, T)
  BY <1>2, <1>5, <1>6, EndsTell
<1>8. NewCables(S, T)
  <2> SUFFICES ASSUME NEW l \in Links, l \in PluggedOf(T) PROVE l \in PluggedOf(S)
    BY DEF NewCables, Ports
  <2>1. End1[l] \in Switches /\ l \in T[End1[l]].live
    BY StpAssumption DEF PluggedOf
  <2>2. QED BY <1>5, <1>6, <2>1 DEF PluggedOf
<1>9. k \notin PluggedOf(T)
  BY <1>5 DEF PluggedOf
<1>10. StillTold(T, q, p) /\ NoData(p)
  BY <1>1, <1>2, <1>9, CutStillTold
<1> DEFINE e == due'
<1> HIDE DEF e
<1>11. InWay(T, p, e, frames)
  BY <1>2, <1>3, <1>7, <1>8, <1>10, EditWay
<1>12. QED BY <1>2, <1>11 DEF T, p, e


\* A switch that has learnt nothing yet, and knows of its own topology changes only.
Novice(s, w) ==
  /\ w.mac = None /\ w.seen = {} /\ Marked(w)
  /\ \A id \in w.tcSeen : id[1] = s /\ id[2] <= w.tcSeq
  /\ w.tcOut = None \/ w.tcOut \in w.tcSeen

LEMMA NoviceStays ==
  ASSUME NEW s \in Switches, NEW v \in SwitchType, NEW w \in SwitchType, Elects(s, v, w), w.seen = v.seen, Novice(s, v)
  PROVE  Novice(s, w)
<1>1. CASE /\ w.mac = v.mac /\ w.tcSeq = v.tcSeq /\ w.tcSeen = v.tcSeen /\ w.tcOut = v.tcOut
           /\ v.pending => w.pending
  BY <1>1 DEF Novice, Marked
<1>2. CASE /\ w.mac = None /\ w.tcSeq = v.tcSeq + 1 /\ w.tcOut = <<s, v.tcSeq + 1>>
           /\ w.tcSeen = v.tcSeen \cup {<<s, v.tcSeq + 1>>} /\ w.pending
  <2>1. v.tcSeq \in Nat /\ v.tcSeen \subseteq Switches \X Nat
    BY DEF SwitchType
  <2>2. ASSUME NEW id \in w.tcSeen PROVE id[1] = s /\ id[2] <= w.tcSeq
    <3>1. CASE id \in v.tcSeen
      <4>1. id[1] = s /\ id[2] <= v.tcSeq /\ id[2] \in Nat
        BY <2>1, <3>1 DEF Novice
      <4>2. QED BY <1>2, <2>1, <4>1
    <3>2. CASE id = <<s, v.tcSeq + 1>>
      BY <1>2, <2>1, <3>2
    <3>3. QED BY <1>2, <3>1, <3>2
  <2>3. QED BY <1>2, <2>2 DEF Novice, Marked
<1>3. QED BY <1>1, <1>2 DEF Elects

LEMMA NewIsNovice ==
  ASSUME NEW s \in Switches
  PROVE  Novice(s, Recompute(s, Wired(s), TRUE).w)
<1> DEFINE n == NewSwitch
           b == Blank(n, TRUE, DefaultPrio)
           x == Plain(s)
           v == Wired(s)
           w == Recompute(s, v, TRUE).w
<1>1. n \in SwitchType /\ DefaultPrio \in Nat
  <2> DEFINE h == [l \in Links |-> None]
             r == [l \in Links |-> "none"]
  <2>1. h \in [Links -> Heard] /\ r \in [Links -> Roles]
    BY DEF Heard, Roles
  <2>2. n = [on |-> FALSE, prio |-> DefaultPrio, live |-> {}, heard |-> h, role |-> r, root |-> 0, cost |-> 0,
             port |-> None, age |-> 0, pending |-> FALSE, tcSeq |-> 0, tcSeen |-> {}, tcOut |-> None,
             mac |-> None, seen |-> {}]
    BY DEF NewSwitch
  <2>3. DefaultPrio \in Nat /\ 0 \in 0 .. MaxAge + 1
    BY StpAssumption
  <2> HIDE DEF h, r, n
  <2>4. QED BY <2>1, <2>2, <2>3 DEF SwitchType
<1>2. n.mac = None /\ n.seen = {} /\ n.tcSeen = {} /\ n.tcOut = None
  BY DEF NewSwitch
<1>3. x = Recompute(s, b, TRUE).w
  <2> HIDE DEF n
  <2>1. SetConfig(s, n, TRUE, DefaultPrio).w = Recompute(s, Blank(n, TRUE, DefaultPrio), TRUE).w
    BY <1>1, SetConfigDoes
  <2>2. QED BY <2>1 DEF Plain, n
<1> HIDE DEF n
<1>4. b \in SwitchType /\ Young(b)
  BY <1>1, BlankType
<1>5. b.mac = None /\ b.seen = {} /\ b.tcSeen = {} /\ b.tcOut = None
  BY <1>1, <1>2 DEF Blank, SwitchType
<1> HIDE DEF b
<1>6. Novice(s, b)
  BY <1>5 DEF Novice, Marked
<1>7. Elects(s, b, Recompute(s, b, TRUE).w) /\ Recompute(s, b, TRUE).w.seen = b.seen
  BY <1>4, RecomputeElects
<1>8. x \in SwitchType /\ v \in SwitchType /\ Young(v)
  BY NewSwitchFits
<1>9. v = [x EXCEPT !.live = Ports(s)]
  BY DEF Wired
<1> HIDE DEF x, v
<1>10. Novice(s, x)
  BY <1>3, <1>4, <1>6, <1>7, <1>8, NoviceStays
<1>11. v.mac = x.mac /\ v.seen = x.seen /\ v.tcSeen = x.tcSeen /\ v.tcOut = x.tcOut /\ v.tcSeq = x.tcSeq
       /\ v.pending = x.pending
  BY <1>8, <1>9 DEF SwitchType
<1>12. Novice(s, v)
  BY <1>10, <1>11 DEF Novice, Marked
<1>13. Elects(s, v, w) /\ w.seen = v.seen
  BY <1>8, RecomputeElects
<1>14. Settles(s, v, TRUE, Recompute(s, v, TRUE))
  BY <1>8, RecomputeDoes
<1>15. w \in SwitchType
  BY <1>14 DEF Settles
<1> HIDE DEF w
<1>16. Novice(s, w)
  BY <1>8, <1>12, <1>13, <1>15, NoviceStays
<1>17. QED BY <1>16 DEF w, v

LEMMA NovicesReady ==
  ASSUME NEW S, SwInv(S), \A s \in Switches : Novice(s, S[s]), NEW q, \A i \in DOMAIN q : q[i].is.kind # "bpdu"
  PROVE  Ready(S, q)
<1>1. \A s \in Switches : S[s].mac = None
  BY DEF Novice
<1>2. Placed(S) /\ Spreads(S, q) /\ Leads(S)
  <2>1. Placed(S) /\ Leads(S)
    BY <1>1, NoneIsNoPort DEF Placed, Leads
  <2>2. \A s \in Switches : \A l \in Ports(s) : S[Other(l, s)].mac = None
    BY <1>1, OtherEnd
  <2>3. QED BY <2>1, <2>2 DEF Spreads
<1>3. ASSUME NEW s \in Switches, NEW id \in S[s].tcSeen PROVE Numbered(S, id)
  BY DEF Novice, Numbered
<1>4. Counted(S)
  BY <1>3 DEF Counted, Novice
<1>5. ASSUME NEW id \in Switches \X Nat, IsNews(S, q, id) PROVE Numbered(S, id) /\ Unlearnt(S, id)
  <2>1. PICK s \in Switches : S[s].tcOut = id
    BY <1>5 DEF IsNews
  <2>2. id # None
    BY StpAssumption
  <2>3. id \in S[s].tcSeen
    BY <2>1, <2>2 DEF Novice
  <2>4. QED BY <1>1, <1>3, <2>3 DEF Unlearnt
<1>6. QED BY <1>2, <1>4, <1>5 DEF Ready, Noted

LEMMA InitWay ==
  ASSUME Init PROVE WayInv
<1> DEFINE S == sw
           q == air
           d == due
           f == frames
<1>1. \A s \in Switches : S[s] = Recompute(s, Wired(s), TRUE).w
  BY DEF Init, Wired, Plain
<1>2. SwInv(S)
  BY InitType DEF TInv
<1>3. DOMAIN q = {1} /\ q[1] = Tick
  BY DEF Init
<1>4. Tick.is.kind = "tick"
  BY DEF Tick
<1> HIDE DEF S, q, d, f
<1>5. \A s \in Switches : Novice(s, S[s])
  BY <1>1, NewIsNovice
<1>6. (\A i \in DOMAIN q : q[i].is.kind # "bpdu") /\ NoData(q)
  BY <1>3, <1>4 DEF NoData
<1>7. Ready(S, q)
  BY <1>2, <1>5, <1>6, NovicesReady
<1>8. \A s \in Switches : S[s].seen \subseteq 1 .. f
  BY <1>5 DEF Novice
<1>9. InWay(S, q, d, f)
  BY <1>6, <1>7, <1>8, ReadyWay
<1>10. QED BY <1>9 DEF WayInv, S, q, d, f

LEMMA StepWay ==
  ASSUME Cardinality(Switches) <= MaxAge + 1, TInv, TreeInv, WayInv, [Next]_vars
  PROVE  WayInv'
<1>1. CASE Work
  BY <1>1, SendTimerWay, ReceiveBpduWay, PassBpduWay, ReceiveDataWay, ReceiveLostWay, ArriveWay DEF Work
<1>2. CASE TimePasses
  BY <1>2, TimePassesWay
<1>3. CASE Talk
  BY <1>3, TalkWay
<1>4. ASSUME NEW l \in Links, CableOut(l) \/ CableIn(l) PROVE WayInv'
  BY <1>4, CableOutWay, CableInWay
<1>5. ASSUME NEW s \in Switches, NEW on \in BOOLEAN, NEW prio \in Prios, SetStp(s, on, prio) PROVE WayInv'
  BY <1>5, SetStpWay
<1>6. CASE UNCHANGED vars
  <2>1. sw' = sw /\ air' = air /\ due' = due /\ frames' = frames /\ stopped' = stopped
    BY <1>6 DEF vars
  <2>2. QED BY <2>1 DEF WayInv
<1>7. QED BY <1>1, <1>2, <1>3, <1>4, <1>5, <1>6 DEF Next

LEMMA WayHolds == Cardinality(Switches) <= MaxAge + 1 => (Spec => []WayInv)
<1> SUFFICES ASSUME Cardinality(Switches) <= MaxAge + 1 PROVE Spec => []WayInv
  OBVIOUS
<1>1. Init => WayInv
  BY InitWay
<1>2. TInv /\ TreeInv /\ WayInv /\ [Next]_vars => WayInv'
  BY StepWay
<1>3. QED BY <1>1, <1>2, TypesHold, TreeHolds, PTL DEF Spec

LEMMA RestWay ==
  ASSUME Cardinality(Switches) <= MaxAge + 1, TInv, TreeInv, WayInv
  PROVE  WayHome
<1> SUFFICES ASSUME Settled, ~ stopped, NEW s \in Switches, sw[s].mac \in Links
             PROVE  sw[s].mac \in Active /\ Joined(Active \ {sw[s].mac}, Other(sw[s].mac, s), Home)
  BY DEF WayHome, NeverStopped
<1>1. Near(sw) /\ Ready(sw, air)
      /\ (\A i \in DOMAIN air : air[i].is.kind = "tick") /\ \A t \in Switches : sw[t].tcOut = None
  BY RestIs
<1>2. Silent(sw, air)
  BY <1>1 DEF Silent
<1>3. Way(sw)
  BY <1>1, <1>2, WayIs
<1>4. Active = ActiveOf(sw)
  BY DEF Active, ActiveOf, Plugged, PluggedOf
<1>5. LeadsHome(Active, s, sw[s].mac)
  BY <1>3, <1>4 DEF Way
<1>6. QED BY <1>5 DEF LeadsHome

\* LearntWayHome: under the same condition, what the switches have learnt about a station leads to
\* it once things have settled: the port forwards at both ends of its cable, and behind it the
\* station is reached without coming back.  A switch whose port in use changes its role empties
\* its table and tells the others to do so (stp.ts:145-152 and 246-253, switch.ts:40-44), and
\* nobody with an address is left who has not heard of it.
THEOREM LearntWayHome == Cardinality(Switches) <= MaxAge + 1 => (Spec => []WayHome)
<1> SUFFICES ASSUME Cardinality(Switches) <= MaxAge + 1 PROVE Spec => []WayHome
  OBVIOUS
<1>1. Spec => []WayInv
  BY WayHolds
<1>2. TInv /\ TreeInv /\ WayInv => WayHome
  BY RestWay
<1>3. QED BY <1>1, <1>2, TypesHold, TreeHolds, PTL
=============================================================================
