--------------------------- MODULE GatewayProofs ---------------------------
(***************************************************************************)
(* What MCGateway checks of the load balancer, of two lines and of         *)
(* published ports, proved.  A balanced request fails only when no backend *)
(* is left to ask, its connection was broken off or there is no address    *)
(* (FailsOnlyAtLast), and a connection goes on as long as both ends take   *)
(* it for open: through the balancer unless that had to give it up         *)
(* (OpenPassed), by the line it was made on (KeepsItsLine), over the proxy *)
(* port that it has for itself (OnePortEach, StillCarried).  All that is   *)
(* used of the instance is in BalancerFacts, FlowFacts, LineFacts and      *)
(* PortFacts.                                                              *)
(***************************************************************************)
EXTENDS MCGateway, Integers, Sequences, FiniteSetTheorems, WellFoundedInduction, TLAPS

-------------------------------------------------------------------------------
(* Numbers *)

NatOrder == {ss \in Nat \X Nat : ss[1] < ss[2]}

\* A set of numbers has a smallest one.
LEMMA Smallest ==
  ASSUME NEW S \in SUBSET Nat, S # {}
  PROVE  \E m \in S : \A k \in S : m <= k
<1>1. IsWellFoundedOn(NatOrder, Nat)
  BY NatLessThanWellFounded DEF NatOrder, OpToRel
<1>2. PICK m \in S : \A y \in S : ~ (<<y, m>> \in NatOrder)
  BY <1>1, WFMin
<1>3. \A k \in S : ~ (k < m)
  BY <1>2 DEF NatOrder
<1>4. QED BY <1>3

LEMMA MinIs ==
  ASSUME NEW S \in SUBSET Nat, S # {}
  PROVE  L!Min(S) \in S
<1>1. \E m \in S : \A k \in S : m <= k
  BY Smallest
<1>2. QED BY <1>1 DEF L!Min

\* The smallest value of f on X.
LEMMA SmallestOf ==
  ASSUME NEW X, X # {}, NEW f, \A x \in X : f[x] \in Nat
  PROVE  \E x \in X : \A y \in X : f[x] <= f[y]
<1> DEFINE S == {f[x] : x \in X}
<1>1. S \in SUBSET Nat /\ S # {}
  OBVIOUS
<1>2. PICK m \in S : \A k \in S : m <= k
  BY <1>1, Smallest
<1>3. QED BY <1>2

\* x lies in one period of n only
LEMMA OnePeriod ==
  ASSUME NEW n \in Nat \ {0}, NEW q \in Int, NEW r \in 0 .. n - 1, NEW x, x = n * q + r
  PROVE  x % n = r
<1>1. x \in Int /\ x % n \in 0 .. n - 1 /\ x = n * (x \div n) + (x % n) /\ x \div n \in Int
  OBVIOUS
<1> DEFINE p == x \div n
           t == x % n
<1> HIDE DEF p, t
<1>2. n * (p - q) = r - t /\ p \in Int /\ t \in 0 .. n - 1
  BY <1>1 DEF p, t
<1>3. p - q = 0
  <2>1. CASE p - q >= 1
    <3>1. n * (p - q) >= n
      BY <1>2, <2>1
    <3>2. QED BY <1>2, <3>1
  <2>2. CASE p - q <= -1
    <3>1. n * (p - q) <= -n
      BY <1>2, <2>2
    <3>2. QED BY <1>2, <3>1
  <2>3. QED BY <1>2, <2>1, <2>2
<1>4. QED BY <1>2, <1>3 DEF t

\* Whatever number one begins at, one comes by every place within a period.
LEMMA EachTurn ==
  ASSUME NEW n \in Nat \ {0}, NEW b \in Nat, NEW i \in 0 .. n - 1
  PROVE  \E k \in 0 .. n - 1 : (b + k) % n = i
<1> DEFINE q == b \div n
           r == b % n
<1>1. q \in Int /\ r \in 0 .. n - 1 /\ b = n * q + r
  OBVIOUS
<1> HIDE DEF q, r
<1>2. CASE r <= i
  <2> DEFINE k == i - r
             x == b + k
  <2>1. x = n * q + i /\ k \in 0 .. n - 1
    BY <1>1, <1>2
  <2> HIDE DEF x
  <2>2. x % n = i
    BY <1>1, <2>1, OnePeriod
  <2>3. QED BY <2>1, <2>2 DEF x
<1>3. CASE r > i
  <2> DEFINE k == n + i - r
             x == b + k
             p == q + 1
  <2>1. x = n * p + i /\ k \in 0 .. n - 1 /\ p \in Int
    BY <1>1, <1>3
  <2> HIDE DEF x, p
  <2>2. x % n = i
    BY <2>1, OnePeriod
  <2>3. QED BY <2>1, <2>2 DEF x
<1>4. QED BY <1>1, <1>2, <1>3

-------------------------------------------------------------------------------
(* The balancer *)

Balancer ==
  [mode : {"l7", "l4"}, alg : {"round-robin", "least-conn"}, sticky : BOOLEAN, check : BOOLEAN, pool : Pools,
   rr : Nat, out : [Servers -> Nat], down : [Servers -> BOOLEAN], streak : [Servers -> Nat]]

Request == [state : {"none", "asked", "200", "502"}, at : Servers \cup {"none"},
            tried : SUBSET (Servers \cup {"none"})]

\* What is used of the instance.
LEMMA BalancerFacts ==
  /\ Pools \subseteq Seq(Servers) /\ FailRounds \in Nat /\ IsFiniteSet(LbClients) /\ "none" \notin Servers
<1>1. Pools \subseteq Seq(Servers)
  BY DEF Pools, Servers
<1>2. IsFiniteSet(LbClients)
  <2>1. IsFiniteSet({"c"}) /\ IsFiniteSet({"c"} \cup {"d"})
    BY FS_EmptySet, FS_AddElement
  <2>a. IsFiniteSet(({"c"} \cup {"d"}) \cup {"six"})
    BY <2>1, FS_AddElement
  <2>2. LbClients = ({"c"} \cup {"d"}) \cup {"six"}
    BY DEF LbClients
  <2>3. QED BY <2>a, <2>2
<1>3. FailRounds \in Nat /\ "none" \notin Servers
  BY DEF FailRounds, Servers
<1>4. QED BY <1>1, <1>2, <1>3

InOf(b, tried) == {s \in L!PoolOf(b) \ tried : L!IsUp(b, s)}

LEMMA PoolIs ==
  ASSUME NEW b \in Balancer
  PROVE  /\ b.pool \in Seq(Servers) /\ Len(b.pool) \in Nat /\ DOMAIN b.pool = 1 .. Len(b.pool)
         /\ L!PoolOf(b) \subseteq Servers
         /\ \A s \in L!PoolOf(b) : \E i \in 1 .. Len(b.pool) : b.pool[i] = s
<1>1. b.pool \in Seq(Servers)
  BY BalancerFacts DEF Balancer
<1>2. Len(b.pool) \in Nat /\ DOMAIN b.pool = 1 .. Len(b.pool) /\ \A i \in DOMAIN b.pool : b.pool[i] \in Servers
  BY <1>1
<1>3. QED BY <1>1, <1>2 DEF L!PoolOf

\* The turn, counted from rr, comes to somebody who is in.
Turn(b, aliveOnes) ==
  L!Min({k \in 0 .. Len(b.pool) - 1 : b.pool[((b.rr + k) % Len(b.pool)) + 1] \in aliveOnes})

LEMMA TurnIs ==
  ASSUME NEW b \in Balancer, NEW X \in SUBSET L!PoolOf(b), X # {}
  PROVE  /\ Len(b.pool) \in Nat \ {0} /\ Turn(b, X) \in 0 .. Len(b.pool) - 1
         /\ b.pool[((b.rr + Turn(b, X)) % Len(b.pool)) + 1] \in X
<1> DEFINE n == Len(b.pool)
           K == {k \in 0 .. n - 1 : b.pool[((b.rr + k) % n) + 1] \in X}
<1>1. PICK i \in 1 .. n : b.pool[i] \in X
  BY PoolIs
<1>2. n \in Nat \ {0} /\ b.rr \in Nat /\ i - 1 \in 0 .. n - 1
  BY <1>1, PoolIs DEF Balancer
<1> DEFINE m == n
<1> HIDE DEF m
<1>3. \E k \in 0 .. n - 1 : (b.rr + k) % n = i - 1
  BY <1>2, EachTurn
<1>4. K # {} /\ K \in SUBSET Nat
  <2>1. PICK k \in 0 .. n - 1 : (b.rr + k) % n = i - 1
    BY <1>3
  <2>2. ((b.rr + k) % n) + 1 = i
    BY <1>2, <2>1
  <2>3. k \in K
    BY <1>1, <2>2
  <2>4. K \subseteq 0 .. n - 1
    OBVIOUS
  <2> HIDE DEF K
  <2>5. K # {}
    BY <2>3
  <2>6. QED BY <1>2, <2>4, <2>5
<1>5. L!Min(K) \in K
  BY <1>4, MinIs
<1>6. QED BY <1>2, <1>5 DEF Turn


\* Who is in and has the fewest connections.
Fewest(X) == {s \in X : \A t \in X : L!Active(s) <= L!Active(t)}
FirstListed(b, X) == b.pool[L!Min({i \in 1 .. Len(b.pool) : b.pool[i] \in X})]

\* The choice, if somebody is in.
Chosen(b, X) == IF b.alg = "least-conn" THEN FirstListed(b, Fewest(X))
                ELSE b.pool[((b.rr + Turn(b, X)) % Len(b.pool)) + 1]

\* The turn after that.
Turned(b, X) == [b EXCEPT !.rr = (b.rr + Turn(b, X) + 1) % Len(b.pool)]

\* What Pick yields, X being who is in.
Picked(b, aff, c, X, p) ==
  /\ X = {} => p.to = "none" /\ p.lb = b
  /\ X # {} /\ b.sticky /\ aff[c] \in X => p.to = aff[c] /\ p.lb = b
  /\ X # {} /\ ~ (b.sticky /\ aff[c] \in X) =>
        /\ p.to = Chosen(b, X)
        /\ p.lb = IF b.alg = "least-conn" THEN b ELSE Turned(b, X)

LEMMA PickIs ==
  ASSUME NEW b \in Balancer, NEW aff, NEW c, NEW tried
  PROVE  Picked(b, aff, c, InOf(b, tried), L!Pick(b, aff, c, tried))
<1> DEFINE X == InOf(b, tried)
           p == L!Pick(b, aff, c, tried)
<1>1. [b EXCEPT !.rr = (@ + Turn(b, X) + 1) % Len(b.pool)] = Turned(b, X)
  BY DEF Balancer, Turned
<1>2. p = IF X = {} THEN [to |-> "none", lb |-> b, affinity |-> aff]
          ELSE IF b.sticky /\ aff[c] \in X THEN [to |-> aff[c], lb |-> b, affinity |-> aff]
          ELSE [to |-> Chosen(b, X),
                lb |-> IF b.alg = "least-conn" THEN b ELSE [b EXCEPT !.rr = (@ + Turn(b, X) + 1) % Len(b.pool)],
                affinity |-> IF b.sticky THEN [aff EXCEPT ![c] = Chosen(b, X)] ELSE aff]
  BY DEF L!Pick, InOf, Chosen, FirstListed, Fewest, Turn
<1> HIDE DEF X, p
<1>3. Picked(b, aff, c, X, p)
  BY <1>1, <1>2 DEF Picked
<1>4. QED BY <1>3 DEF X, p

\* Taking turns leaves everything else as it is.
TurnsOnly(b, x) == x \in Balancer /\ x.mode = b.mode /\ x.pool = b.pool /\ x.out = b.out /\ x.down = b.down

LEMMA PickTurns ==
  ASSUME NEW b \in Balancer, NEW aff, NEW c, NEW tried
  PROVE  TurnsOnly(b, L!Pick(b, aff, c, tried).lb)
<1> DEFINE X == InOf(b, tried)
           p == L!Pick(b, aff, c, tried)
           n == Len(b.pool)
           t == Turn(b, X)
           e == (b.rr + t + 1) % n
           x == [b EXCEPT !.rr = e]
<1>1. Picked(b, aff, c, X, p)
  BY PickIs
<1>2. X \in SUBSET L!PoolOf(b)
  BY DEF InOf
<1>3. TurnsOnly(b, b)
  BY DEF TurnsOnly
<1> HIDE DEF X, p
<1>4. ASSUME X # {} PROVE TurnsOnly(b, x)
  <2>1. n \in Nat \ {0} /\ t \in 0 .. n - 1 /\ b.rr \in Nat
    BY <1>2, <1>4, TurnIs DEF Balancer
  <2> HIDE DEF t, n
  <2>2. e \in Nat
    BY <2>1
  <2> HIDE DEF e
  <2>3. x \in Balancer
    BY <2>2 DEF Balancer
  <2>4. x.mode = b.mode /\ x.pool = b.pool /\ x.out = b.out /\ x.down = b.down
    BY DEF Balancer
  <2>5. QED BY <2>3, <2>4 DEF TurnsOnly
<1>5. Turned(b, X) = x
  BY DEF Turned
<1>6. p.lb = b \/ (X # {} /\ p.lb = Turned(b, X))
  BY <1>1 DEF Picked
<1> HIDE DEF x
<1>7. TurnsOnly(b, p.lb)
  BY <1>3, <1>4, <1>5, <1>6
<1>8. QED BY <1>7 DEF p

\* A connection that is passed through.
PassedFlow == [client : LbClients, to : Servers, fins : SUBSET {"client", "server"}, seen : BOOLEAN,
         young : BOOLEAN, closed : Nat]

\* Connections are counted.
LEMMA ActiveIs ==
  ASSUME flows \in Seq(PassedFlow), NEW s
  PROVE  L!Active(s) \in Nat
<1> DEFINE C == {c \in LbClients : req[c].state = "asked" /\ req[c].at = s}
           F == {i \in DOMAIN flows : flows[i].to = s /\ flows[i].closed = 0}
<1>1. Cardinality(C) \in Nat
  BY BalancerFacts, FS_Subset, FS_CardinalityType
<1>2. Cardinality(F) \in Nat
  <2> DEFINE n == Len(flows)
  <2>1. F \in SUBSET (1 .. n) /\ n \in Int
    OBVIOUS
  <2> HIDE DEF F, n
  <2>2. IsFiniteSet(1 .. n)
    BY <2>1, FS_Interval
  <2>3. QED BY <2>1, <2>2, FS_Subset, FS_CardinalityType
<1>3. L!Active(s) = L!Cardinality(C) + L!Cardinality(F)
  BY DEF L!Active
<1> HIDE DEF C, F
<1>4. L!Cardinality(C) = Cardinality(C) /\ L!Cardinality(F) = Cardinality(F)
  BY DEF L!Cardinality, Cardinality
<1>5. QED BY <1>1, <1>2, <1>3, <1>4

LEMMA ChosenIsIn ==
  ASSUME flows \in Seq(PassedFlow), NEW b \in Balancer, NEW X \in SUBSET L!PoolOf(b), X # {}
  PROVE  Chosen(b, X) \in X
<1>1. CASE b.alg = "least-conn"
  <2> DEFINE f == [s \in X |-> L!Active(s)]
             Y == Fewest(X)
             K == {i \in 1 .. Len(b.pool) : b.pool[i] \in Y}
  <2>1. \A s \in X : L!Active(s) \in Nat /\ f[s] = L!Active(s)
    BY ActiveIs
  <2> HIDE DEF f
  <2>2. \E s \in X : \A t \in X : f[s] <= f[t]
    BY SMTT(60), <2>1, SmallestOf
  <2>3. Y # {} /\ Y \subseteq X
    BY <2>1, <2>2 DEF Fewest
  <2> HIDE DEF Y
  <2>4. K # {} /\ K \in SUBSET Nat
    <3>1. PICK s \in Y : s \in L!PoolOf(b)
      BY <2>3
    <3>2. PICK i \in 1 .. Len(b.pool) : b.pool[i] = s
      BY <3>1, PoolIs
    <3>3. Len(b.pool) \in Nat
      BY PoolIs
    <3>4. QED BY <3>1, <3>2, <3>3
  <2>5. L!Min(K) \in K
    BY <2>4, MinIs
  <2>6. b.pool[L!Min(K)] \in Y
    BY <2>5
  <2>7. Chosen(b, X) = b.pool[L!Min(K)]
    BY <1>1 DEF Chosen, FirstListed, Y
  <2>8. QED BY <2>3, <2>6, <2>7
<1>2. CASE b.alg # "least-conn"
  BY <1>2, TurnIs DEF Chosen
<1>3. QED BY <1>1, <1>2

\* Somebody is asked as long as somebody is in.
LEMMA PickFinds ==
  ASSUME flows \in Seq(PassedFlow), NEW b \in Balancer, NEW aff, NEW c, NEW tried
  PROVE  LET p == L!Pick(b, aff, c, tried)
         IN  /\ p.to \in (Servers \ tried) \cup {"none"}
             /\ p.to = "none" => \A s \in L!PoolOf(b) : s \in tried \/ ~ L!IsUp(b, s)
<1> DEFINE X == InOf(b, tried)
           p == L!Pick(b, aff, c, tried)
<1>1. X \in SUBSET L!PoolOf(b) /\ X \cap tried = {} /\ (X = {} => \A s \in L!PoolOf(b) : s \in tried \/ ~ L!IsUp(b, s))
  BY DEF InOf
<1>2. Picked(b, aff, c, X, p)
  BY PickIs
<1> HIDE DEF X, p
<1>3. (X = {} => p.to = "none") /\ (X # {} => (p.to = aff[c] /\ aff[c] \in X) \/ p.to = Chosen(b, X))
  BY <1>2 DEF Picked
<1>4. X # {} => p.to \in X
  BY <1>1, <1>3, ChosenIsIn
<1>5. L!PoolOf(b) \subseteq Servers /\ "none" \notin Servers
  BY PoolIs, BalancerFacts
<1>6. p.to \in (Servers \ tried) \cup {"none"} /\ (p.to = "none" => X = {})
  BY <1>1, <1>3, <1>4, <1>5
<1>7. QED BY <1>1, <1>6 DEF p


-------------------------------------------------------------------------------
(* The invariant: a balancer that passes requests on itself has no flows, and one that passes *)
(* connections through has no requests *)

Requests(b, rs, fs) ==
  /\ b.mode = "l7" => fs = <<>>
  /\ b.mode # "l7" => \A c \in LbClients : rs[c].state = "none"

LbInv == lb \in Balancer /\ req \in [LbClients -> Request] /\ Requests(lb, req, flows)

\* Nobody is refused while somebody is in, but for the lack of an address or a broken connection.
Refuses(rs, b, c) ==
  rs[c].state = "502" /\ req[c].state # "502" =>
    \/ home' # "up"
    \/ req[c].state = "asked" /\ req[c].at \in gone
    \/ \A s \in L!PoolOf(b) : s \in rs[c].tried \/ ~ L!IsUp(b, s)

\* The choice of a request to pass on
Choice(b, aff, c, tried) ==
  IF home = "up" THEN L!Pick(b, aff, c, tried) ELSE [to |-> "none", lb |-> b, affinity |-> aff]

LEMMA ChoiceIs ==
  ASSUME flows \in Seq(PassedFlow), NEW b \in Balancer, NEW aff, NEW c, NEW tried
  PROVE  LET p == Choice(b, aff, c, tried)
         IN  /\ TurnsOnly(b, p.lb) /\ p.to \in (Servers \ tried) \cup {"none"}
             /\ home = "up" /\ p.to = "none" => \A s \in L!PoolOf(b) : s \in tried \/ ~ L!IsUp(b, s)
<1>1. CASE home = "up"
  <2> DEFINE p == L!Pick(b, aff, c, tried)
  <2>1. Choice(b, aff, c, tried) = p
    BY <1>1 DEF Choice
  <2>2. TurnsOnly(b, p.lb)
    BY PickTurns
  <2>3. p.to \in (Servers \ tried) \cup {"none"}
        /\ (p.to = "none" => \A s \in L!PoolOf(b) : s \in tried \/ ~ L!IsUp(b, s))
    BY PickFinds
  <2> HIDE DEF p
  <2>4. QED BY <2>1, <2>2, <2>3
<1>2. CASE home # "up"
  BY <1>2 DEF Choice, TurnsOnly
<1>3. QED BY <1>1, <1>2

LEMMA ForwardIs ==
  ASSUME flows = <<>>, NEW b \in Balancer, NEW aff, NEW c \in LbClients, NEW tried \in SUBSET (Servers \cup {"none"}),
         req \in [LbClients -> Request], L!Forward(b, aff, c, tried), home' = home
  PROVE  /\ lb' \in Balancer /\ lb'.mode = b.mode /\ req' \in [LbClients -> Request]
         /\ \A d \in LbClients : Refuses(req', lb', d)
<1> DEFINE p == Choice(b, aff, c, tried)
           r == [state |-> IF p.to = "none" THEN "502" ELSE "asked", at |-> p.to, tried |-> tried]
<1>1. lb' = p.lb /\ req' = [req EXCEPT ![c] = r]
  BY DEF L!Forward, Choice
<1>0. flows \in Seq(PassedFlow)
  OBVIOUS
<1>2. TurnsOnly(b, p.lb)
  BY <1>0, ChoiceIs
<1>3. p.to \in Servers \cup {"none"}
      /\ (home = "up" /\ p.to = "none" => \A s \in L!PoolOf(b) : s \in tried \/ ~ L!IsUp(b, s))
  BY <1>0, ChoiceIs
<1> HIDE DEF p
<1>4. r \in Request /\ r.tried = tried /\ (r.state = "502" => p.to = "none")
  BY <1>3 DEF Request
<1> HIDE DEF r
<1>5. req' \in [LbClients -> Request] /\ req'[c] = r /\ \A d \in LbClients \ {c} : req'[d] = req[d]
  BY <1>1, <1>4
<1> DEFINE x == p.lb
<1>6. L!PoolOf(x) = L!PoolOf(b) /\ \A s : L!IsUp(x, s) = L!IsUp(b, s)
  BY <1>2 DEF TurnsOnly, L!PoolOf, L!IsUp
<1> HIDE DEF x
<1>7. \A d \in LbClients : Refuses(req', x, d)
  BY <1>3, <1>4, <1>5, <1>6 DEF Refuses
<1>8. QED BY <1>1, <1>2, <1>5, <1>7 DEF TurnsOnly, x

\* No request ends.
NoneEnds == \A d \in LbClients : req'[d].state = "502" => req[d].state = "502"

LEMMA NoneRefused ==
  ASSUME NoneEnds
  PROVE  \A d \in LbClients : Refuses(req', lb', d)
BY DEF NoneEnds, Refuses

StepIs == LbInv' /\ \A d \in LbClients : Refuses(req', lb', d)

\* Only the requests change, of which one gets a state of its own.
LEMMA RequestsOnly ==
  ASSUME LbInv, lb' = lb, flows' = flows, NEW c \in LbClients, NEW r \in Request, r.state # "502",
         req' = [req EXCEPT ![c] = r], lb.mode = "l7" \/ r.state = "none"
  PROVE  StepIs
<1>1. req' \in [LbClients -> Request] /\ req'[c] = r /\ \A d \in LbClients \ {c} : req'[d] = req[d]
  BY DEF LbInv
<1>2. NoneEnds
  BY <1>1 DEF NoneEnds
<1>3. LbInv'
  BY <1>1 DEF LbInv, Requests
<1>4. QED BY <1>2, <1>3, NoneRefused DEF StepIs

LEMMA IdleIs == L!Idle \in Request /\ L!Idle.state = "none" /\ [L!Idle EXCEPT !.state = "200"] \in Request
                /\ [L!Idle EXCEPT !.state = "200"].state = "200"
BY DEF L!Idle, Request

\* The requests stay as they are.
LEMMA BalancerOnly ==
  ASSUME LbInv, req' = req, lb' \in Balancer, lb'.mode = lb.mode, lb.mode = "l7" => flows' = <<>>
  PROVE  StepIs
<1>1. NoneEnds
  BY DEF NoneEnds
<1>2. LbInv'
  BY DEF LbInv, Requests
<1>3. QED BY <1>1, <1>2, NoneRefused DEF StepIs

LEMMA LeftOutIs ==
  ASSUME NEW b \in Balancer, NEW s
  PROVE  L!LeftOut(b, s) \in Balancer /\ L!LeftOut(b, s).mode = b.mode
BY BalancerFacts DEF L!LeftOut, Balancer

LEMMA OnRequestIs ==
  ASSUME LbInv, NEW c \in LbClients, L!OnRequest(c)
  PROVE  StepIs
<1>1. flows = <<>> /\ flows' = flows /\ lb.mode = "l7" /\ L!Forward(lb, affinity, c, {}) /\ home' = home
  BY DEF L!OnRequest, L!world, LbInv, Requests
<1>2. lb \in Balancer /\ req \in [LbClients -> Request] /\ {} \in SUBSET (Servers \cup {"none"})
  BY DEF LbInv
<1>3. lb' \in Balancer /\ lb'.mode = lb.mode /\ req' \in [LbClients -> Request]
      /\ \A d \in LbClients : Refuses(req', lb', d)
  BY <1>1, <1>2, ForwardIs
<1>4. QED BY <1>1, <1>3 DEF StepIs, LbInv, Requests

LEMMA FailedIs ==
  ASSUME LbInv, NEW c \in LbClients, L!Failed(c)
  PROVE  StepIs
<1> DEFINE b == L!LeftOut(lb, req[c].at)
           tried == req[c].tried \cup {req[c].at}
<1>1. flows' = flows /\ req[c].state = "asked" /\ L!Forward(b, affinity, c, tried) /\ home' = home
  BY DEF L!Failed, L!world
<1>2. lb.mode = "l7" /\ flows = <<>> /\ req \in [LbClients -> Request]
  BY <1>1 DEF LbInv, Requests
<1>3. b \in Balancer /\ b.mode = "l7"
  BY <1>2, LeftOutIs DEF LbInv
<1>4. tried \in SUBSET (Servers \cup {"none"})
  <2>1. req[c] \in Request
    BY <1>2
  <2>2. QED BY <2>1 DEF Request
<1> HIDE DEF b, tried
<1>5. lb' \in Balancer /\ lb'.mode = b.mode /\ req' \in [LbClients -> Request]
      /\ \A d \in LbClients : Refuses(req', lb', d)
  BY <1>1, <1>2, <1>3, <1>4, ForwardIs
<1>6. QED BY <1>1, <1>2, <1>3, <1>5 DEF StepIs, LbInv, Requests

\* The request ends with 502 at once.
Ended(r) == [r EXCEPT !.state = "502", !.at = "none"]

LEMMA EndedIs ==
  ASSUME NEW r \in Request
  PROVE  Ended(r) \in Request
BY DEF Ended, Request

LEMMA InterruptedIs ==
  ASSUME LbInv, NEW c \in LbClients, L!Interrupted(c)
  PROVE  StepIs
<1>1. lb' = lb /\ flows' = flows /\ req[c].state = "asked" /\ req[c].at \in gone
  BY DEF L!Interrupted
<1>2. req \in [LbClients -> Request] /\ lb.mode = "l7"
  BY <1>1 DEF LbInv, Requests
<1> DEFINE r == Ended(req[c])
<1>3. req' = [req EXCEPT ![c] = r]
  BY <1>2 DEF L!Interrupted, Ended, Request
<1>4. r \in Request
  BY <1>2, EndedIs
<1> HIDE DEF r
<1>5. req' \in [LbClients -> Request] /\ \A d \in LbClients \ {c} : req'[d] = req[d]
  BY <1>2, <1>3, <1>4
<1>6. \A d \in LbClients : Refuses(req', lb', d)
  BY <1>1, <1>5 DEF Refuses
<1>7. LbInv'
  BY <1>1, <1>2, <1>5 DEF LbInv, Requests
<1>8. QED BY <1>6, <1>7 DEF StepIs

LEMMA AnsweredIs ==
  ASSUME LbInv, NEW c \in LbClients, L!Served(c) \/ L!Done(c)
  PROVE  StepIs
<1>1. CASE L!Served(c)
  <2> DEFINE r == [L!Idle EXCEPT !.state = "200"]
  <2>1. lb' = lb /\ flows' = flows /\ req' = [req EXCEPT ![c] = r] /\ req[c].state = "asked"
    BY <1>1 DEF L!Served
  <2>2. lb.mode = "l7"
    BY <2>1 DEF LbInv, Requests
  <2>3. r \in Request /\ r.state # "502"
    BY IdleIs
  <2> HIDE DEF r
  <2>4. QED BY <2>1, <2>2, <2>3, RequestsOnly
<1>2. CASE L!Done(c)
  <2> DEFINE r == L!Idle
  <2>1. lb' = lb /\ flows' = flows /\ req' = [req EXCEPT ![c] = r]
    BY <1>2 DEF L!Done
  <2>2. r \in Request /\ r.state = "none"
    BY IdleIs
  <2> HIDE DEF r
  <2>3. QED BY <2>1, <2>2, RequestsOnly
<1>3. QED BY <1>1, <1>2

-------------------------------------------------------------------------------
(* The steps that leave the requests alone *)

LEMMA SynIs ==
  ASSUME LbInv, NEW c \in LbClients, L!Syn(c)
  PROVE  StepIs
<1>1. lb.mode = "l4" /\ req' = req /\ lb \in Balancer
  BY DEF L!Syn, LbInv
<1> DEFINE mine == L!FlowAt(c)
           f == flows[CHOOSE k \in mine : TRUE]
           out == L!LeftOut(lb, f.to)
<1>2. lb' = lb \/ (\E b \in {lb, out} : \E aff : lb' = L!Pick(b, aff, c, {}).lb)
  BY DEF L!Syn
<1>3. out \in Balancer /\ out.mode = lb.mode
  BY <1>1, LeftOutIs
<1> HIDE DEF out
<1>4. lb' \in Balancer /\ lb'.mode = lb.mode
  <2>1. CASE lb' = lb
    BY <1>1, <2>1
  <2>2. ASSUME NEW b \in {lb, out}, NEW aff, lb' = L!Pick(b, aff, c, {}).lb
        PROVE  lb' \in Balancer /\ lb'.mode = lb.mode
    <3>1. b \in Balancer /\ b.mode = lb.mode
      BY <1>1, <1>3
    <3>2. TurnsOnly(b, L!Pick(b, aff, c, {}).lb)
      BY <3>1, PickTurns
    <3>3. QED BY <2>2, <3>1, <3>2 DEF TurnsOnly
  <2>3. QED BY <1>2, <2>1, <2>2
<1>5. QED BY <1>1, <1>4, BalancerOnly

LEMMA SegmentIs ==
  ASSUME LbInv,
         (\E c \in LbClients, flag \in {"ack", "fin", "rst"} : L!FromClient(c, flag))
         \/ (\E i \in DOMAIN flows : L!SynAck(i) \/ (\E flag \in {"ack", "fin", "rst"} : L!FromServer(i, flag)))
  PROVE  StepIs
<1>0. lb \in Balancer /\ (lb.mode = "l7" => DOMAIN flows = {})
  BY DEF LbInv, Requests
<1>1. ASSUME NEW c \in LbClients, NEW flag, L!FromClient(c, flag)
      PROVE  StepIs
  <2>1. lb.mode = "l4" /\ lb' = lb /\ req' = req
    BY <1>1 DEF L!FromClient
  <2>2. QED BY <1>0, <2>1, BalancerOnly
<1>2. ASSUME NEW i \in DOMAIN flows, L!SynAck(i)
      PROVE  StepIs
  <2>1. lb.mode # "l7" /\ lb' = lb /\ req' = req
    BY <1>0, <1>2 DEF L!SynAck
  <2>2. QED BY <1>0, <2>1, BalancerOnly
<1>3. ASSUME NEW i \in DOMAIN flows, NEW flag, L!FromServer(i, flag)
      PROVE  StepIs
  <2> DEFINE out == L!LeftOut(lb, flows[i].to)
  <2>1. lb.mode # "l7" /\ (lb' = lb \/ lb' = out) /\ req' = req
    BY <1>0, <1>3 DEF L!FromServer
  <2>2. out \in Balancer /\ out.mode = lb.mode
    BY <1>0, LeftOutIs
  <2> HIDE DEF out
  <2>3. QED BY <1>0, <2>1, <2>2, BalancerOnly
<1>4. QED BY <1>1, <1>2, <1>3

\* Of no flows, none are kept.
LEMMA AmongNone == L!Among(<<>>, {}) = <<>>
<1>1. L!Cardinality({}) = 0
  <2>1. L!Cardinality({}) = Cardinality({})
    BY DEF L!Cardinality, Cardinality
  <2>2. QED BY <2>1, FS_EmptySet
<1> DEFINE g(k) == <<>>[CHOOSE i \in {} : L!Cardinality({j \in {} : j <= i}) = k]
<1>2. L!Among(<<>>, {}) = [k \in 1 .. L!Cardinality({}) |-> g(k)]
  BY DEF L!Among
<1> HIDE DEF g
<1>3. QED BY <1>1, <1>2


\* The results of checks.
LEMMA CheckedIs ==
  ASSUME lb \in Balancer, NEW S, NEW ok
  PROVE  L!Checked(S, ok) \in Balancer /\ L!Checked(S, ok).mode = lb.mode /\ L!Checked(S, ok).out = lb.out
<1> DEFINE r == [s \in Servers |-> IF s \in S THEN L!Result(lb, s, s \notin ok)
                                  ELSE [down |-> lb.down[s], streak |-> lb.streak[s]]]
           newDown == [s \in Servers |-> r[s].down]
           newStreak == [s \in Servers |-> r[s].streak]
<1>1. L!Checked(S, ok) = [lb EXCEPT !.down = newDown, !.streak = newStreak]
  BY DEF L!Checked
<1>2. \A s \in Servers : r[s].down \in BOOLEAN /\ r[s].streak \in Nat
  <2> SUFFICES ASSUME NEW s \in Servers  PROVE r[s].down \in BOOLEAN /\ r[s].streak \in Nat
    OBVIOUS
  <2> DEFINE k == lb.streak[s]
             d == lb.down[s]
             bad == s \notin ok
             more == k + 1
  <2>1. k \in Nat /\ more \in Nat /\ d \in BOOLEAN
    BY DEF Balancer
  <2>2. bad \in BOOLEAN
    OBVIOUS
  <2> HIDE DEF k, d, bad, more
  <2>3. r[s] \in {[down |-> d, streak |-> k], [down |-> d, streak |-> 0],
                  [down |-> d, streak |-> more], [down |-> bad, streak |-> 0]}
    BY DEF L!Result, k, d, bad, more
  <2> HIDE DEF r
  <2>4. QED BY <2>1, <2>2, <2>3
<1>3. newDown \in [Servers -> BOOLEAN] /\ newStreak \in [Servers -> Nat]
  BY <1>2
<1> HIDE DEF newDown, newStreak, r
<1>4. QED BY <1>1, <1>3 DEF Balancer

LEMMA RoundIs ==
  ASSUME LbInv, L!Round
  PROVE  StepIs
<1>0. lb \in Balancer
  BY DEF LbInv
<1>1. PICK S \in {{}, Servers} :
        lb' = [L!Checked(S, IF home = "up" THEN serving ELSE {}) EXCEPT
                 !.out = [s \in Servers |-> IF @[s] = 0 THEN 0 ELSE @[s] - 1]]
  BY DEF L!Round
<1> DEFINE b == L!Checked(S, IF home = "up" THEN serving ELSE {})
           newOut == [s \in Servers |-> IF b.out[s] = 0 THEN 0 ELSE b.out[s] - 1]
<1>2. b \in Balancer /\ b.mode = lb.mode
  BY <1>0, CheckedIs
<1>3. lb' = [b EXCEPT !.out = [s \in Servers |-> IF @[s] = 0 THEN 0 ELSE @[s] - 1]]
  BY <1>1
<1> HIDE DEF b
<1>4. lb' = [b EXCEPT !.out = newOut]
  BY <1>2, <1>3 DEF Balancer
<1>5. newOut \in [Servers -> Nat]
  BY <1>2 DEF Balancer
<1> HIDE DEF newOut
<1>6. lb' \in Balancer /\ lb'.mode = lb.mode
  BY <1>2, <1>4, <1>5 DEF Balancer
<1>7. lb.mode = "l7" => flows' = <<>>
  <2>1. SUFFICES ASSUME flows = <<>>  PROVE flows' = <<>>
    BY DEF LbInv, Requests
  <2>2. {i \in DOMAIN flows : flows[i].closed # 1} = {}
    BY <2>1
  <2>3. L!Expired = <<>>
    BY <2>1, <2>2, AmongNone DEF L!Expired
  <2> DEFINE g(i) == [L!Expired[i] EXCEPT !.young = FALSE, !.closed = IF @ = 0 THEN 0 ELSE @ - 1]
  <2>4. flows' = [i \in DOMAIN L!Expired |-> g(i)]
    BY DEF L!Round
  <2> HIDE DEF g
  <2>5. QED BY <2>3, <2>4
<1>8. req' = req
  BY DEF L!Round
<1>9. QED BY <1>6, <1>7, <1>8, BalancerOnly

LEMMA SetConfigIs ==
  ASSUME LbInv, NEW p \in Pools, NEW check \in BOOLEAN, NEW sticky \in BOOLEAN, L!SetConfig(p, check, sticky)
  PROVE  StepIs
<1> DEFINE b == [lb EXCEPT !.pool = p, !.check = check, !.sticky = sticky]
           Kept(s) == s \in L!PoolOf(b)
           newOut == [s \in Servers |-> IF Kept(s) THEN b.out[s] ELSE 0]
           newDown == [s \in Servers |-> Kept(s) /\ check /\ b.down[s]]
           newStreak == [s \in Servers |-> IF Kept(s) /\ check THEN b.streak[s] ELSE 0]
<1>0. lb \in Balancer
  BY DEF LbInv
<1>1. b \in Balancer
  BY <1>0 DEF Balancer
<1>2. b.mode = lb.mode
  BY <1>0 DEF Balancer
<1>3. req' = req /\ flows' = L!Among(flows, {i \in DOMAIN flows : Kept(flows[i].to)})
  BY DEF L!SetConfig
<1>4. lb' = [b EXCEPT !.out = [s \in Servers |-> IF Kept(s) THEN @[s] ELSE 0],
                      !.down = [s \in Servers |-> Kept(s) /\ check /\ @[s]],
                      !.streak = [s \in Servers |-> IF Kept(s) /\ check THEN @[s] ELSE 0]]
  BY DEF L!SetConfig
<1> HIDE DEF b, Kept
<1>5. lb' = [b EXCEPT !.out = newOut, !.down = newDown, !.streak = newStreak]
  BY <1>1, <1>4 DEF Balancer
<1>6. /\ newOut \in [Servers -> Nat] /\ newStreak \in [Servers -> Nat]
      /\ newDown \in [Servers -> BOOLEAN]
  <2>1. \A s \in Servers : b.out[s] \in Nat /\ b.streak[s] \in Nat /\ b.down[s] \in BOOLEAN
    BY <1>1 DEF Balancer
  <2>2. \A s \in Servers : (Kept(s) /\ check /\ b.down[s]) \in BOOLEAN
    OBVIOUS
  <2>3. newDown \in [Servers -> BOOLEAN]
    BY <2>2, Zenon
  <2>4. QED BY <2>1, <2>3
<1> HIDE DEF newOut, newDown, newStreak
<1>7. lb' \in Balancer
  BY <1>1, <1>5, <1>6 DEF Balancer
<1>8. lb'.mode = lb.mode
  BY <1>1, <1>2, <1>5 DEF Balancer
<1>9. lb.mode = "l7" => flows' = <<>>
  <2>1. SUFFICES ASSUME flows = <<>>  PROVE flows' = <<>>
    BY DEF LbInv, Requests
  <2>2. {i \in DOMAIN flows : Kept(flows[i].to)} = {}
    BY <2>1
  <2>3. QED BY <1>3, <2>1, <2>2, AmongNone
<1>10. QED BY <1>3, <1>7, <1>8, <1>9, BalancerOnly

LEMMA WorldIs ==
  ASSUME LbInv, (\E s, told : L!Server(s, told)) \/ (\E same : L!AddressBack(same)) \/ (\E e : L!GivesUp(e))
  PROVE  StepIs
<1>1. lb' = lb /\ req' = req /\ flows' = flows
  BY DEF L!Server, L!AddressBack, L!GivesUp
<1>2. lb \in Balancer /\ (lb.mode = "l7" => flows = <<>>)
  BY DEF LbInv, Requests
<1>3. QED BY <1>1, <1>2, BalancerOnly

LEMMA AddressLostIs ==
  ASSUME LbInv, NEW to \in {"v6", "down"}, NEW S, L!AddressLost(to, S)
  PROVE  StepIs
<1> DEFINE b == L!Checked(S, {})
           r(c) == IF to = "down" \/ c \notin V6Clients THEN L!Idle
                   ELSE IF req[c].state # "asked" THEN req[c] ELSE Ended(req[c])
<1>1. lb' = b /\ flows' = flows /\ home' # "up"
  BY DEF L!AddressLost
<1>2. lb \in Balancer /\ req \in [LbClients -> Request] /\ Requests(lb, req, flows)
  BY DEF LbInv
<1>3. b \in Balancer /\ b.mode = lb.mode
  BY <1>2, CheckedIs
<1>4. req' = [c \in LbClients |-> r(c)]
  BY DEF L!AddressLost, Ended
<1>5. \A c \in LbClients : r(c) \in Request /\ (req[c].state = "none" => r(c).state = "none")
  <2> TAKE c \in LbClients
  <2>1. req[c] \in Request /\ Ended(req[c]) \in Request
    BY <1>2, EndedIs
  <2>2. QED BY <2>1, IdleIs
<1> HIDE DEF b, r
<1>6. req' \in [LbClients -> Request] /\ \A c \in LbClients : req[c].state = "none" => req'[c].state = "none"
  BY <1>4, <1>5
<1>7. Requests(lb', req', flows')
  BY <1>1, <1>2, <1>3, <1>6 DEF Requests
<1>8. LbInv'
  BY <1>1, <1>3, <1>6, <1>7 DEF LbInv
<1>9. \A d \in LbClients : Refuses(req', lb', d)
  BY <1>1 DEF Refuses
<1>10. QED BY <1>8, <1>9 DEF StepIs

-------------------------------------------------------------------------------
LEMMA LbInitIs == L!Init => LbInv
<1> SUFFICES ASSUME L!Init PROVE LbInv
  OBVIOUS
<1> DEFINE zero == [s \in Servers |-> 0]
           no == [s \in Servers |-> FALSE]
<1>1. PICK mode \in {"l7", "l4"}, alg \in {"round-robin", "least-conn"}, sticky, check \in BOOLEAN, p \in Pools :
        lb = [mode |-> mode, alg |-> alg, sticky |-> sticky, check |-> check, pool |-> p, rr |-> 0,
              out |-> zero, down |-> no, streak |-> zero]
  BY DEF L!Init
<1>2. zero \in [Servers -> Nat] /\ no \in [Servers -> BOOLEAN]
  OBVIOUS
<1> HIDE DEF zero, no
<1>3. lb \in Balancer
  BY <1>1, <1>2 DEF Balancer
<1>4. flows = <<>> /\ req = [c \in LbClients |-> L!Idle]
  BY DEF L!Init
<1>5. req \in [LbClients -> Request] /\ \A c \in LbClients : req[c].state = "none"
  BY <1>4, IdleIs
<1>6. QED BY <1>3, <1>4, <1>5 DEF LbInv, Requests

LEMMA LbStepIs ==
  ASSUME LbInv, L!Next
  PROVE  StepIs
<1>1. ASSUME NEW c \in LbClients,
             L!OnRequest(c) \/ L!Served(c) \/ L!Failed(c) \/ L!Interrupted(c) \/ L!Done(c) \/ L!Syn(c)
      PROVE  StepIs
  BY <1>1, OnRequestIs, AnsweredIs, FailedIs, InterruptedIs, SynIs
<1>2. ASSUME NEW c \in LbClients, NEW flag \in {"ack", "fin", "rst"}, L!FromClient(c, flag)
      PROVE  StepIs
  BY <1>2, SegmentIs
<1>3. ASSUME NEW i \in DOMAIN flows, L!SynAck(i) \/ (\E flag \in {"ack", "fin", "rst"} : L!FromServer(i, flag))
      PROVE  StepIs
  BY <1>3, SegmentIs
<1>4. QED BY <1>1, <1>2, <1>3, RoundIs, SetConfigIs, WorldIs, AddressLostIs DEF L!Next

\* The invariant, of a behaviour of the balancer
Inv == At("lb") => LbInv

\* A request fails only when no backend is left that was not tried and is in, when its connection
\* to the backend was broken off otherwise than by a refusal or a timeout, or when the balancer has
\* no address: the three ways to 502 in forward and onFinish (lb.ts), whatever the rules, the
\* checks and the settings did meanwhile.
THEOREM RequestsFailAtLast == Spec => FailsOnlyAtLast
<1>1. Init => Inv
  BY LbInitIs DEF Init, Inv, At
<1>2. ASSUME Inv, [Next]_vars
      PROVE  Inv' /\ (At("lb") => L!Refused502)
  <2>1. CASE UNCHANGED vars
    <3>1. part' = part /\ lb' = lb /\ req' = req /\ flows' = flows
      BY <2>1 DEF vars, LVars
    <3>2. QED BY <1>2, <3>1 DEF Inv, At, LbInv, Requests, L!Refused502
  <2>2. CASE At("lb") /\ L!Next /\ part' = part
    <3>1. StepIs
      BY <1>2, <2>2, LbStepIs DEF Inv
    <3>2. QED BY <2>2, <3>1 DEF StepIs, Inv, L!Refused502, Refuses
  <2>3. CASE ~ At("lb") /\ part' = part
    BY <2>3 DEF Inv, At
  <2>4. QED BY <1>2, <2>1, <2>2, <2>3 DEF Next, At
<1> HIDE DEF Fairness
<1>3. QED BY <1>1, <1>2, PTL DEF Spec, FailsOnlyAtLast
-------------------------------------------------------------------------------
(* The connections that are passed through.  One that is open for both its ends has a flow of *)
(* its own, of which the balancer has seen the answer and at most one end *)

StillPassed(f, e) ==
  /\ f.client = e[1] /\ f.to = e[2] /\ f.closed = 0
  /\ f.seen /\ f.fins # {"client", "server"}

Sound(fs) ==
  /\ fs \in Seq(PassedFlow) /\ Len(fs) <= FlowLimit
  /\ \A i, j \in DOMAIN fs : fs[i].client = fs[j].client => i = j
  /\ \A i \in DOMAIN fs : ~ fs[i].seen => fs[i].fins = {}

AllPassed(fs, es) ==
  /\ es \in SUBSET (LbClients \X Servers)
  /\ \A e \in es : \E i \in DOMAIN fs : StillPassed(fs[i], e)

\* Of a connection given up nothing is left, and its client begins no other while it goes on.
Abandoned(fs, es, gu) ==
  gu \subseteq es /\ es \in SUBSET (LbClients \X Servers) /\ \A e \in gu, i \in DOMAIN fs : fs[i].client # e[1]

\* The table fs carries what it must of the open connections es, but for those given up
Good(fs, es, gu) == Sound(fs) /\ AllPassed(fs, es \ gu) /\ Abandoned(fs, es, gu)

AskedOnce(rs) == \A c \in LbClients : rs[c].state = "asked" => rs[c].at \in Servers \ rs[c].tried

\* gs has the flows of fs that S names.
Keeps(gs, fs, S) ==
  /\ \A i \in S : \E k \in DOMAIN gs : gs[k] = fs[i]
  /\ \A k \in DOMAIN gs : \E i \in S : gs[k] = fs[i]

LEMMA FlowFacts == FlowLimit \in Nat \ {0} /\ WaitRounds \in Nat
BY DEF FlowLimit, WaitRounds

LEMMA SoundSeq ==
  ASSUME NEW fs, Sound(fs)
  PROVE  Len(fs) \in Nat /\ DOMAIN fs = 1 .. Len(fs) /\ \A i \in DOMAIN fs : fs[i] \in PassedFlow
BY DEF Sound

\* A selection of flows, in whatever order, is as good.
Selected(gs, n) == Sound(gs) /\ Len(gs) = n /\ DOMAIN gs = 1 .. n

LEMMA SelectedIs ==
  ASSUME NEW fs, Sound(fs), NEW n \in Nat, n <= Len(fs), NEW m \in [1 .. n -> DOMAIN fs],
         \A k, l \in 1 .. n : m[k] = m[l] => k = l
  PROVE  Selected([k \in 1 .. n |-> fs[m[k]]], n)
<1> DEFINE gs == [k \in 1 .. n |-> fs[m[k]]]
<1>1. \A k \in 1 .. n : gs[k] \in PassedFlow
  BY SoundSeq
<1>2. gs \in Seq(PassedFlow) /\ Len(gs) = n /\ DOMAIN gs = 1 .. n
  BY <1>1
<1>3. Len(gs) <= FlowLimit
  BY <1>2, SoundSeq, FlowFacts DEF Sound
<1>4. \A i, j \in 1 .. n : gs[i].client = gs[j].client => i = j
  BY DEF Sound
<1>5. \A i \in 1 .. n : ~ gs[i].seen => gs[i].fins = {}
  BY DEF Sound
<1> HIDE DEF gs
<1>6. Sound(gs)
  BY <1>2, <1>3, <1>4, <1>5 DEF Sound
<1>7. Selected(gs, n)
  BY <1>2, <1>6 DEF Selected
<1>8. QED BY <1>7 DEF gs

LEMMA DropIs ==
  ASSUME NEW fs, Sound(fs), NEW i \in DOMAIN fs
  PROVE  LET gs == L!Drop(fs, i)
         IN  Sound(gs) /\ Len(gs) = Len(fs) - 1 /\ Keeps(gs, fs, DOMAIN fs \ {i})
<1> DEFINE n == Len(fs) - 1
           m == [k \in 1 .. n |-> IF k < i THEN k ELSE k + 1]
           gs == [k \in 1 .. n |-> fs[m[k]]]
<1>1. n \in Nat /\ n <= Len(fs) /\ DOMAIN fs = 1 .. n + 1 /\ i \in 1 .. n + 1
  BY SoundSeq
<1> HIDE DEF n
<1>2. m \in [1 .. n -> DOMAIN fs] /\ \A k, l \in 1 .. n : m[k] = m[l] => k = l
  BY <1>1
<1>3. \A j \in DOMAIN fs \ {i} : \E k \in 1 .. n : m[k] = j
  <2> TAKE j \in DOMAIN fs \ {i}
  <2>1. CASE j < i
    BY <1>1, <2>1
  <2>2. CASE j > i
    <3>1. j - 1 \in 1 .. n /\ m[j - 1] = j
      BY <1>1, <2>2
    <3>2. QED BY <3>1
  <2>3. QED BY <1>1, <2>1, <2>2
<1>4. \A k \in 1 .. n : m[k] \in DOMAIN fs \ {i}
  BY <1>1
<1>5. L!Drop(fs, i) = gs
  BY <1>1 DEF L!Drop, n
<1> HIDE DEF m
<1>6. Sound(gs) /\ Len(gs) = n /\ DOMAIN gs = 1 .. n
  <2>1. Sound(fs) /\ n \in Nat /\ n <= Len(fs) /\ m \in [1 .. n -> DOMAIN fs]
    BY <1>1, <1>2
  <2>2. Selected(gs, n)
    BY <1>2, <2>1, SelectedIs
  <2>3. QED BY <2>2 DEF Selected
<1>7. \A k \in 1 .. n : gs[k] = fs[m[k]]
  OBVIOUS
<1> HIDE DEF gs
<1>8. Keeps(gs, fs, DOMAIN fs \ {i})
  BY <1>3, <1>4, <1>6, <1>7 DEF Keeps
<1>9. QED BY <1>5, <1>6, <1>8 DEF n

\* The place of i in S.
Rank(S, i) == Cardinality({j \in S : j <= i})

LEMMA RankIs ==
  ASSUME NEW S \in SUBSET Nat, IsFiniteSet(S)
  PROVE  /\ Cardinality(S) \in Nat
         /\ \A i \in S : Rank(S, i) \in 1 .. Cardinality(S)
         /\ \A i, j \in S : Rank(S, i) = Rank(S, j) => i = j
         /\ \A k \in 1 .. Cardinality(S) : \E i \in S : Rank(S, i) = k
<1> DEFINE n == Cardinality(S)
           B(i) == {j \in S : j <= i}
           r == [i \in S |-> Rank(S, i)]
<1>1. n \in Nat
  BY FS_CardinalityType
<1>2. \A i \in S : IsFiniteSet(B(i)) /\ Cardinality(B(i)) <= n /\ Cardinality(B(i)) \in Nat
  <2> TAKE i \in S
  <2>1. B(i) \in SUBSET S
    OBVIOUS
  <2> HIDE DEF B
  <2>2. IsFiniteSet(B(i)) /\ Cardinality(B(i)) <= n
    BY <2>1, FS_Subset
  <2>3. QED BY <2>2, FS_CardinalityType
<1>3. \A i \in S : B(i) # {}
  OBVIOUS
<1>4. \A i, j \in S : i < j => Cardinality(B(i)) # Cardinality(B(j))
  <2> SUFFICES ASSUME NEW i \in S, NEW j \in S, i < j PROVE Cardinality(B(i)) # Cardinality(B(j))
    OBVIOUS
  <2>0. \A k \in S : k \in Nat
    OBVIOUS
  <2>1. B(i) \in SUBSET B(j) /\ B(i) # B(j)
    <3>1. j \in B(j) /\ j \notin B(i)
      BY <2>0
    <3>2. \A k \in B(i) : k \in B(j)
      BY <2>0
    <3>3. QED BY <3>1, <3>2
  <2> DEFINE X == B(i)
             Y == B(j)
  <2>2. IsFiniteSet(Y)
    BY <1>2
  <2>3. X \in SUBSET Y /\ X # Y
    BY <2>1
  <2> HIDE DEF X, Y
  <2>4. Cardinality(Y) = Cardinality(X) => Y = X
    BY <2>2, <2>3, FS_Subset
  <2>5. QED BY <2>3, <2>4 DEF X, Y
<1>5. \A i \in S : r[i] = Cardinality(B(i))
  BY DEF Rank
<1> HIDE DEF B, r
<1>6. \A i \in S : r[i] \in 1 .. n
  <2> TAKE i \in S
  <2>1. Cardinality(B(i)) # 0
    BY <1>2, <1>3, FS_EmptySet
  <2>2. QED BY <1>1, <1>2, <1>5, <2>1
<1>7. \A i, j \in S : r[i] = r[j] => i = j
  BY <1>4, <1>5
<1>8. r \in Injection(S, 1 .. n)
  <2>1. r \in [S -> 1 .. n]
    BY <1>6 DEF r
  <2>2. QED BY <1>7, <2>1 DEF Injection, IsInjective
<1>9. IsFiniteSet(1 .. n) /\ Cardinality(1 .. n) = n
  BY <1>1, FS_Interval
<1>10. r \in Surjection(S, 1 .. n)
  BY <1>8, <1>9, FS_Injection DEF n
<1>11. \A k \in 1 .. n : \E i \in S : r[i] = k
  BY <1>10 DEF Surjection
<1>12. QED BY <1>1, <1>6, <1>7, <1>11 DEF r

LEMMA AmongIs ==
  ASSUME NEW fs, Sound(fs), NEW S \in SUBSET DOMAIN fs
  PROVE  LET gs == L!Among(fs, S) IN Sound(gs) /\ Keeps(gs, fs, S)
<1> DEFINE n == Cardinality(S)
           m == [k \in 1 .. n |-> CHOOSE i \in S : Rank(S, i) = k]
           gs == [k \in 1 .. n |-> fs[m[k]]]
<1>2. L!Among(fs, S) = gs
  BY DEF L!Among, Rank, L!Cardinality, Cardinality
<1>3. IsFiniteSet(DOMAIN fs) /\ Cardinality(DOMAIN fs) = Len(fs)
  <2> DEFINE l == Len(fs)
  <2>1. l \in Nat /\ DOMAIN fs = 1 .. l
    BY SoundSeq
  <2> HIDE DEF l
  <2>2. IsFiniteSet(1 .. l) /\ Cardinality(1 .. l) = l
    BY <2>1, FS_Interval
  <2>3. QED BY <2>1, <2>2 DEF l
<1>4. IsFiniteSet(S) /\ n <= Len(fs)
  BY <1>3, FS_Subset
<1>5. S \in SUBSET Nat
  BY SoundSeq
<1>6. n \in Nat /\ \A k \in 1 .. n : \E i \in S : Rank(S, i) = k
  BY <1>4, <1>5, RankIs
<1>7. \A k \in 1 .. n : m[k] \in S /\ Rank(S, m[k]) = k
  BY <1>6
<1> HIDE DEF n, m
<1>8. m \in [1 .. n -> DOMAIN fs]
  <2>1. m = [k \in 1 .. n |-> m[k]]
    BY DEF m
  <2>2. QED BY <1>7, <2>1
<1>9. \A k, l \in 1 .. n : m[k] = m[l] => k = l
  BY <1>7
<1>10. Sound(gs) /\ Len(gs) = n /\ DOMAIN gs = 1 .. n
  <2>1. n \in Nat /\ n <= Len(fs)
    BY <1>4, <1>6
  <2>2. QED BY <1>8, <1>9, <2>1, SelectedIs DEF Selected
<1>11. \A i \in S : Rank(S, i) \in 1 .. n
  BY <1>4, <1>5, RankIs DEF n
<1>12. \A i, j \in S : Rank(S, i) = Rank(S, j) => i = j
  BY <1>4, <1>5, RankIs
<1>13. \A i \in S : m[Rank(S, i)] = i
  BY <1>7, <1>11, <1>12
<1>14. \A k \in 1 .. n : gs[k] = fs[m[k]]
  OBVIOUS
<1> HIDE DEF gs
<1>15. Keeps(gs, fs, S)
  BY <1>7, <1>10, <1>11, <1>13, <1>14 DEF Keeps
<1>16. QED BY <1>2, <1>10, <1>15

\* To make room a finished flow goes, or the one that Crowded names.
LEMMA MakeRoomIs ==
  ASSUME NEW fs, Sound(fs)
  PROVE  LET gs == L!MakeRoom(fs)
         IN  /\ Sound(gs) /\ Len(gs) < FlowLimit
             /\ \A i \in DOMAIN fs : fs[i].closed = 0 =>
                  <<fs[i].client, fs[i].to>> \in L!Crowded(fs) \/ (\E k \in DOMAIN gs : gs[k] = fs[i])
             /\ \A k \in DOMAIN gs : \E i \in DOMAIN fs : gs[k] = fs[i]
             /\ \A e \in L!Crowded(fs), k \in DOMAIN gs : gs[k].client # e[1]
<1> DEFINE gs == L!MakeRoom(fs)
           closed == {i \in DOMAIN fs : fs[i].closed > 0}
           d == IF closed # {} THEN L!Min(closed) ELSE 1
<1>0. Len(fs) \in Nat /\ DOMAIN fs = 1 .. Len(fs) /\ FlowLimit \in Nat \ {0} /\ Len(fs) <= FlowLimit
  BY SoundSeq, FlowFacts DEF Sound
<1>1. gs = IF Len(fs) < FlowLimit THEN fs ELSE L!Drop(fs, d)
  BY DEF L!MakeRoom
<1>2. CASE Len(fs) < FlowLimit
  <2>1. gs = fs
    BY <1>1, <1>2
  <2>2. L!Crowded(fs) = {}
    <3>0. Len(fs) \in Nat /\ FlowLimit \in Nat
      BY <1>0
    <3>1. Len(fs) # FlowLimit
      <4> HIDE DEF gs, closed, d
      <4>1. QED BY <3>0, <1>2
    <3>2. QED BY <3>1, Zenon DEF L!Crowded
  <2> HIDE DEF gs
  <2>3. QED BY <1>2, <2>1, <2>2 DEF gs
<1>3. CASE ~ (Len(fs) < FlowLimit)
  <2>0. closed # {} => L!Min(closed) \in closed
    <3>1. closed \in SUBSET Nat
      BY <1>0
    <3> HIDE DEF closed
    <3>2. QED BY <3>1, MinIs
  <2>1. d \in DOMAIN fs
    BY <1>0, <1>3, <2>0
  <2>c. closed = {} => d = 1 /\ L!Crowded(fs) = {<<fs[1].client, fs[1].to>>}
    <3> SUFFICES ASSUME closed = {} PROVE d = 1 /\ L!Crowded(fs) = {<<fs[1].client, fs[1].to>>}
      OBVIOUS
    <3>1. d = 1
      OBVIOUS
    <3>2. \A i \in DOMAIN fs : fs[i].closed = 0
      <4> TAKE i \in DOMAIN fs
      <4>1. fs[i].closed \in Nat
        BY SoundSeq DEF PassedFlow
      <4>2. QED BY <4>1
    <3>3. Len(fs) = FlowLimit
      BY <1>0, <1>3
    <3>4. QED BY <3>1, <3>2, <3>3 DEF L!Crowded
  <2>d. closed # {} => fs[d].closed # 0 /\ L!Crowded(fs) = {}
    <3> SUFFICES ASSUME closed # {} PROVE fs[d].closed # 0 /\ L!Crowded(fs) = {}
      OBVIOUS
    <3>1. d \in closed
      BY <2>0
    <3>2. fs[d].closed # 0
      BY <3>1
    <3>3. QED BY <2>1, <3>2 DEF L!Crowded
  <2> HIDE DEF d, closed
  <2> DEFINE hs == L!Drop(fs, d)
  <2>2. Sound(hs) /\ Len(hs) = Len(fs) - 1 /\ Keeps(hs, fs, DOMAIN fs \ {d})
    BY <2>1, DropIs
  <2> HIDE DEF hs
  <2>3. gs = hs
    BY <1>1, <1>3 DEF hs
  <2>4. Len(gs) < FlowLimit
    BY <1>0, <2>2, <2>3
  <2> HIDE DEF gs
  <2>5. \A k \in DOMAIN gs : \E i \in DOMAIN fs \ {d} : gs[k] = fs[i]
    BY <2>2, <2>3 DEF Keeps
  <2>6. \A k \in DOMAIN gs : gs[k].client # fs[d].client
    BY <2>1, <2>5 DEF Sound
  <2>7. fs[d].closed = 0 => <<fs[d].client, fs[d].to>> \in L!Crowded(fs)
    BY <2>c, <2>d
  <2>8. \A i \in DOMAIN fs : fs[i].closed = 0 =>
          <<fs[i].client, fs[i].to>> \in L!Crowded(fs) \/ (\E k \in DOMAIN gs : gs[k] = fs[i])
    BY <2>2, <2>3, <2>7 DEF Keeps
  <2>9. \A e \in L!Crowded(fs) : e[1] = fs[d].client
    BY <2>c, <2>d
  <2>10. \A e \in L!Crowded(fs), k \in DOMAIN gs : gs[k].client # e[1]
    BY <2>6, <2>9
  <2>11. QED BY <2>2, <2>3, <2>4, <2>5, <2>8, <2>10 DEF gs
<1>4. QED BY <1>2, <1>3

\* One more at the end.
LEMMA AppendIs ==
  ASSUME NEW fs, Sound(fs), Len(fs) < FlowLimit, NEW f \in PassedFlow, f.fins = {},
         \A i \in DOMAIN fs : fs[i].client # f.client
  PROVE  LET gs == Append(fs, f)
         IN  Sound(gs) /\ \A i \in DOMAIN fs : i \in DOMAIN gs /\ gs[i] = fs[i]
<1> DEFINE gs == Append(fs, f)
           n == Len(fs)
<1>1. n \in Nat /\ fs \in Seq(PassedFlow) /\ DOMAIN fs = 1 .. n
  BY SoundSeq DEF Sound
<1>2. gs \in Seq(PassedFlow) /\ Len(gs) = n + 1 /\ DOMAIN gs = 1 .. n + 1
  BY <1>1
<1>3. gs[n + 1] = f /\ \A i \in 1 .. n : gs[i] = fs[i]
  BY <1>1
<1> HIDE DEF gs
<1>4. Len(gs) <= FlowLimit
  BY <1>1, <1>2, FlowFacts DEF n
<1> HIDE DEF n
<1>5. \A i \in 1 .. n + 1 : i = n + 1 \/ i \in DOMAIN fs
  BY <1>1
<1>6. \A i, j \in DOMAIN gs : gs[i].client = gs[j].client => i = j
  BY <1>1, <1>2, <1>3, <1>5 DEF Sound
<1>7. \A i \in DOMAIN gs : ~ gs[i].seen => gs[i].fins = {}
  BY <1>1, <1>2, <1>3, <1>5 DEF Sound
<1>8. Sound(gs)
  BY <1>2, <1>4, <1>6, <1>7 DEF Sound
<1>9. QED BY <1>1, <1>2, <1>3, <1>8 DEF gs

\* Another state of one flow.
LEMMA ChangeIs ==
  ASSUME NEW fs, Sound(fs), NEW i \in DOMAIN fs, NEW g \in PassedFlow, g.client = fs[i].client,
         ~ g.seen => g.fins = {}
  PROVE  LET gs == [fs EXCEPT ![i] = g]
         IN  Sound(gs) /\ DOMAIN gs = DOMAIN fs /\ gs[i] = g /\ \A j \in DOMAIN fs \ {i} : gs[j] = fs[j]
<1> DEFINE gs == [fs EXCEPT ![i] = g]
<1>1. fs \in Seq(PassedFlow) /\ Len(fs) <= FlowLimit /\ Len(fs) \in Nat
  BY DEF Sound
<1>2. gs \in Seq(PassedFlow) /\ Len(gs) = Len(fs) /\ DOMAIN gs = DOMAIN fs
  BY <1>1
<1>3. gs[i] = g /\ \A j \in DOMAIN fs \ {i} : gs[j] = fs[j]
  BY <1>1
<1> HIDE DEF gs
<1>4. \A j, k \in DOMAIN gs : gs[j].client = gs[k].client => j = k
  BY <1>2, <1>3 DEF Sound
<1>5. \A j \in DOMAIN gs : ~ gs[j].seen => gs[j].fins = {}
  BY <1>2, <1>3 DEF Sound
<1>6. Sound(gs)
  BY <1>1, <1>2, <1>4, <1>5 DEF Sound
<1>7. QED BY <1>2, <1>3, <1>6 DEF gs

\* A segment noted.
LEMMA NoteIs ==
  ASSUME NEW f \in PassedFlow, NEW flag, NEW side \in {"client", "server"},
         ~ f.seen => f.fins = {} /\ flag # "fin"
  PROVE  LET g == L!Note(f, flag, side)
         IN  /\ g \in PassedFlow /\ g.client = f.client /\ g.to = f.to /\ (~ g.seen => g.fins = {})
             /\ \A e \in LbClients \X Servers :
                  StillPassed(f, e) /\ L!StillOpen(e, f, flag) => StillPassed(g, e)
<1> DEFINE fins == IF flag = "fin" THEN f.fins \cup {side} ELSE f.fins
           closed == IF f.closed = 0 /\ (flag = "rst" \/ (flag = "ack" /\ Cardinality(fins) = 2))
                     THEN WaitRounds + 1 ELSE f.closed
           g == [f EXCEPT !.fins = fins, !.closed = closed]
<1>1. L!Note(f, flag, side) = g
  BY DEF L!Note, PassedFlow, L!Cardinality, Cardinality
<1>2. closed \in Nat /\ fins \in SUBSET {"client", "server"}
  BY FlowFacts DEF PassedFlow
<1>3. flag = "ack" /\ f.fins # {"client", "server"} => Cardinality(fins) # 2
  <2> SUFFICES ASSUME flag = "ack", f.fins # {"client", "server"} PROVE Cardinality(f.fins) # 2
    OBVIOUS
  <2>1. f.fins \in {{}, {"client"}, {"server"}}
    BY DEF PassedFlow
  <2>2. Cardinality({}) = 0 /\ Cardinality({"client"}) = 1 /\ Cardinality({"server"}) = 1
    BY FS_EmptySet, FS_Singleton
  <2>3. QED BY <2>1, <2>2
<1>4. flag # "rst" /\ f.closed = 0 /\ f.fins # {"client", "server"} => closed = 0
  BY <1>3
<1>5. f.fins # {"client", "server"} /\ (flag = "fin" => f.fins = {}) => fins # {"client", "server"}
  OBVIOUS
<1> HIDE DEF fins, closed
<1>6. g \in PassedFlow
  BY <1>2 DEF PassedFlow
<1>7. g.client = f.client /\ g.to = f.to /\ g.seen = f.seen /\ g.fins = fins /\ g.closed = closed
  BY DEF PassedFlow
<1>8. ~ g.seen => g.fins = {}
  BY <1>7 DEF fins
<1> HIDE DEF g
<1>9. ASSUME NEW e \in LbClients \X Servers, StillPassed(f, e), L!StillOpen(e, f, flag)
      PROVE  StillPassed(g, e)
  <2>1. e = <<f.client, f.to>>
    BY <1>9 DEF StillPassed
  <2>2. flag # "rst" /\ (flag = "fin" => f.fins = {})
    BY <1>9, <2>1 DEF L!StillOpen
  <2>3. QED BY <1>4, <1>5, <1>7, <1>9, <2>2 DEF StillPassed
<1>10. QED BY <1>1, <1>6, <1>7, <1>8, <1>9

FlowsInv == LbInv /\ Good(flows, ends, givenUp) /\ AskedOnce(req)

\* Of the connections given up, those that still go on.
LEMMA FewerGood ==
  ASSUME NEW fs, NEW es, NEW gu, Good(fs, es, gu), NEW some \in SUBSET es
  PROVE  Good(fs, some, gu \cap some)
<1>1. some \ (gu \cap some) \subseteq es \ gu
  OBVIOUS
<1>2. AllPassed(fs, some \ (gu \cap some))
  BY <1>1 DEF Good, AllPassed
<1>3. QED BY <1>2 DEF Good, Abandoned

GoodNext == Good(flows', ends', givenUp')

\* A segment of the flow i is noted, and what it ends is ended.
LEMMA SegmentNoted ==
  ASSUME FlowsInv, NEW i \in DOMAIN flows, NEW flag, NEW side \in {"client", "server"},
         flag = "fin" => flows[i].seen,
         flows' = [flows EXCEPT ![i] = L!Note(flows[i], flag, side)],
         L!Ends({e \in ends : L!StillOpen(e, flows[i], flag)})
  PROVE  GoodNext
<1> DEFINE f == flows[i]
           g == L!Note(f, flag, side)
           gs == [flows EXCEPT ![i] = g]
           es == {e \in ends : L!StillOpen(e, f, flag)}
           gu == givenUp \cap es
<1>0. ends' = es /\ givenUp' = gu
  BY DEF L!Ends
<1>1. Sound(flows) /\ f \in PassedFlow
  BY SoundSeq DEF FlowsInv, Good
<1>2. ~ f.seen => f.fins = {} /\ flag # "fin"
  BY DEF FlowsInv, Good, Sound
<1> HIDE DEF f
<1>3. /\ g \in PassedFlow /\ g.client = f.client /\ g.to = f.to /\ (~ g.seen => g.fins = {})
      /\ \A e \in LbClients \X Servers :
           StillPassed(f, e) /\ L!StillOpen(e, f, flag) => StillPassed(g, e)
  BY <1>1, <1>2, NoteIs
<1> HIDE DEF g
<1>4. Sound(gs) /\ DOMAIN gs = DOMAIN flows /\ gs[i] = g /\ \A j \in DOMAIN flows \ {i} : gs[j] = flows[j]
  BY <1>1, <1>3, ChangeIs DEF f
<1>5. flows' = gs
  BY DEF f, g
<1> HIDE DEF gs
<1>6. ASSUME NEW e \in es \ gu
      PROVE  \E k \in DOMAIN gs : StillPassed(gs[k], e)
  <2>1. e \in LbClients \X Servers /\ L!StillOpen(e, f, flag)
    BY DEF FlowsInv, Good, Abandoned
  <2>2. PICK j \in DOMAIN flows : StillPassed(flows[j], e)
    BY DEF FlowsInv, Good, AllPassed
  <2>3. CASE j = i
    BY <1>3, <1>4, <2>1, <2>2, <2>3 DEF f
  <2>4. CASE j # i
    BY <1>4, <2>2, <2>4
  <2>5. QED BY <2>3, <2>4
<1>7. AllPassed(gs, es \ gu)
  BY <1>6 DEF FlowsInv, Good, AllPassed, Abandoned
<1>8. \A k \in DOMAIN flows : gs[k].client = flows[k].client
  BY <1>3, <1>4 DEF f
<1>9. Abandoned(gs, es, gu)
  BY <1>4, <1>8 DEF FlowsInv, Good, Abandoned
<1>10. QED BY <1>0, <1>4, <1>5, <1>7, <1>9 DEF GoodNext, Good

LEMMA FromClientPasses ==
  ASSUME FlowsInv, NEW c \in LbClients, NEW flag, L!FromClient(c, flag)
  PROVE  GoodNext
<1>1. PICK i \in L!FlowAt(c) : /\ flows' = [flows EXCEPT ![i] = L!Note(@, flag, "client")]
                              /\ L!Ends({e \in ends : L!StillOpen(e, flows[i], flag)})
  BY DEF L!FromClient
<1>2. i \in DOMAIN flows /\ flows[i].client = c
  BY DEF L!FlowAt
<1>3. flows' = [flows EXCEPT ![i] = L!Note(flows[i], flag, "client")]
  BY <1>1, <1>2
<1>4. flows[i].seen
  <2>1. PICK e \in ends : e[1] = c
    BY DEF L!FromClient
  <2>2. e \notin givenUp
    BY <1>2, <2>1 DEF FlowsInv, Good, Abandoned
  <2>3. PICK j \in DOMAIN flows : StillPassed(flows[j], e)
    BY <2>2 DEF FlowsInv, Good, AllPassed
  <2>4. j = i
    BY <1>2, <2>1, <2>3 DEF StillPassed, FlowsInv, Good, Sound
  <2>5. QED BY <2>3, <2>4 DEF StillPassed
<1>5. QED BY <1>1, <1>2, <1>3, <1>4, SegmentNoted

LEMMA FromServerPasses ==
  ASSUME FlowsInv, NEW i \in DOMAIN flows, NEW flag, L!FromServer(i, flag)
  PROVE  GoodNext
<1>1. /\ flows' = [flows EXCEPT ![i] = L!Note(@, flag, "server")]
      /\ L!Ends({e \in ends : L!StillOpen(e, flows[i], flag)})
  BY DEF L!FromServer
<1>2. flows' = [flows EXCEPT ![i] = L!Note(flows[i], flag, "server")]
  BY <1>1
<1>3. flag = "fin" => flows[i].seen
  BY DEF L!FromServer
<1>4. QED BY <1>1, <1>2, <1>3, SegmentNoted

LEMMA SynAckPasses ==
  ASSUME FlowsInv, NEW i \in DOMAIN flows, L!SynAck(i)
  PROVE  GoodNext
<1> DEFINE f == flows[i]
           g == [f EXCEPT !.seen = TRUE]
           gs == [flows EXCEPT ![i] = g]
           mine == <<f.client, f.to>>
           es == ends \cup {mine}
<1>1. Sound(flows) /\ f \in PassedFlow /\ f.closed = 0 /\ f.fins = {} /\ \A e \in ends : e[1] # f.client
  BY SoundSeq DEF FlowsInv, Good, L!SynAck
<1>2. flows' = gs /\ ends' = es /\ givenUp' = givenUp
  BY DEF L!SynAck
<1> HIDE DEF f
<1>3. g \in PassedFlow /\ g.client = f.client /\ g.to = f.to /\ g.closed = 0 /\ g.seen /\ g.fins = {}
  BY <1>1 DEF PassedFlow
<1>4. mine \in LbClients \X Servers
  BY <1>1 DEF PassedFlow
<1>5. StillPassed(g, mine)
  BY <1>3 DEF StillPassed
<1> HIDE DEF g, mine
<1>6. Sound(gs) /\ DOMAIN gs = DOMAIN flows /\ gs[i] = g /\ \A j \in DOMAIN flows \ {i} : gs[j] = flows[j]
  BY <1>1, <1>3, ChangeIs DEF f
<1> HIDE DEF gs
<1>7. ASSUME NEW e \in ends \ givenUp
      PROVE  \E k \in DOMAIN gs : StillPassed(gs[k], e)
  <2>1. PICK j \in DOMAIN flows : StillPassed(flows[j], e)
    BY DEF FlowsInv, Good, AllPassed
  <2>2. j # i
    BY <1>1, <2>1 DEF StillPassed, f
  <2>3. QED BY <1>6, <2>1, <2>2
<1>8. AllPassed(gs, es \ givenUp)
  BY <1>4, <1>5, <1>6, <1>7 DEF FlowsInv, Good, AllPassed, Abandoned
<1>9. \A k \in DOMAIN flows : gs[k].client = flows[k].client
  BY <1>3, <1>6 DEF f
<1>10. Abandoned(gs, es, givenUp)
  BY <1>4, <1>6, <1>9 DEF FlowsInv, Good, Abandoned
<1>11. QED BY <1>2, <1>6, <1>8, <1>10 DEF GoodNext, Good

\* What is left when the flow of c, if there is one, is given up.
WithoutFlowOf(c) == IF L!FlowAt(c) # {} THEN L!Drop(flows, CHOOSE k \in L!FlowAt(c) : TRUE) ELSE flows

LEMMA WithoutFlowIs ==
  ASSUME FlowsInv, NEW c \in LbClients, \A e \in ends : e[1] # c
  PROVE  /\ Good(WithoutFlowOf(c), ends, givenUp)
         /\ \A k \in DOMAIN WithoutFlowOf(c) : WithoutFlowOf(c)[k].client # c
<1> DEFINE rest == WithoutFlowOf(c)
<1>1. CASE L!FlowAt(c) = {}
  <2>1. rest = flows
    BY <1>1 DEF WithoutFlowOf
  <2>2. \A k \in DOMAIN flows : flows[k].client # c
    BY <1>1 DEF L!FlowAt
  <2>3. QED BY <2>1, <2>2 DEF FlowsInv
<1>2. CASE L!FlowAt(c) # {}
  <2> DEFINE i == CHOOSE k \in L!FlowAt(c) : TRUE
             gs == L!Drop(flows, i)
  <2>1. i \in L!FlowAt(c)
    BY <1>2
  <2>2. rest = gs
    BY <1>2 DEF WithoutFlowOf
  <2> HIDE DEF i, rest
  <2>3. i \in DOMAIN flows /\ flows[i].client = c
    BY <2>1 DEF L!FlowAt
  <2>4. Sound(flows)
    BY DEF FlowsInv, Good
  <2>5. Sound(gs) /\ Keeps(gs, flows, DOMAIN flows \ {i})
    BY <2>3, <2>4, DropIs
  <2> HIDE DEF gs
  <2>6. \A k \in DOMAIN gs : gs[k].client # c
    BY <2>3, <2>4, <2>5 DEF Keeps, Sound
  <2>7. ASSUME NEW e \in ends \ givenUp
        PROVE  \E k \in DOMAIN gs : StillPassed(gs[k], e)
    <3>1. PICK j \in DOMAIN flows : StillPassed(flows[j], e)
      BY DEF FlowsInv, Good, AllPassed
    <3>2. j # i
      BY <2>3, <3>1 DEF StillPassed
    <3>3. QED BY <2>5, <3>1, <3>2 DEF Keeps
  <2>8. AllPassed(gs, ends \ givenUp)
    BY <2>7 DEF FlowsInv, Good, AllPassed
  <2>9. Abandoned(gs, ends, givenUp)
    BY <2>5 DEF FlowsInv, Good, Abandoned, Keeps
  <2>10. Good(gs, ends, givenUp)
    BY <2>5, <2>8, <2>9 DEF Good
  <2>11. QED BY <2>2, <2>6, <2>10 DEF rest
<1>3. QED BY <1>1, <1>2

\* What a SYN does that a backend is chosen for, or nobody is left for.
Begins(c, rest, to) ==
  /\ flows' = IF to = "none" THEN rest
              ELSE Append(L!MakeRoom(rest), [client |-> c, to |-> to, fins |-> {}, seen |-> FALSE,
                                             young |-> TRUE, closed |-> 0])
  /\ givenUp' = IF to = "none" THEN givenUp ELSE givenUp \cup (L!Crowded(rest) \cap ends)

LEMMA BeginsPasses ==
  ASSUME NEW c \in LbClients, NEW rest, NEW to \in Servers \cup {"none"}, Begins(c, rest, to), ends' = ends,
         Good(rest, ends, givenUp), \A k \in DOMAIN rest : rest[k].client # c, \A e \in ends : e[1] # c
  PROVE  GoodNext
<1>1. CASE to = "none"
  BY <1>1 DEF Begins, GoodNext
<1>2. CASE to # "none"
  <2> DEFINE hs == L!MakeRoom(rest)
             f == [client |-> c, to |-> to, fins |-> {}, seen |-> FALSE, young |-> TRUE, closed |-> 0]
             gs == Append(hs, f)
             gu == givenUp \cup (L!Crowded(rest) \cap ends)
  <2>0. Sound(rest)
    BY DEF Good
  <2>1. /\ Sound(hs) /\ Len(hs) < FlowLimit
        /\ \A i \in DOMAIN rest : rest[i].closed = 0 =>
             <<rest[i].client, rest[i].to>> \in L!Crowded(rest) \/ (\E k \in DOMAIN hs : hs[k] = rest[i])
        /\ \A k \in DOMAIN hs : \E i \in DOMAIN rest : hs[k] = rest[i]
        /\ \A e \in L!Crowded(rest), k \in DOMAIN hs : hs[k].client # e[1]
    BY <2>0, MakeRoomIs
  <2>2. flows' = gs /\ givenUp' = gu
    BY <1>2 DEF Begins
  <2>3. f \in PassedFlow
    BY <1>2 DEF PassedFlow
  <2>4. f.fins = {} /\ f.client = c
    OBVIOUS
  <2> HIDE DEF f, hs
  <2>5. \A k \in DOMAIN hs : hs[k].client # f.client
    BY <2>1, <2>4
  <2>6. Sound(gs) /\ \A k \in DOMAIN hs : k \in DOMAIN gs /\ gs[k] = hs[k]
    BY <2>1, <2>3, <2>4, <2>5, AppendIs
  <2>7. \A k \in DOMAIN gs : k \in DOMAIN hs \/ gs[k] = f
    <3>1. hs \in Seq(PassedFlow)
      BY <2>1 DEF Sound
    <3>2. QED BY <3>1
  <2> HIDE DEF gs
  <2>8. ASSUME NEW e \in ends \ gu
        PROVE  \E k \in DOMAIN gs : StillPassed(gs[k], e)
    <3>1. PICK j \in DOMAIN rest : StillPassed(rest[j], e)
      BY DEF Good, AllPassed
    <3>2. e = <<rest[j].client, rest[j].to>> /\ rest[j].closed = 0
      BY <3>1 DEF StillPassed, Good, Abandoned
    <3>3. PICK k \in DOMAIN hs : hs[k] = rest[j]
      BY <2>1, <3>2
    <3>4. QED BY <2>6, <3>1, <3>3
  <2>9. AllPassed(gs, ends \ gu)
    BY <2>8 DEF Good, AllPassed, Abandoned
  <2>10. ASSUME NEW e \in gu, NEW k \in DOMAIN gs
         PROVE  gs[k].client # e[1]
    <3>1. CASE gs[k] = f
      BY <2>4, <3>1 DEF Good, Abandoned
    <3>2. CASE k \in DOMAIN hs
      <4>1. gs[k] = hs[k]
        BY <2>6, <3>2
      <4>2. CASE e \in givenUp
        BY <2>1, <3>2, <4>1, <4>2 DEF Good, Abandoned
      <4>3. CASE e \in L!Crowded(rest)
        BY <2>1, <3>2, <4>1, <4>3
      <4>4. QED BY <4>2, <4>3
    <3>3. QED BY <2>7, <3>1, <3>2
  <2>11. Abandoned(gs, ends, gu)
    BY <2>10 DEF Good, Abandoned
  <2>12. QED BY <2>2, <2>6, <2>9, <2>11 DEF GoodNext, Good
<1>3. QED BY <1>1, <1>2

LEMMA SynPasses ==
  ASSUME FlowsInv, NEW c \in LbClients, L!Syn(c)
  PROVE  GoodNext
<1> DEFINE rest == WithoutFlowOf(c)
           i == CHOOSE k \in L!FlowAt(c) : TRUE
           out == L!LeftOut(lb, flows[i].to)
           p(b, aff) == L!Pick(b, aff, c, {})
<1>0. ends' = ends
  BY DEF L!Syn
<1>1. (flows' = flows /\ givenUp' = givenUp) \/ (\E b \in {lb, out} : \E aff : Begins(c, rest, p(b, aff).to))
  BY DEF L!Syn, Begins, WithoutFlowOf
<1>2. lb \in Balancer /\ flows \in Seq(PassedFlow)
  BY DEF FlowsInv, LbInv, Good, Sound
<1>3. out \in Balancer
  BY <1>2, LeftOutIs
<1>4. \A e \in ends : e[1] # c
  BY DEF L!Syn
<1>5. Good(rest, ends, givenUp) /\ \A k \in DOMAIN rest : rest[k].client # c
  BY <1>4, WithoutFlowIs
<1> HIDE DEF rest, out
<1>6. CASE flows' = flows /\ givenUp' = givenUp
  BY <1>0, <1>6 DEF FlowsInv, GoodNext
<1>7. ASSUME NEW b \in {lb, out}, NEW aff, Begins(c, rest, p(b, aff).to)
      PROVE  GoodNext
  <2> DEFINE to == p(b, aff).to
  <2>1. b \in Balancer
    BY <1>2, <1>3
  <2>2. to \in Servers \cup {"none"}
    BY <1>2, <2>1, PickFinds
  <2>3. Begins(c, rest, to)
    BY <1>7
  <2> HIDE DEF to
  <2>4. QED BY <1>0, <1>4, <1>5, <2>2, <2>3, BeginsPasses
<1>8. QED BY <1>1, <1>6, <1>7

\* Selected flows carry what they carried.
LEMMA AmongPasses ==
  ASSUME FlowsInv, NEW S \in SUBSET DOMAIN flows, NEW es \in SUBSET ends,
         \A e \in es, i \in DOMAIN flows : StillPassed(flows[i], e) => i \in S
  PROVE  Sound(L!Among(flows, S)) /\ AllPassed(L!Among(flows, S), es \ givenUp)
         /\ Keeps(L!Among(flows, S), flows, S)
<1> DEFINE gs == L!Among(flows, S)
<1>1. Sound(flows)
  BY DEF FlowsInv, Good
<1>2. Sound(gs) /\ Keeps(gs, flows, S)
  BY <1>1, AmongIs
<1> HIDE DEF gs
<1>3. ASSUME NEW e \in es \ givenUp
      PROVE  \E k \in DOMAIN gs : StillPassed(gs[k], e)
  <2>1. PICK j \in DOMAIN flows : StillPassed(flows[j], e)
    BY DEF FlowsInv, Good, AllPassed
  <2>2. QED BY <1>2, <2>1 DEF Keeps
<1>4. AllPassed(gs, es \ givenUp)
  BY <1>3 DEF FlowsInv, Good, AllPassed
<1>5. QED BY <1>2, <1>4 DEF gs

LEMMA RoundPasses ==
  ASSUME FlowsInv, L!Round
  PROVE  GoodNext
<1> DEFINE S == {i \in DOMAIN flows : flows[i].closed # 1}
           fs == L!Expired
           left(i) == IF fs[i].closed = 0 THEN 0 ELSE fs[i].closed - 1
           aged(i) == [fs[i] EXCEPT !.young = FALSE, !.closed = left(i)]
           gs == [i \in DOMAIN fs |-> aged(i)]
<1>1. ends' = ends /\ givenUp' = givenUp
  BY DEF L!Round
<1>2. Sound(fs) /\ AllPassed(fs, ends \ givenUp) /\ Keeps(fs, flows, S)
  <2>1. \A e \in ends, i \in DOMAIN flows : StillPassed(flows[i], e) => i \in S
    BY DEF StillPassed
  <2>2. fs = L!Among(flows, S)
    BY DEF L!Expired
  <2> HIDE DEF S, fs
  <2>3. S \in SUBSET DOMAIN flows
    BY DEF S
  <2>4. QED BY <2>1, <2>2, <2>3, AmongPasses
<1> HIDE DEF S
<1> HIDE DEF fs
<1>3. Len(fs) \in Nat /\ Len(fs) <= FlowLimit /\ DOMAIN fs = 1 .. Len(fs) /\ \A i \in DOMAIN fs : fs[i] \in PassedFlow
  BY <1>2, SoundSeq DEF Sound
<1>4. \A i \in DOMAIN fs : aged(i) \in PassedFlow
  <2> TAKE i \in DOMAIN fs
  <2>1. left(i) \in Nat
    BY <1>3 DEF PassedFlow
  <2> HIDE DEF left
  <2>2. QED BY <1>3, <2>1 DEF PassedFlow
<1>5. \A i \in DOMAIN fs : /\ aged(i).client = fs[i].client /\ aged(i).to = fs[i].to
                           /\ aged(i).fins = fs[i].fins /\ aged(i).seen = fs[i].seen
                           /\ fs[i].closed = 0 => aged(i).closed = 0
  BY <1>3 DEF PassedFlow
<1>0. flows' = gs
  <2> DEFINE older(i) == [fs[i] EXCEPT !.young = FALSE, !.closed = IF @ = 0 THEN 0 ELSE @ - 1]
  <2>1. flows' = [i \in DOMAIN fs |-> older(i)]
    BY DEF L!Round, fs
  <2>2. \A i \in DOMAIN fs : older(i) = aged(i)
    BY <1>3 DEF PassedFlow
  <2> HIDE DEF older, aged
  <2>3. QED BY <2>1, <2>2
<1> HIDE DEF aged
<1>6. gs \in Seq(PassedFlow) /\ Len(gs) = Len(fs) /\ DOMAIN gs = DOMAIN fs
  BY <1>3, <1>4
<1>7. \A i \in DOMAIN fs : gs[i] = aged(i)
  OBVIOUS
<1> HIDE DEF gs
<1>8. \A i, j \in DOMAIN gs : gs[i].client = gs[j].client => i = j
  BY <1>2, <1>5, <1>6, <1>7 DEF Sound
<1>9. \A i \in DOMAIN gs : ~ gs[i].seen => gs[i].fins = {}
  BY <1>2, <1>5, <1>6, <1>7 DEF Sound
<1>10. Sound(gs)
  BY <1>3, <1>6, <1>8, <1>9 DEF Sound
<1>11. \A e \in ends, i \in DOMAIN fs : StillPassed(fs[i], e) => StillPassed(gs[i], e)
  BY <1>5, <1>7 DEF StillPassed
<1>12. AllPassed(gs, ends \ givenUp)
  BY <1>2, <1>6, <1>11 DEF AllPassed
<1>13. \A i \in DOMAIN gs : \E k \in DOMAIN flows : gs[i].client = flows[k].client
  <2>1. \A i \in DOMAIN fs : \E k \in S : fs[i] = flows[k]
    BY <1>2 DEF Keeps
  <2>2. S \subseteq DOMAIN flows
    BY DEF S
  <2>3. QED BY <1>5, <1>6, <1>7, <2>1, <2>2
<1>14. Abandoned(gs, ends, givenUp)
  BY <1>13 DEF FlowsInv, Good, Abandoned
<1>15. QED BY <1>0, <1>1, <1>10, <1>12, <1>14 DEF GoodNext, Good

LEMMA SetConfigPasses ==
  ASSUME FlowsInv, NEW p, NEW check, NEW sticky, L!SetConfig(p, check, sticky)
  PROVE  GoodNext
<1> DEFINE b == [lb EXCEPT !.pool = p, !.check = check, !.sticky = sticky]
           X == L!PoolOf(b)
           S == {i \in DOMAIN flows : flows[i].to \in X}
           es == {e \in ends : e[2] \in X}
           left == {e \in ends : e[2] \notin X}
           gu == givenUp \cup left
           gs == L!Among(flows, S)
<1>1. flows' = gs /\ ends' = ends /\ givenUp' = gu
  BY DEF L!SetConfig
<1> HIDE DEF X
<1>2. S \in SUBSET DOMAIN flows /\ es \in SUBSET ends
  OBVIOUS
<1>3. \A e \in es, i \in DOMAIN flows : StillPassed(flows[i], e) => i \in S
  BY DEF StillPassed
<1>4. es \ givenUp = ends \ gu
  OBVIOUS
<1>5. ASSUME NEW e \in left, NEW i \in S
      PROVE  flows[i].client # e[1]
  <2>1. CASE e \in givenUp
    BY <2>1 DEF FlowsInv, Good, Abandoned
  <2>2. CASE e \notin givenUp
    <3>1. PICK j \in DOMAIN flows : StillPassed(flows[j], e)
      BY <2>2 DEF FlowsInv, Good, AllPassed
    <3>2. flows[j].client = e[1] /\ flows[j].to \notin X
      BY <3>1 DEF StillPassed
    <3>3. i # j
      BY <3>2
    <3>4. QED BY <3>2, <3>3 DEF FlowsInv, Good, Sound
  <2>3. QED BY <2>1, <2>2
<1>6. \A e \in gu, i \in S : flows[i].client # e[1]
  BY <1>5 DEF FlowsInv, Good, Abandoned
<1>7. gu \subseteq ends /\ ends \in SUBSET (LbClients \X Servers)
  BY DEF FlowsInv, Good, Abandoned
<1> HIDE DEF S, es, gu
<1>8. Sound(gs) /\ AllPassed(gs, es \ givenUp) /\ Keeps(gs, flows, S)
  BY <1>2, <1>3, AmongPasses
<1> HIDE DEF gs
<1>9. Abandoned(gs, ends, gu)
  BY <1>6, <1>7, <1>8 DEF Abandoned, Keeps
<1>10. QED BY <1>1, <1>4, <1>8, <1>9 DEF GoodNext, Good

\* Nothing happens to the flows, but connections end.
LEMMA EndedGood ==
  ASSUME FlowsInv, flows' = flows, NEW some \in SUBSET ends, L!Ends(some)
  PROVE  GoodNext
<1>1. Good(flows, some, givenUp \cap some)
  BY FewerGood DEF FlowsInv
<1>2. QED BY <1>1 DEF GoodNext, L!Ends

LEMMA WorldPasses ==
  ASSUME FlowsInv, (\E s, told : L!Server(s, told)) \/ (\E same : L!AddressBack(same)) \/ (\E e : L!GivesUp(e))
                   \/ (\E to, S : L!AddressLost(to, S))
  PROVE  GoodNext
<1>1. flows' = flows
  BY DEF L!Server, L!AddressBack, L!GivesUp, L!AddressLost
<1>2. (ends' = ends /\ givenUp' = givenUp) \/ (\E some \in SUBSET ends : L!Ends(some))
  <2>1. ASSUME NEW s, NEW told, L!Server(s, told)
        PROVE  (ends' = ends /\ givenUp' = givenUp) \/ (\E some \in SUBSET ends : L!Ends(some))
    BY <2>1 DEF L!Server
  <2>2. ASSUME NEW same, L!AddressBack(same) PROVE \E some \in SUBSET ends : L!Ends(some)
    BY <2>2 DEF L!AddressBack
  <2>3. ASSUME NEW e, L!GivesUp(e) PROVE \E some \in SUBSET ends : L!Ends(some)
    BY <2>3 DEF L!GivesUp
  <2>4. ASSUME NEW to, NEW S, L!AddressLost(to, S) PROVE ends' = ends /\ givenUp' = givenUp
    BY <2>4 DEF L!AddressLost
  <2>5. QED BY <2>1, <2>2, <2>3, <2>4
<1>3. CASE ends' = ends /\ givenUp' = givenUp
  BY <1>1, <1>3 DEF FlowsInv, GoodNext
<1>4. QED BY <1>1, <1>2, <1>3, EndedGood

\* A request is asked of a backend that it was not asked of before.
LEMMA AskedAnew ==
  ASSUME FlowsInv, NEW c \in LbClients,
         L!OnRequest(c) \/ L!Failed(c) \/ L!Served(c) \/ L!Interrupted(c) \/ L!Done(c)
  PROVE  AskedOnce(req') /\ GoodNext
<1>1. flows' = flows /\ ends' = ends /\ givenUp' = givenUp
  BY DEF L!OnRequest, L!Failed, L!Served, L!Interrupted, L!Done
<1>2. flows \in Seq(PassedFlow) /\ lb \in Balancer /\ req \in [LbClients -> Request] /\ AskedOnce(req)
  BY DEF FlowsInv, LbInv, Good, Sound
<1> SUFFICES AskedOnce(req')
  BY <1>1 DEF FlowsInv, GoodNext
<1>3. ASSUME NEW b \in Balancer, NEW tried, L!Forward(b, affinity, c, tried)
      PROVE  AskedOnce(req')
  <2> DEFINE to == Choice(b, affinity, c, tried).to
             r == [state |-> IF to = "none" THEN "502" ELSE "asked", at |-> to, tried |-> tried]
  <2>1. req' = [req EXCEPT ![c] = r]
    BY <1>3 DEF L!Forward, Choice
  <2>2. to \in (Servers \ tried) \cup {"none"}
    BY <1>2, ChoiceIs
  <2> HIDE DEF to
  <2>3. r.state = "asked" => r.at \in Servers \ r.tried
    BY <2>2
  <2> HIDE DEF r
  <2>4. QED BY <1>2, <2>1, <2>3 DEF AskedOnce
<1>4. CASE L!OnRequest(c)
  BY <1>2, <1>3, <1>4 DEF L!OnRequest
<1>5. CASE L!Failed(c)
  <2> DEFINE b == L!LeftOut(lb, req[c].at)
             tried == req[c].tried \cup {req[c].at}
  <2>1. L!Forward(b, affinity, c, tried)
    BY <1>5 DEF L!Failed
  <2>2. b \in Balancer
    BY <1>2, LeftOutIs
  <2> HIDE DEF b, tried
  <2>3. QED BY <1>3, <2>1, <2>2
<1>6. CASE L!Served(c) \/ L!Interrupted(c) \/ L!Done(c)
  <2>1. PICK r \in Request : r.state # "asked" /\ req' = [req EXCEPT ![c] = r]
    <3>1. CASE L!Interrupted(c)
      <4>1. req[c] \in Request
        BY <1>2
      <4>2. req' = [req EXCEPT ![c] = Ended(req[c])]
        BY <1>2, <3>1 DEF L!Interrupted, Ended, Request
      <4>3. Ended(req[c]) \in Request /\ Ended(req[c]).state = "502"
        BY <4>1, EndedIs DEF Ended, Request
      <4>4. QED BY <4>2, <4>3
    <3>2. CASE L!Served(c) \/ L!Done(c)
      BY <3>2, IdleIs DEF L!Served, L!Done
    <3>3. QED BY <1>6, <3>1, <3>2
  <2>2. QED BY <1>2, <2>1 DEF AskedOnce
<1>7. QED BY <1>4, <1>5, <1>6

\* When the address is lost nobody is asked any more.
LEMMA NoneAsked ==
  ASSUME FlowsInv, NEW to, NEW S, L!AddressLost(to, S)
  PROVE  AskedOnce(req')
<1> DEFINE r(c) == IF to = "down" \/ c \notin V6Clients THEN L!Idle
                   ELSE IF req[c].state # "asked" THEN req[c] ELSE Ended(req[c])
<1>1. req' = [c \in LbClients |-> r(c)]
  BY DEF L!AddressLost, Ended
<1>2. \A c \in LbClients : r(c).state # "asked"
  <2> TAKE c \in LbClients
  <2>1. req[c] \in Request
    BY DEF FlowsInv, LbInv
  <2>2. Ended(req[c]).state = "502"
    BY <2>1 DEF Ended, Request
  <2>3. QED BY <2>2, IdleIs
<1> HIDE DEF r
<1>3. QED BY <1>1, <1>2 DEF AskedOnce

\* The steps that leave the requests alone leave them asked as they are.
LEMMA StillAsked ==
  ASSUME FlowsInv, req' = req
  PROVE  AskedOnce(req')
BY DEF FlowsInv

LEMMA FlowsStep ==
  ASSUME FlowsInv, L!Next
  PROVE  FlowsInv'
<1>1. LbInv'
  BY LbStepIs DEF FlowsInv, StepIs
<1>2. AskedOnce(req') /\ GoodNext
  <2>1. ASSUME NEW c \in LbClients,
               L!OnRequest(c) \/ L!Served(c) \/ L!Failed(c) \/ L!Interrupted(c) \/ L!Done(c)
        PROVE  AskedOnce(req') /\ GoodNext
    BY <2>1, AskedAnew
  <2>2. ASSUME NEW c \in LbClients, NEW flag, L!Syn(c) \/ L!FromClient(c, flag)
        PROVE  AskedOnce(req') /\ GoodNext
    <3>1. req' = req
      BY <2>2 DEF L!Syn, L!FromClient
    <3>2. QED BY <2>2, <3>1, StillAsked, SynPasses, FromClientPasses
  <2>3. ASSUME NEW i \in DOMAIN flows, NEW flag, L!SynAck(i) \/ L!FromServer(i, flag)
        PROVE  AskedOnce(req') /\ GoodNext
    <3>1. req' = req
      BY <2>3 DEF L!SynAck, L!FromServer
    <3>2. QED BY <2>3, <3>1, StillAsked, SynAckPasses, FromServerPasses
  <2>4. ASSUME L!Round PROVE AskedOnce(req') /\ GoodNext
    <3>1. req' = req
      BY <2>4 DEF L!Round
    <3>2. QED BY <2>4, <3>1, StillAsked, RoundPasses
  <2>5. ASSUME NEW p, NEW check, NEW sticky, L!SetConfig(p, check, sticky)
        PROVE  AskedOnce(req') /\ GoodNext
    <3>1. req' = req
      BY <2>5 DEF L!SetConfig
    <3>2. QED BY <2>5, <3>1, StillAsked, SetConfigPasses
  <2>6. ASSUME (\E s, told : L!Server(s, told)) \/ (\E same : L!AddressBack(same)) \/ (\E e : L!GivesUp(e))
        PROVE  AskedOnce(req') /\ GoodNext
    <3>1. req' = req
      BY <2>6 DEF L!Server, L!AddressBack, L!GivesUp
    <3>2. QED BY <2>6, <3>1, StillAsked, WorldPasses
  <2>7. ASSUME NEW to, NEW S, L!AddressLost(to, S)
        PROVE  AskedOnce(req') /\ GoodNext
    BY <2>7, NoneAsked, WorldPasses
  <2>8. QED BY <2>1, <2>2, <2>3, <2>4, <2>5, <2>6, <2>7 DEF L!Next
<1>3. QED BY <1>1, <1>2 DEF FlowsInv, GoodNext

LEMMA FlowsInit == L!Init => FlowsInv
<1> SUFFICES ASSUME L!Init PROVE FlowsInv
  OBVIOUS
<1>1. LbInv /\ flows = <<>> /\ ends = {} /\ givenUp = {} /\ req = [c \in LbClients |-> L!Idle]
  BY LbInitIs DEF L!Init
<1>2. Sound(flows)
  BY <1>1, FlowFacts DEF Sound
<1>3. AskedOnce(req)
  BY <1>1, IdleIs DEF AskedOnce
<1>4. QED BY <1>1, <1>2, <1>3 DEF FlowsInv, Good, AllPassed, Abandoned

\* What client and server take for an open connection is passed between the two by a flow of
\* their own (`flows` of lb.ts) until they end it, unless its backend left the list (setConfig) or
\* it was the oldest of a full table in which no flow was finished (makeRoom); no client
\* has two flows, and no request is asked of a backend twice.
THEOREM BalancedGoOn == Spec => [](At("lb") => L!OpenPassed /\ L!TypeOK)
<1> DEFINE FInv == At("lb") => FlowsInv
<1>1. Init => FInv
  BY FlowsInit DEF Init, At
<1>2. ASSUME FInv, [Next]_vars
      PROVE  FInv'
  <2>1. CASE UNCHANGED vars
    <3>1. UNCHANGED <<part, lb, req, flows, ends, givenUp>>
      BY <2>1 DEF vars, LVars
    <3>2. QED BY <1>2, <3>1 DEF At, FlowsInv, LbInv, Requests, Good, Sound, AllPassed, Abandoned, AskedOnce
  <2>2. CASE At("lb") /\ L!Next /\ part' = part
    BY <1>2, <2>2, FlowsStep DEF At
  <2>3. CASE ~ At("lb") /\ part' = part
    BY <2>3 DEF At
  <2>4. QED BY <1>2, <2>1, <2>2, <2>3 DEF Next, At
<1>3. FInv => (At("lb") => L!OpenPassed /\ L!TypeOK)
  <2> SUFFICES ASSUME FlowsInv PROVE L!OpenPassed /\ L!TypeOK
    OBVIOUS
  <2>1. L!OpenPassed
    BY DEF FlowsInv, Good, AllPassed, StillPassed, L!OpenPassed
  <2>2. L!TypeOK
    BY DEF FlowsInv, Good, Sound, AskedOnce, L!TypeOK
  <2>3. QED BY <2>1, <2>2
<1> HIDE DEF FInv, Fairness
<1>4. QED BY <1>1, <1>2, <1>3, PTL DEF Spec

-------------------------------------------------------------------------------
(* Two lines *)

TwoLines ==
  {m \in [enabled : BOOLEAN, track : BOOLEAN, member : BOOLEAN, active : M!Lines] :
     ~ m.enabled => m.active = "wan"}
LineState ==
  [online : BOOLEAN, fails : 0 .. DownAfter, oks : 0 .. UpAfter, probe : {"none", "sent", "answered"}]

LEMMA LineFacts ==
  /\ DownAfter \in Nat \ {0} /\ UpAfter \in Nat \ {0} /\ M!Lines = {"wan", "wan2"}
  /\ \A f \in Flows : RuleOf[f] \in M!Lines \cup {"none"} /\ MainOf[f] \in M!Lines \cup {"none"}
<1>1. \A f \in Flows : RuleOf[f] \in {"wan", "wan2", "none"} /\ MainOf[f] \in {"wan", "wan2", "none"}
  BY DEF Flows, RuleOf, MainOf
<1>2. QED BY <1>1 DEF DownAfter, UpAfter, M!Lines

\* A flow that was made on a line is in the table of that line only.
OnItsLine(cs, ms) ==
  /\ cs \in [M!Lines -> SUBSET Flows] /\ ms \in [Flows -> M!Lines \cup {"none", "broken"}]
  /\ \A f \in Flows : ms[f] = "none" => \A w \in M!Lines : f \notin cs[w]
  /\ \A f \in Flows, w \in M!Lines : ms[f] = w => f \in cs[w] /\ f \notin cs[M!OtherLine(w)]

MwanInv == mw \in TwoLines /\ line \in [M!Lines -> LineState] /\ OnItsLine(carried, made)

LEMMA DecideIs ==
  ASSUME NEW m \in TwoLines, NEW l, NEW p
  PROVE  M!Decide(m, l, p) \in TwoLines
<1> DEFINE to == IF ~ l["wan"].online /\ ~ (m.active = "wan" /\ M!Asking(p, "wan")) /\ l["wan2"].online /\ m.member
                 THEN "wan2" ELSE "wan"
<1>1. M!Decide(m, l, p) = IF ~ m.enabled THEN m ELSE [m EXCEPT !.active = to]
  BY DEF M!Decide
<1>2. to \in M!Lines
  BY LineFacts
<1> HIDE DEF to
<1>3. m.enabled => [m EXCEPT !.active = to] \in TwoLines
  BY <1>2 DEF TwoLines
<1>4. QED BY <1>1, <1>3

LEMMA FreshIs ==
  ASSUME NEW b \in BOOLEAN
  PROVE  M!Fresh(b) \in LineState
BY LineFacts DEF M!Fresh, LineState

LEMMA OnLineIs ==
  ASSUME NEW m, NEW l \in [M!Lines -> LineState], NEW p, NEW w
  PROVE  M!OnLine(m, l, p, w) \in [M!Lines -> LineState]
BY FreshIs DEF M!OnLine

LEMMA ChangedIs ==
  ASSUME MwanInv, NEW p, NEW w, M!Changed(p, w)
  PROVE  MwanInv'
<1>1. line' = M!OnLine(mw, line, p, w) /\ mw' = M!Decide(mw, line', p) /\ UNCHANGED <<carried, made>>
  BY DEF M!Changed
<1>2. line' \in [M!Lines -> LineState]
  BY <1>1, OnLineIs DEF MwanInv
<1>3. mw' \in TwoLines
  BY <1>1, DecideIs DEF MwanInv
<1>4. QED BY <1>1, <1>2, <1>3 DEF MwanInv

LEMMA CountedIs ==
  ASSUME NEW l \in LineState, NEW k \in 0 .. DownAfter, NEW o \in 0 .. UpAfter, NEW b \in BOOLEAN
  PROVE  [l EXCEPT !.fails = k, !.oks = o, !.online = b] \in LineState
<1> DEFINE F == 0 .. DownAfter
           U == 0 .. UpAfter
<1>1. LineState = [online : BOOLEAN, fails : F, oks : U, probe : {"none", "sent", "answered"}]
  BY DEF LineState
<1>2. k \in F /\ o \in U
  OBVIOUS
<1> HIDE DEF F, U
<1>3. QED BY <1>1, <1>2

LEMMA TickKeeps ==
  ASSUME MwanInv, M!Tick
  PROVE  MwanInv'
<1> DEFINE fails(w) == IF line[w].fails < DownAfter THEN line[w].fails + 1 ELSE line[w].fails
           oks(w) == IF line[w].oks < UpAfter THEN line[w].oks + 1 ELSE line[w].oks
           up(w) == line[w].online \/ line[w].oks + 1 >= UpAfter
           stays(w) == line[w].online /\ line[w].fails + 1 < DownAfter
           answered(w) == [line[w] EXCEPT !.fails = 0, !.oks = oks(w), !.online = up(w)]
           silent(w) == [line[w] EXCEPT !.oks = 0, !.fails = fails(w), !.online = stays(w)]
           sent(l) == [l EXCEPT !.probe = "sent"]
           none(l) == [l EXCEPT !.probe = "none"]
<1>1. \A w \in M!Lines : line[w] \in LineState
  BY DEF MwanInv
<1>2. \A w \in M!Lines : /\ fails(w) \in 0 .. DownAfter /\ oks(w) \in 0 .. UpAfter
                         /\ up(w) \in BOOLEAN /\ stays(w) \in BOOLEAN
  <2> TAKE w \in M!Lines
  <2>1. fails(w) \in 0 .. DownAfter /\ oks(w) \in 0 .. UpAfter
    BY <1>1, LineFacts DEF LineState
  <2>2. up(w) \in BOOLEAN /\ stays(w) \in BOOLEAN
    BY <1>1, LineFacts DEF LineState
  <2>3. QED BY <2>1, <2>2
<1>3. \A w \in M!Lines : line'[w] \in {sent(line[w]), sent(answered(w)), sent(silent(w)), none(line[w])}
  BY <1>1 DEF M!Tick, LineState
<1> HIDE DEF fails, oks, up, stays
<1>4. \A w \in M!Lines : answered(w) \in LineState /\ silent(w) \in LineState
  <2> TAKE w \in M!Lines
  <2>1. /\ answered(w) = [line[w] EXCEPT !.fails = 0, !.oks = oks(w), !.online = up(w)]
        /\ silent(w) = [line[w] EXCEPT !.fails = fails(w), !.oks = 0, !.online = stays(w)]
    BY <1>1 DEF LineState
  <2>2. 0 \in 0 .. DownAfter /\ 0 \in 0 .. UpAfter
    BY LineFacts
  <2> HIDE DEF answered, silent
  <2>3. answered(w) \in LineState
    <3> DEFINE k == 0
               o == oks(w)
               b == up(w)
    <3>1. k \in 0 .. DownAfter /\ o \in 0 .. UpAfter /\ b \in BOOLEAN
      BY <1>2, <2>2
    <3>2. answered(w) = [line[w] EXCEPT !.fails = k, !.oks = o, !.online = b]
      BY <2>1
    <3> HIDE DEF k, o, b
    <3>3. line[w] \in LineState
      BY <1>1
    <3>4. [line[w] EXCEPT !.fails = k, !.oks = o, !.online = b] \in LineState
      BY <3>1, <3>3, CountedIs, Zenon
    <3>5. QED BY <3>2, <3>4
  <2>4. silent(w) \in LineState
    <3> DEFINE k == fails(w)
               o == 0
               b == stays(w)
    <3>1. k \in 0 .. DownAfter /\ o \in 0 .. UpAfter /\ b \in BOOLEAN
      BY <1>2, <2>2
    <3>2. silent(w) = [line[w] EXCEPT !.fails = k, !.oks = o, !.online = b]
      BY <2>1
    <3> HIDE DEF k, o, b
    <3>3. line[w] \in LineState
      BY <1>1
    <3>4. [line[w] EXCEPT !.fails = k, !.oks = o, !.online = b] \in LineState
      BY <3>1, <3>3, CountedIs, Zenon
    <3>5. QED BY <3>2, <3>4
  <2>5. QED BY <2>3, <2>4
<1>5. \A l \in LineState : sent(l) \in LineState /\ none(l) \in LineState
  BY DEF LineState
<1> HIDE DEF answered, silent, sent, none
<1>6. line' \in [M!Lines -> LineState]
  <2>1. line' = [w \in M!Lines |-> line'[w]]
    <3> DEFINE Tracked(w) == M!Ready(port, mw.enabled, w) /\ (w = "wan2" => mw.member)
               Count(w) ==
                 LET l == line[w]
                 IN  CASE l.probe = "none" -> l
                       [] l.probe = "answered" ->
                            [l EXCEPT !.fails = 0, !.oks = IF @ < UpAfter THEN @ + 1 ELSE @,
                                      !.online = @ \/ l.oks + 1 >= UpAfter]
                       [] l.probe = "sent" ->
                            [l EXCEPT !.oks = 0, !.fails = IF @ < DownAfter THEN @ + 1 ELSE @,
                                      !.online = @ /\ l.fails + 1 < DownAfter]
               next(w) == IF Tracked(w) THEN [Count(w) EXCEPT !.probe = "sent"]
                          ELSE [line[w] EXCEPT !.probe = "none"]
    <3>1. line' = [w \in M!Lines |-> next(w)]
      BY DEF M!Tick
    <3> HIDE DEF next
    <3>2. QED BY <3>1
  <2>2. \A w \in M!Lines : line'[w] \in LineState
    BY <1>1, <1>3, <1>4, <1>5
  <2>3. QED BY <2>1, <2>2
<1>7. mw' \in TwoLines
  BY DecideIs DEF M!Tick, MwanInv
<1>8. QED BY <1>6, <1>7 DEF M!Tick, MwanInv

LEMMA OutForIs ==
  ASSUME MwanInv, NEW f \in Flows
  PROVE  /\ M!OutFor(f) \in M!Lines
         /\ mw.enabled /\ made[f] \in M!Lines /\ M!Usable(made[f]) => M!OutFor(f) = made[f]
<1> DEFINE out == IF mw.enabled THEN mw.active ELSE "wan"
           other == M!OtherLine(out)
           main == M!MainLine(f)
           Holds(w) == mw.enabled /\ f \in carried[w] /\ M!Usable(w) /\ main # w
<1>1. out \in M!Lines /\ other \in M!Lines
  BY LineFacts DEF MwanInv, TwoLines, M!OtherLine
<1>2. main \in M!Lines \cup {"none"} /\ RuleOf[f] \in M!Lines \cup {"none"}
  BY LineFacts DEF M!MainLine
<1>3. M!OutFor(f) = IF Holds(out) THEN out
                    ELSE IF Holds(other) THEN other
                    ELSE IF main # "none" THEN main
                    ELSE IF ~ mw.enabled \/ f \in carried[out] \/ RuleOf[f] = "none" \/ ~ M!Usable(RuleOf[f]) THEN out
                    ELSE RuleOf[f]
  BY DEF M!OutFor
<1>4. \A w \in M!Lines : w = out \/ w = other
  BY <1>1, LineFacts DEF M!OtherLine
<1> HIDE DEF out, other, main
<1>5. M!OutFor(f) \in M!Lines
  BY <1>1, <1>2, <1>3
<1>6. ASSUME mw.enabled, made[f] \in M!Lines, M!Usable(made[f])
      PROVE  M!OutFor(f) = made[f]
  <2> DEFINE w == made[f]
  <2>1. f \in carried[w] /\ f \notin carried[M!OtherLine(w)]
    BY <1>6 DEF MwanInv, OnItsLine
  <2>2. \A v \in M!Lines : v # w => v = M!OtherLine(w)
    BY <1>6, LineFacts DEF M!OtherLine
  <2>3. \A v \in M!Lines : v # w => ~ Holds(v)
    BY <2>1, <2>2
  <2>4. main # w => Holds(w)
    BY <1>6, <2>1
  <2>5. main = w => ~ Holds(w)
    OBVIOUS
  <2>6. w # "none"
    BY <1>6, LineFacts
  <2> HIDE DEF w, Holds
  <2>7. M!OutFor(f) = w
    BY <1>1, <1>3, <1>4, <1>6, <2>3, <2>4, <2>5, <2>6 DEF w
  <2>8. QED BY <2>7 DEF w
<1>7. QED BY <1>5, <1>6

LEMMA SendKeeps ==
  ASSUME MwanInv, NEW f \in Flows, M!Send(f)
  PROVE  OnItsLine(carried', made')
<1> DEFINE w == M!OutFor(f)
           to == IF made[f] = "none" THEN w ELSE IF made[f] = w THEN w ELSE "broken"
           C == [carried EXCEPT ![w] = @ \cup {f}]
           N2 == [made EXCEPT ![f] = to]
<1>1. w \in M!Lines
  BY OutForIs
<1>2. carried' = C /\ made' = N2
  BY DEF M!Send
<1> HIDE DEF w
<1>3. carried \in [M!Lines -> SUBSET Flows] /\ made \in [Flows -> M!Lines \cup {"none", "broken"}]
  BY DEF MwanInv, OnItsLine
<1>4. to \in M!Lines \cup {"broken"} /\ "none" \notin M!Lines /\ "broken" \notin M!Lines
  BY <1>1, LineFacts
<1>5. C \in [M!Lines -> SUBSET Flows] /\ N2 \in [Flows -> M!Lines \cup {"none", "broken"}]
  BY <1>1, <1>3, <1>4
<1>6. \A g \in Flows \ {f}, v \in M!Lines : N2[g] = made[g] /\ (g \in C[v] <=> g \in carried[v])
  BY <1>1, <1>3
<1>7. N2[f] = to /\ f \in C[w] /\ \A v \in M!Lines \ {w} : C[v] = carried[v]
  BY <1>1, <1>3
<1>8. \A v \in M!Lines : M!OtherLine(v) \in M!Lines \ {v}
  BY LineFacts DEF M!OtherLine
<1>9. to = w => f \notin carried[M!OtherLine(w)]
  BY <1>1, <1>4, <1>8 DEF MwanInv, OnItsLine
<1> HIDE DEF to, C, N2
<1>10. \A g \in Flows : N2[g] = "none" => \A v \in M!Lines : g \notin C[v]
  BY <1>4, <1>6, <1>7 DEF MwanInv, OnItsLine
<1>11. \A g \in Flows, v \in M!Lines : N2[g] = v => g \in C[v] /\ g \notin C[M!OtherLine(v)]
  <2> SUFFICES ASSUME NEW g \in Flows, NEW v \in M!Lines, N2[g] = v
               PROVE  g \in C[v] /\ g \notin C[M!OtherLine(v)]
    OBVIOUS
  <2>1. CASE g # f
    BY <1>6, <1>8, <2>1 DEF MwanInv, OnItsLine
  <2>2. CASE g = f
    <3>1. to = v
      BY <1>7, <2>2
    <3>2. v = w
      BY <1>4, <3>1 DEF to
    <3>3. QED BY <1>7, <1>8, <1>9, <2>2, <3>1, <3>2
  <2>3. QED BY <2>1, <2>2
<1>12. QED BY <1>2, <1>5, <1>10, <1>11 DEF OnItsLine

LEMMA FinishKeeps ==
  ASSUME MwanInv, NEW f \in Flows, M!Finish(f)
  PROVE  OnItsLine(carried', made')
<1>1. carried' = [w \in M!Lines |-> carried[w] \ {f}] /\ made' = [made EXCEPT ![f] = "none"]
  BY DEF M!Finish
<1>2. \A w \in M!Lines : M!OtherLine(w) \in M!Lines /\ w # "none"
  BY LineFacts DEF M!OtherLine
<1>3. QED BY <1>1, <1>2 DEF MwanInv, OnItsLine

LEMMA ConfiguredIs ==
  ASSUME MwanInv, NEW on \in BOOLEAN, NEW member \in BOOLEAN, M!SetWan2(on, member)
  PROVE  MwanInv'
<1> DEFINE m == [mw EXCEPT !.enabled = on, !.member = member]
           off == [m EXCEPT !.active = "wan"]
<1>0. mw \in TwoLines
  BY DEF MwanInv
<1>1. PICK p : M!Configured(m, p)
  BY DEF M!SetWan2
<1> DEFINE l == [w \in M!Lines |-> M!Fresh(M!Ready(p, m.enabled, w))]
<1>2. line' = l /\ mw' = (IF m.enabled THEN M!Decide(m, l, p) ELSE off) /\ UNCHANGED <<carried, made>>
  BY <1>1 DEF M!Configured
<1>3. on => m \in TwoLines
  BY <1>0 DEF TwoLines
<1>4. m.enabled = on /\ (~ on => off \in TwoLines)
  BY <1>0, LineFacts DEF TwoLines
<1> HIDE DEF off
<1>5. \A w \in M!Lines : M!Ready(p, m.enabled, w) \in BOOLEAN
  BY DEF M!Ready
<1> HIDE DEF m
<1>6. l \in [M!Lines -> LineState]
  BY <1>5, FreshIs
<1> HIDE DEF l
<1>7. mw' \in TwoLines
  BY <1>2, <1>3, <1>4, DecideIs
<1>8. QED BY <1>2, <1>6, <1>7 DEF MwanInv

LEMMA MwanStep ==
  ASSUME MwanInv, M!Next
  PROVE  MwanInv'
<1>1. ASSUME NEW w \in M!Lines, M!Reply(w) PROVE MwanInv'
  <2>1. UNCHANGED <<mw, carried, made>> /\ line' = [line EXCEPT ![w].probe = "answered"]
    BY <1>1 DEF M!Reply
  <2>2. line' \in [M!Lines -> LineState]
    BY <2>1 DEF MwanInv, LineState
  <2>3. QED BY <2>1, <2>2 DEF MwanInv
<1>2. ASSUME NEW w \in M!Lines, M!LinkOn(w) PROVE MwanInv'
  <2>1. UNCHANGED <<mw, line, carried, made>> \/ \E p : M!Changed(p, w)
    BY <1>2 DEF M!LinkOn
  <2>2. QED BY <2>1, ChangedIs DEF MwanInv
<1>3. ASSUME NEW w \in M!Lines, M!LinkOff(w) PROVE MwanInv'
  <2>1. UNCHANGED <<mw, line, carried, made>> \/ \E p : M!Changed(p, w)
    BY <1>3 DEF M!LinkOff
  <2>2. QED BY <2>1, ChangedIs DEF MwanInv
<1>4. ASSUME NEW w \in M!Lines, M!Outage(w) PROVE MwanInv'
  BY <1>4 DEF M!Outage, MwanInv
<1>5. ASSUME NEW w \in M!Lines, NEW bound \in BOOLEAN, M!DhcpEnds(w, bound) PROVE MwanInv'
  <2>1. \E p : M!Changed(p, w)
    BY <1>5 DEF M!DhcpEnds
  <2>2. QED BY <2>1, ChangedIs
<1>6. ASSUME NEW f \in Flows, M!Send(f) \/ M!Finish(f) PROVE MwanInv'
  <2>1. UNCHANGED <<mw, line>>
    BY <1>6 DEF M!Send, M!Finish
  <2>2. QED BY <1>6, <2>1, SendKeeps, FinishKeeps DEF MwanInv
<1>7. QED BY <1>1, <1>2, <1>3, <1>4, <1>5, <1>6, TickKeeps, ConfiguredIs DEF M!Next

LEMMA MwanInit == M!Init => MwanInv
<1> SUFFICES ASSUME M!Init PROVE MwanInv
  OBVIOUS
<1>1. mw \in TwoLines
  BY LineFacts DEF M!Init, TwoLines
<1>2. line \in [M!Lines -> LineState]
  BY FreshIs DEF M!Init
<1>3. OnItsLine(carried, made)
  <2>1. carried = [w \in M!Lines |-> {}] /\ made = [f \in Flows |-> "none"]
    BY DEF M!Init
  <2>2. "none" \notin M!Lines
    BY LineFacts
  <2>3. QED BY <2>1, <2>2 DEF OnItsLine
<1>4. QED BY <1>1, <1>2, <1>3 DEF MwanInv

LEMMA MwanHolds ==
  ASSUME MwanInv
  PROVE  M!KeepsItsLine /\ M!TypeOK
<1>1. M!KeepsItsLine
  BY OutForIs DEF M!KeepsItsLine
<1>2. M!TypeOK
  BY LineFacts DEF MwanInv, TwoLines, LineState, M!TypeOK
<1>3. QED BY <1>1, <1>2

\* A flow leaves by the line it was made on for as long as this line can be used (`outFor` of
\* routerroute.ts), whatever became of cables, pings, addresses and settings in between; multi-WAN
\* that is off has WAN1 in use, and the counters of a line stay within their limits (mwan.ts).
THEOREM LinesKept == Spec => [](At("mwan") => M!KeepsItsLine /\ M!TypeOK)
<1> DEFINE MHere == At("mwan") => MwanInv
<1>1. Init => MHere
  BY MwanInit DEF Init, At
<1>2. ASSUME MHere, [Next]_vars
      PROVE  MHere'
  <2>1. CASE UNCHANGED vars
    <3>1. UNCHANGED <<part, mw, line, carried, made>>
      BY <2>1 DEF vars, MVars
    <3>2. QED BY <1>2, <3>1 DEF At, MwanInv, OnItsLine
  <2>2. CASE At("mwan") /\ M!Next /\ part' = part
    BY <1>2, <2>2, MwanStep DEF At
  <2>3. CASE ~ At("mwan") /\ part' = part
    BY <2>3 DEF At
  <2>4. QED BY <1>2, <2>1, <2>2, <2>3 DEF Next, At
<1>3. MHere => (At("mwan") => M!KeepsItsLine /\ M!TypeOK)
  BY MwanHolds
<1> HIDE DEF MHere, Fairness
<1>4. QED BY <1>1, <1>2, <1>3, PTL DEF Spec

-------------------------------------------------------------------------------
(* Published ports and hairpinning *)

Both == {"client", "target"}
ProxyPort == 0 .. ProxyPorts - 1
PubFlow == [client : Clients, addr : Addrs, port : P!Ports, to : P!Targets, proxy : ProxyPort, since : Nat,
            established : BOOLEAN, fins : SUBSET Both, closed : Nat \cup {None}]
PubConn == [client : Clients, addr : Addrs, port : P!Ports, to : P!Targets, proxy : ProxyPort, fins : SUBSET Both]
Publisher == [rules : Rules, flows : SUBSET PubFlow, next : ProxyPort]

LEMMA PortFacts == ProxyPorts \in Nat \ {0} /\ None \notin Nat
BY NatAssumption DEF ProxyPorts, NatAssumption

LEMMA TurnPort ==
  ASSUME NEW k \in Nat
  PROVE  k % ProxyPorts \in ProxyPort
BY PortFacts DEF ProxyPort

\* No port is used twice, a user has one flow for two ends, and a flow ends after it has begun.
OnePort(pb) ==
  \A u, v \in Users : \A f \in pb[u].flows, g \in pb[v].flows : f.proxy = g.proxy => u = v /\ f = g
OneKey(F) == \A f, g \in F : P!SameFlow(f, g.client, g.addr, g.port) => f = g
Begun(F) == \A f \in F : ~ f.established => f.fins = {}
PubGood(pb) ==
  /\ pb \in [Users -> Publisher] /\ OnePort(pb)
  /\ \A u \in Users : OneKey(pb[u].flows) /\ Begun(pb[u].flows)

\* The flow f carries the connection k, and has seen no more of its end than its two ends.
PubCarries(f, k) ==
  /\ P!SameFlow(f, k.client, k.addr, k.port) /\ f.to = k.to /\ f.proxy = k.proxy
  /\ f.established /\ f.closed = None /\ f.fins \subseteq k.fins
Carried(pb, k) == \E u \in Users : \E f \in pb[u].flows : PubCarries(f, k)
AllCarried(pb, ks) == \A k \in ks : k \in PubConn /\ k.fins # Both /\ Carried(pb, k)

PubInv == pubNow \in Nat /\ PubGood(pub) /\ AllCarried(pub, conns)

LEMMA PubIs ==
  ASSUME PubInv, NEW u \in Users
  PROVE  /\ pub[u] \in Publisher /\ pub[u].rules \in Rules /\ pub[u].flows \in SUBSET PubFlow
         /\ pub[u].next \in ProxyPort /\ OneKey(pub[u].flows) /\ Begun(pub[u].flows)
<1>1. pub[u] \in Publisher
  BY DEF PubInv, PubGood
<1>2. QED BY <1>1 DEF Publisher, PubInv, PubGood

\* F may be the flows of u.
FlowsFit(u, F) ==
  /\ F \in SUBSET PubFlow /\ OneKey(F) /\ Begun(F)
  /\ \A f, g \in F : f.proxy = g.proxy => f = g
  /\ \A f \in F, v \in Users \ {u} : \A g \in pub[v].flows : f.proxy # g.proxy

\* The flows of one user are others.
LEMMA ReplacedIs ==
  ASSUME PubInv, NEW u \in Users, NEW F, FlowsFit(u, F), NEW n \in ProxyPort,
         pub' = [pub EXCEPT ![u].flows = F, ![u].next = n]
  PROVE  PubGood(pub') /\ pub'[u].flows = F /\ \A v \in Users \ {u} : pub'[v] = pub[v]
<1> DEFINE x == [pub[u] EXCEPT !.flows = F, !.next = n]
<1>1. pub \in [Users -> Publisher]
  BY DEF PubInv, PubGood
<1>2. pub' = [pub EXCEPT ![u] = x]
  BY <1>1
<1>3. x \in Publisher /\ x.flows = F
  BY <1>1 DEF Publisher, FlowsFit
<1> HIDE DEF x
<1>4. pub' \in [Users -> Publisher] /\ pub'[u].flows = F /\ \A v \in Users \ {u} : pub'[v] = pub[v]
  BY <1>1, <1>2, <1>3
<1>5. OnePort(pub')
  <2> SUFFICES ASSUME NEW v \in Users, NEW w \in Users, NEW f \in pub'[v].flows, NEW g \in pub'[w].flows, f.proxy = g.proxy
               PROVE  v = w /\ f = g
    BY DEF OnePort
  <2>1. CASE v = u /\ w = u
    BY <1>4, <2>1 DEF FlowsFit
  <2>2. CASE v = u /\ w # u
    BY <1>4, <2>2 DEF FlowsFit
  <2>3. CASE v # u /\ w = u
    BY <1>4, <2>3 DEF FlowsFit
  <2>4. CASE v # u /\ w # u
    BY <1>4, <2>4 DEF PubInv, PubGood, OnePort
  <2>5. QED BY <2>1, <2>2, <2>3, <2>4
<1>6. \A v \in Users : OneKey(pub'[v].flows) /\ Begun(pub'[v].flows)
  BY <1>4 DEF FlowsFit, PubInv, PubGood
<1>7. QED BY <1>4, <1>5, <1>6 DEF PubGood

LEMMA ChangedFlows ==
  ASSUME PubInv, NEW u \in Users, NEW F, FlowsFit(u, F), pub' = [pub EXCEPT ![u].flows = F]
  PROVE  PubGood(pub') /\ pub'[u].flows = F /\ \A v \in Users \ {u} : pub'[v] = pub[v]
<1> DEFINE n == pub[u].next
<1>1. pub' = [pub EXCEPT ![u].flows = F, ![u].next = n]
  BY DEF PubInv, PubGood, Publisher
<1>2. n \in ProxyPort
  BY PubIs
<1> HIDE DEF n
<1>3. QED BY <1>1, <1>2, ReplacedIs, Zenon

\* Some flows may be forgotten.
LEMMA FewerFit ==
  ASSUME PubInv, NEW u \in Users, NEW F \in SUBSET pub[u].flows
  PROVE  FlowsFit(u, F)
<1>1. F \in SUBSET PubFlow /\ OneKey(F) /\ Begun(F)
  BY PubIs DEF OneKey, Begun
<1>2. \A f, g \in F : f.proxy = g.proxy => f = g
  BY DEF PubInv, PubGood, OnePort
<1>3. \A f \in F, v \in Users \ {u} : \A g \in pub[v].flows : f.proxy # g.proxy
  BY DEF PubInv, PubGood, OnePort
<1>4. QED BY <1>1, <1>2, <1>3 DEF FlowsFit

\* The flows may change as long as they keep their ends and their ports.
SameEnds(g, f) ==
  g.client = f.client /\ g.addr = f.addr /\ g.port = f.port /\ g.to = f.to /\ g.proxy = f.proxy

LEMMA MappedFit ==
  ASSUME PubInv, NEW u \in Users, NEW t \in [pub[u].flows -> PubFlow],
         \A f \in pub[u].flows : SameEnds(t[f], f) /\ (~ t[f].established => t[f].fins = {}),
         NEW F, F = {t[f] : f \in pub[u].flows}
  PROVE  FlowsFit(u, F)
<1>1. F \in SUBSET PubFlow
  OBVIOUS
<1>2. \A f, g \in F : f.proxy = g.proxy => f = g
  BY DEF PubInv, PubGood, OnePort, SameEnds
<1>3. \A f \in F, v \in Users \ {u} : \A g \in pub[v].flows : f.proxy # g.proxy
  BY DEF PubInv, PubGood, OnePort, SameEnds
<1>4. OneKey(F)
  BY PubIs DEF OneKey, SameEnds, P!SameFlow
<1>5. Begun(F)
  BY DEF Begun
<1>6. QED BY <1>1, <1>2, <1>3, <1>4, <1>5 DEF FlowsFit

Tracked(g, f, flag, side) ==
  /\ g \in PubFlow /\ SameEnds(g, f) /\ g.established = f.established
  /\ g.fins = IF flag = "fin" THEN f.fins \cup {side} ELSE f.fins
  /\ flag # "rst" /\ f.fins # Both => g.closed = f.closed

LEMMA TrackIs ==
  ASSUME NEW f \in PubFlow, NEW flag, NEW side \in Both, pubNow \in Nat
  PROVE  Tracked(P!Track(f, flag, side), f, flag, side)
<1> DEFINE done == IF f.closed = None THEN pubNow ELSE f.closed
           over == [f EXCEPT !.closed = done]
           more == f.fins \cup {side}
           half == [f EXCEPT !.fins = more]
<1>1. P!Track(f, flag, side) = CASE flag = "rst" -> over
                                 [] flag = "fin" -> [f EXCEPT !.fins = @ \cup {side}]
                                 [] flag = "ack" /\ f.fins = Both -> over
                                 [] OTHER -> f
  BY DEF P!Track, Both
<1>2. [f EXCEPT !.fins = @ \cup {side}] = half
  BY DEF PubFlow
<1>3. done \in Nat \cup {None} /\ more \in SUBSET Both
  BY DEF PubFlow
<1> HIDE DEF done, more
<1>4. over \in PubFlow /\ SameEnds(over, f) /\ over.established = f.established /\ over.fins = f.fins
  BY <1>3 DEF PubFlow, SameEnds
<1>5. half \in PubFlow /\ SameEnds(half, f) /\ half.established = f.established /\ half.fins = more
      /\ half.closed = f.closed
  BY <1>3 DEF PubFlow, SameEnds
<1> HIDE DEF over, half
<1>6. CASE flag = "rst"
  <2>1. P!Track(f, flag, side) = over
    BY <1>1, <1>6
  <2>2. QED BY <1>4, <1>6, <2>1 DEF Tracked
<1>7. CASE flag = "fin"
  <2>1. P!Track(f, flag, side) = half
    BY <1>1, <1>2, <1>7
  <2>2. QED BY <1>5, <1>7, <2>1 DEF more, Tracked
<1>8. CASE flag = "ack" /\ f.fins = Both
  <2>1. P!Track(f, flag, side) = over
    BY <1>1, <1>8
  <2>2. QED BY <1>4, <1>8, <2>1 DEF Tracked
<1>9. CASE flag # "rst" /\ flag # "fin" /\ ~ (flag = "ack" /\ f.fins = Both)
  <2>1. P!Track(f, flag, side) = f
    BY <1>1, <1>9
  <2>2. SameEnds(f, f)
    BY DEF SameEnds
  <2>3. QED BY <1>9, <2>1, <2>2 DEF Tracked
<1>10. QED BY <1>6, <1>7, <1>8, <1>9

\* What the ends know after a segment that those of X see.
Knows(X, flag, side) == UNION {IF k \in X THEN P!Ends(k, flag, side) ELSE {k} : k \in conns}

LEMMA EndsIs ==
  ASSUME NEW k \in PubConn, NEW flag, NEW side \in Both, NEW n \in P!Ends(k, flag, side)
  PROVE  /\ n \in PubConn /\ SameEnds(n, k) /\ n.fins # Both /\ flag # "rst"
         /\ n.fins = IF flag = "fin" THEN k.fins \cup {side} ELSE k.fins
<1> DEFINE fins == IF flag = "fin" THEN k.fins \cup {side} ELSE k.fins
           h == [k EXCEPT !.fins = fins]
<1>1. h = [k EXCEPT !.fins = IF flag = "fin" THEN @ \cup {side} ELSE @]
  BY DEF PubConn
<1>2. fins \in SUBSET Both
  BY DEF PubConn
<1> HIDE DEF fins
<1>3. h \in PubConn /\ SameEnds(h, k) /\ h.fins = fins
  BY <1>2 DEF PubConn, SameEnds
<1>4. flag # "rst" /\ n = h /\ h.fins # Both
  BY <1>1 DEF P!Ends, Both
<1> HIDE DEF h
<1>5. QED BY <1>3, <1>4 DEF fins

LEMMA KnowsIs ==
  ASSUME AllCarried(pub, conns), NEW X, NEW flag, NEW side \in Both, NEW n \in Knows(X, flag, side)
  PROVE  /\ n \in PubConn /\ n.fins # Both
         /\ \E k \in conns : /\ SameEnds(n, k) /\ (k \in X => flag # "rst") /\ k.fins \subseteq n.fins
                             /\ k \in X /\ flag = "fin" => side \in n.fins
<1>1. PICK k \in conns : n \in (IF k \in X THEN P!Ends(k, flag, side) ELSE {k})
  BY DEF Knows
<1>2. k \in PubConn /\ k.fins # Both
  BY DEF AllCarried
<1>3. CASE k \in X
  <2>1. n \in P!Ends(k, flag, side)
    BY <1>1, <1>3
  <2>2. /\ n \in PubConn /\ SameEnds(n, k) /\ n.fins # Both /\ flag # "rst"
        /\ n.fins = IF flag = "fin" THEN k.fins \cup {side} ELSE k.fins
    BY <1>2, <2>1, EndsIs
  <2>3. QED BY <1>3, <2>2
<1>4. CASE k \notin X
  <2>1. n = k
    BY <1>1, <1>4
  <2>2. SameEnds(n, k)
    BY <2>1 DEF SameEnds
  <2>3. QED BY <1>2, <1>4, <2>1, <2>2
<1>5. QED BY <1>3, <1>4

\* Flows of u are tracked, and the two ends of those know as much.
LEMMA TrackedCarry ==
  ASSUME PubInv, NEW u \in Users, NEW t \in [pub[u].flows -> PubFlow], NEW X, NEW flag, NEW side \in Both,
         \A v \in Users \ {u} : pub'[v] = pub[v],
         \A f \in pub[u].flows : t[f] \in pub'[u].flows,
         \A f \in pub[u].flows : \A k \in conns : PubCarries(f, k) =>
            \/ t[f] = f
            \/ /\ k \in X /\ SameEnds(t[f], f) /\ t[f].established
               /\ t[f].fins = IF flag = "fin" THEN f.fins \cup {side} ELSE f.fins
               /\ flag # "rst" /\ f.fins # Both => t[f].closed = f.closed
  PROVE  AllCarried(pub', Knows(X, flag, side))
<1> SUFFICES ASSUME NEW n \in Knows(X, flag, side)
             PROVE  n \in PubConn /\ n.fins # Both /\ Carried(pub', n)
  BY DEF AllCarried
<1>0. AllCarried(pub, conns)
  BY DEF PubInv
<1>1. n \in PubConn /\ n.fins # Both
  BY <1>0, KnowsIs
<1>2. PICK k \in conns : /\ SameEnds(n, k) /\ (k \in X => flag # "rst") /\ k.fins \subseteq n.fins
                         /\ k \in X /\ flag = "fin" => side \in n.fins
  BY <1>0, KnowsIs
<1>3. k \in PubConn /\ k.fins # Both
  BY <1>0 DEF AllCarried
<1>4. PICK v \in Users : \E f \in pub[v].flows : PubCarries(f, k)
  BY <1>0 DEF AllCarried, Carried
<1>5. PICK f \in pub[v].flows : PubCarries(f, k)
  BY <1>4
<1>6. PubCarries(f, n)
  BY <1>2, <1>5 DEF PubCarries, SameEnds, P!SameFlow
<1>7. CASE v # u
  BY <1>1, <1>5, <1>6, <1>7 DEF Carried
<1>8. CASE v = u /\ t[f] = f
  BY <1>1, <1>5, <1>6, <1>8 DEF Carried
<1>9. CASE v = u /\ t[f] # f
  <2>1. /\ k \in X /\ SameEnds(t[f], f) /\ t[f].established
        /\ t[f].fins = IF flag = "fin" THEN f.fins \cup {side} ELSE f.fins
        /\ flag # "rst" /\ f.fins # Both => t[f].closed = f.closed
    BY <1>5, <1>9
  <2>2. f.fins \in SUBSET Both /\ f.fins \subseteq k.fins /\ k.fins \in SUBSET Both
    BY <1>3, <1>5, PubIs DEF PubFlow, PubConn, PubCarries
  <2>3. f.fins # Both
    BY <1>3, <2>2
  <2>4. t[f].closed = None
    BY <1>2, <1>5, <2>1, <2>3 DEF PubCarries
  <2>5. t[f].fins \subseteq n.fins
    BY <1>2, <2>1, <2>2
  <2>6. PubCarries(t[f], n)
    BY <1>6, <2>1, <2>4, <2>5 DEF PubCarries, SameEnds, P!SameFlow
  <2>7. QED BY <1>1, <1>5, <1>9, <2>6 DEF Carried
<1>10. QED BY <1>7, <1>8, <1>9

-------------------------------------------------------------------------------
LEMMA GoingIs ==
  ASSUME PubInv, NEW u \in Users, NEW c, NEW a, NEW p
  PROVE  /\ P!Going(u, c, a, p) \in SUBSET pub[u].flows
         /\ \A f, g \in P!Going(u, c, a, p) : f = g
         /\ \A f \in pub[u].flows : f \in P!Going(u, c, a, p) <=> P!SameFlow(f, c, a, p)
<1>1. \A f \in pub[u].flows : f \in P!Going(u, c, a, p) <=> P!SameFlow(f, c, a, p)
  BY DEF P!Going
<1>2. P!Going(u, c, a, p) \in SUBSET pub[u].flows
  BY DEF P!Going
<1>3. OneKey(pub[u].flows)
  BY PubIs
<1>4. \A f, g \in P!Going(u, c, a, p) : f = g
  BY <1>1, <1>2, <1>3 DEF OneKey, P!SameFlow
<1>5. QED BY <1>1, <1>2, <1>4

\* A flow goes on.
GoesOn(u, c, a, p, flag) ==
  /\ pub' = [pub EXCEPT ![u].flows = (@ \ P!Going(u, c, a, p))
                                     \cup {P!Track(f, flag, "client") : f \in P!Going(u, c, a, p)}]
  /\ conns' = Knows({k \in conns : P!SameFlow(k, c, a, p)}, flag, "client")

LEMMA GoesOnKeeps ==
  ASSUME PubInv, NEW u \in Users, NEW c, NEW a, NEW p, NEW flag,
         P!Finishes(P!Going(u, c, a, p), flag), GoesOn(u, c, a, p, flag)
  PROVE  PubGood(pub') /\ AllCarried(pub', conns')
<1> DEFINE mine == P!Going(u, c, a, p)
           X == {k \in conns : P!SameFlow(k, c, a, p)}
           side == "client"
           t == [f \in pub[u].flows |-> IF f \in mine THEN P!Track(f, flag, side) ELSE f]
           F == {t[f] : f \in pub[u].flows}
<1>1. mine \in SUBSET pub[u].flows /\ (\A f, g \in mine : f = g) /\ \A f \in pub[u].flows : f \in mine <=> P!SameFlow(f, c, a, p)
  BY GoingIs
<1>2. pub' = [pub EXCEPT ![u].flows = (@ \ mine) \cup {P!Track(f, flag, side) : f \in mine}] /\ conns' = Knows(X, flag, side)
  BY DEF GoesOn
<1>3. flag = "fin" => \A f \in mine : f.established
  BY <1>1 DEF P!Finishes
<1>4. \A k \in conns : k \in X <=> P!SameFlow(k, c, a, p)
  OBVIOUS
<1>5. side \in Both
  BY DEF Both
<1> HIDE DEF mine, X, side
<1>6. F = (pub[u].flows \ mine) \cup {P!Track(f, flag, side) : f \in mine}
  BY <1>1
<1>7. pub' = [pub EXCEPT ![u].flows = F]
  BY <1>2, <1>6 DEF PubInv, PubGood, Publisher
<1>8. \A f \in pub[u].flows : f \in PubFlow /\ (~ f.established => f.fins = {})
  BY PubIs DEF Begun
<1>9. \A f \in mine : /\ t[f] \in PubFlow /\ SameEnds(t[f], f) /\ t[f].established = f.established
                      /\ t[f].fins = IF flag = "fin" THEN f.fins \cup {side} ELSE f.fins
                      /\ flag # "rst" /\ f.fins # Both => t[f].closed = f.closed
  <2> TAKE f \in mine
  <2> DEFINE g == P!Track(f, flag, side)
  <2>1. f \in PubFlow /\ t[f] = g
    BY <1>1, <1>8
  <2> HIDE DEF t
  <2>2. pubNow \in Nat
    BY DEF PubInv
  <2>3. Tracked(g, f, flag, side)
    BY <1>5, <2>1, <2>2, TrackIs
  <2> HIDE DEF g
  <2>4. QED BY <2>1, <2>3 DEF Tracked
<1>10. \A f \in pub[u].flows \ mine : t[f] = f /\ SameEnds(t[f], f)
  BY DEF SameEnds
<1>11. t = [f \in pub[u].flows |-> t[f]]
  OBVIOUS
<1> HIDE DEF t
<1>12. t \in [pub[u].flows -> PubFlow]
  BY <1>1, <1>8, <1>9, <1>10, <1>11
<1>13. \A f \in pub[u].flows : SameEnds(t[f], f) /\ (~ t[f].established => t[f].fins = {})
  BY ZenonT(60), <1>1, <1>3, <1>8, <1>9, <1>10
<1>14. FlowsFit(u, F)
  BY <1>12, <1>13, MappedFit
<1>15. \A f \in pub[u].flows : t[f] \in F
  OBVIOUS
<1> HIDE DEF F
<1>16. PubGood(pub') /\ pub'[u].flows = F /\ \A v \in Users \ {u} : pub'[v] = pub[v]
  BY <1>7, <1>14, ChangedFlows
<1>17. \A f \in pub[u].flows : \A k \in conns : PubCarries(f, k) =>
         \/ t[f] = f
         \/ /\ k \in X /\ SameEnds(t[f], f) /\ t[f].established
            /\ t[f].fins = IF flag = "fin" THEN f.fins \cup {side} ELSE f.fins
            /\ flag # "rst" /\ f.fins # Both => t[f].closed = f.closed
  <2> SUFFICES ASSUME NEW f \in mine, NEW k \in conns, PubCarries(f, k)
               PROVE  k \in X /\ t[f].established
    BY <1>9, <1>10
  <2>1. k \in X
    BY <1>1, <1>4 DEF PubCarries, P!SameFlow
  <2>2. QED BY <1>9, <2>1 DEF PubCarries
<1>18. \A f \in pub[u].flows : t[f] \in pub'[u].flows
  BY <1>15, <1>16
<1>19. AllCarried(pub', Knows(X, flag, side))
  BY <1>5, <1>12, <1>16, <1>17, <1>18, TrackedCarry
<1>20. QED BY <1>2, <1>16, <1>19

\* What carries a connection and is not dropped still does.
LEMMA KeptCarry ==
  ASSUME PubInv, NEW u \in Users, NEW ks \in SUBSET conns,
         \A v \in Users \ {u} : pub'[v] = pub[v],
         \A k \in ks : \A f \in pub[u].flows : PubCarries(f, k) => f \in pub'[u].flows
  PROVE  AllCarried(pub', ks)
<1> SUFFICES ASSUME NEW k \in ks PROVE k \in PubConn /\ k.fins # Both /\ Carried(pub', k)
  BY DEF AllCarried
<1>1. k \in PubConn /\ k.fins # Both
  BY DEF PubInv, AllCarried
<1>2. PICK v \in Users : \E f \in pub[v].flows : PubCarries(f, k)
  BY DEF PubInv, AllCarried, Carried
<1>3. PICK f \in pub[v].flows : PubCarries(f, k)
  BY <1>2
<1>4. CASE v = u
  BY <1>1, <1>3, <1>4 DEF Carried
<1>5. CASE v # u
  BY <1>1, <1>3, <1>5 DEF Carried
<1>6. QED BY <1>4, <1>5

\* The flows of u that stay when c begins anew; none of them carries what is open.
Kept(u, c, a, p) == {f \in pub[u].flows \ P!Going(u, c, a, p) : ~ P!Stale(f)}

LEMMA KeptCarries ==
  ASSUME PubInv, NEW u \in Users, NEW c, NEW a, NEW p, NEW k \in conns, NEW f \in pub[u].flows, PubCarries(f, k),
         ~ P!SameFlow(k, c, a, p)
  PROVE  f \in Kept(u, c, a, p)
<1>1. f \notin P!Going(u, c, a, p)
  BY GoingIs DEF PubCarries, P!SameFlow
<1>2. ~ P!Stale(f)
  BY DEF PubCarries, P!Stale
<1>3. QED BY <1>1, <1>2 DEF Kept

\* A segment that is dropped or refused, or that finds no port.
Dropped(u, F) == pub' = [pub EXCEPT ![u].flows = F] /\ conns' = conns

LEMMA DroppedKeeps ==
  ASSUME PubInv, NEW u \in Users, NEW F \in SUBSET pub[u].flows, Dropped(u, F),
         \A k \in conns : \A f \in pub[u].flows : PubCarries(f, k) => f \in F
  PROVE  PubGood(pub') /\ AllCarried(pub', conns')
<1>1. FlowsFit(u, F)
  BY FewerFit
<1>2. pub' = [pub EXCEPT ![u].flows = F] /\ conns' = conns
  BY DEF Dropped
<1>3. PubGood(pub') /\ pub'[u].flows = F /\ \A v \in Users \ {u} : pub'[v] = pub[v]
  BY <1>1, <1>2, ChangedFlows
<1>4. \A k \in conns : \A f \in pub[u].flows : PubCarries(f, k) => f \in pub'[u].flows
  BY <1>3
<1>5. AllCarried(pub', conns)
  BY <1>3, <1>4, KeptCarry
<1>6. QED BY <1>2, <1>3, <1>5

\* A new flow, at the next port that is free.
FreshFlow(u, c, a, p, r, x) ==
  [client |-> c, addr |-> a, port |-> p, to |-> r.to, proxy |-> x, since |-> pubNow,
   established |-> FALSE, fins |-> {}, closed |-> None]
PlaceOf(u, i) == (pub[u].next + i) % ProxyPorts

GoesNew(u, c, a, p, r) ==
  LET i == L!Min(P!Free(u, Kept(u, c, a, p)))
  IN  /\ pub' = [pub EXCEPT ![u].flows = Kept(u, c, a, p) \cup {FreshFlow(u, c, a, p, r, PlaceOf(u, i))},
                            ![u].next = (@ + i + 1) % ProxyPorts]
      /\ conns' = {k \in conns : ~ P!SameFlow(k, c, a, p)}

LEMMA GoesNewKeeps ==
  ASSUME PubInv, NEW u \in Users, NEW c \in Clients, NEW a \in Addrs, NEW p \in P!Ports, NEW r \in pub[u].rules,
         P!Free(u, Kept(u, c, a, p)) # {}, GoesNew(u, c, a, p, r)
  PROVE  PubGood(pub') /\ AllCarried(pub', conns')
<1> DEFINE K == Kept(u, c, a, p)
           U == P!Free(u, K)
           i == L!Min(U)
           x == PlaceOf(u, i)
           f == FreshFlow(u, c, a, p, r, x)
           F == K \cup {f}
           j == pub[u].next + i + 1
           n == j % ProxyPorts
           ks == {k \in conns : ~ P!SameFlow(k, c, a, p)}
<1>1. pub' = [pub EXCEPT ![u].flows = F, ![u].next = (@ + i + 1) % ProxyPorts] /\ conns' = ks
  BY DEF GoesNew
<1>2. pub' = [pub EXCEPT ![u].flows = F, ![u].next = n]
  BY <1>1 DEF PubInv, PubGood, Publisher
<1>3. i \in U
  <2>1. U \in SUBSET Nat /\ U # {}
    BY PortFacts DEF P!Free
  <2> HIDE DEF U
  <2>2. QED BY <2>1, MinIs
<1>4. i \in Nat /\ pub[u].next \in Nat
  <2>1. pub[u].next \in ProxyPort
    BY PubIs
  <2>2. i \in Nat
    BY <1>3, PortFacts DEF P!Free
  <2>3. QED BY <2>1, <2>2, PortFacts DEF ProxyPort
<1>5. x \in ProxyPort /\ n \in ProxyPort
  <2>1. j \in Nat /\ pub[u].next + i \in Nat
    BY <1>4
  <2> HIDE DEF j, i
  <2>2. QED BY <2>1, TurnPort DEF PlaceOf
<1>6. (\A g \in K : g.proxy # x) /\ \A v \in Users \ {u} : \A g \in pub[v].flows : g.proxy # x
  BY <1>3 DEF P!Free, PlaceOf, P!InUse
<1>7. \A g \in K : ~ P!SameFlow(g, c, a, p) /\ g \in pub[u].flows
  BY GoingIs DEF Kept
<1> HIDE DEF K, U, i, x, n
<1>8. f \in PubFlow /\ f.proxy = x /\ f.fins = {} /\ f.client = c /\ f.addr = a /\ f.port = p
  <2>1. r.to \in P!Targets
    BY PubIs DEF P!Targets
  <2>2. pubNow \in Nat
    BY DEF PubInv
  <2>3. QED BY <1>5, <2>1, <2>2 DEF FreshFlow, PubFlow
<1> HIDE DEF f
<1>9. FlowsFit(u, K)
  BY <1>7, FewerFit
<1>10. FlowsFit(u, F)
  <2>1. F \in SUBSET PubFlow /\ Begun(F)
    BY <1>8, <1>9 DEF FlowsFit, Begun
  <2>2. OneKey(F)
    BY <1>7, <1>8, <1>9 DEF FlowsFit, OneKey, P!SameFlow
  <2>3. \A g, h \in F : g.proxy = h.proxy => g = h
    BY <1>6, <1>8, <1>9 DEF FlowsFit
  <2>4. \A g \in F, v \in Users \ {u} : \A h \in pub[v].flows : g.proxy # h.proxy
    BY <1>6, <1>8, <1>9 DEF FlowsFit
  <2>5. QED BY <2>1, <2>2, <2>3, <2>4 DEF FlowsFit
<1> HIDE DEF F
<1>11. PubGood(pub') /\ pub'[u].flows = F /\ \A v \in Users \ {u} : pub'[v] = pub[v]
  BY <1>2, <1>5, <1>10, ReplacedIs, Zenon
<1>12. \A k \in ks : \A g \in pub[u].flows : PubCarries(g, k) => g \in pub'[u].flows
  BY <1>11, KeptCarries DEF F, K
<1>13. ks \in SUBSET conns
  OBVIOUS
<1> HIDE DEF ks
<1>14. AllCarried(pub', ks)
  BY <1>11, <1>12, <1>13, KeptCarry
<1>15. QED BY <1>1, <1>11, <1>14

LEMMA ClientSendsKeeps ==
  ASSUME PubInv, NEW u \in Users, NEW c \in Clients, NEW a \in Addrs, NEW p \in P!Ports, NEW flag,
         P!ClientSends(u, c, a, p, flag)
  PROVE  PubGood(pub') /\ AllCarried(pub', conns')
<1> DEFINE going == P!Going(u, c, a, p)
           goesOn == \E f \in going : ~ (f.closed # None /\ flag = "syn")
           kept == Kept(u, c, a, p)
           rules == P!RuleFor(u, a, p)
<1>1. \/ goesOn /\ P!Finishes(going, flag) /\ GoesOn(u, c, a, p, flag)
      \/ ~ goesOn /\ (Dropped(u, pub[u].flows) \/ (flag # "syn" /\ Dropped(u, pub[u].flows \ going))
                      \/ (flag = "syn" /\ Dropped(u, kept))
                      \/ (\E r \in rules : P!Free(u, kept) # {} /\ GoesNew(u, c, a, p, r)))
  <2>1. CASE goesOn
    BY <2>1 DEF P!ClientSends, GoesOn, Knows, P!AfterSegment
  <2>2. CASE ~ goesOn /\ (rules = {} \/ flag # "syn")
    <3>1. pub' = [pub EXCEPT ![u].flows = IF rules = {} THEN @ ELSE @ \ going] /\ conns' = conns
      BY <2>2 DEF P!ClientSends
    <3>2. pub' = [pub EXCEPT ![u].flows = IF rules = {} THEN pub[u].flows ELSE pub[u].flows \ going]
      BY <3>1 DEF PubInv, PubGood, Publisher
    <3>3. QED BY <2>2, <3>1, <3>2 DEF Dropped
  <2>3. CASE ~ goesOn /\ ~ (rules = {} \/ flag # "syn")
    <3>1. PICK r \in rules :
            IF P!Free(u, kept) = {} THEN Dropped(u, kept) ELSE GoesNew(u, c, a, p, r)
      BY <2>3 DEF P!ClientSends, Kept, Dropped, GoesNew, FreshFlow, PlaceOf, P!Min, L!Min
    <3>2. QED BY <2>3, <3>1
  <2>4. QED BY <2>1, <2>2, <2>3
<1>2. going \in SUBSET pub[u].flows /\ \A f \in pub[u].flows : f \in going <=> P!SameFlow(f, c, a, p)
  BY GoingIs
<1>3. \A k \in conns : \A f \in pub[u].flows : PubCarries(f, k) /\ f \in going => goesOn
  BY DEF PubCarries
<1>4. \A k \in conns : \A f \in pub[u].flows : PubCarries(f, k) /\ f \notin going => f \in kept
  <2> SUFFICES ASSUME NEW k \in conns, NEW f \in pub[u].flows, PubCarries(f, k), f \notin going
               PROVE  f \in kept
    OBVIOUS
  <2>1. ~ P!SameFlow(k, c, a, p)
    BY <1>2 DEF PubCarries, P!SameFlow
  <2>2. QED BY <2>1, KeptCarries
<1>5. kept \in SUBSET pub[u].flows /\ pub[u].flows \ going \in SUBSET pub[u].flows
  BY DEF Kept
<1>6. rules \in SUBSET pub[u].rules
  BY DEF P!RuleFor
<1> HIDE DEF going, goesOn, kept, rules
<1>7. CASE goesOn
  BY <1>1, <1>7, GoesOnKeeps DEF going
<1>8. CASE Dropped(u, pub[u].flows)
  BY <1>8, DroppedKeeps
<1>9. CASE ~ goesOn /\ Dropped(u, pub[u].flows \ going)
  BY <1>3, <1>5, <1>9, DroppedKeeps
<1>10. CASE ~ goesOn /\ Dropped(u, kept)
  BY <1>3, <1>4, <1>5, <1>10, DroppedKeeps
<1>11. ASSUME NEW r \in rules, P!Free(u, kept) # {}, GoesNew(u, c, a, p, r)
       PROVE  PubGood(pub') /\ AllCarried(pub', conns')
  <2>1. r \in pub[u].rules /\ P!Free(u, Kept(u, c, a, p)) # {}
    BY <1>6, <1>11 DEF kept
  <2>2. QED BY <1>11, <2>1, GoesNewKeeps
<1>12. QED BY <1>1, <1>7, <1>8, <1>9, <1>10, <1>11

LEMMA TargetSendsKeeps ==
  ASSUME PubInv, NEW to \in P!Targets, NEW x, NEW flag, P!TargetSends(to, x, flag)
  PROVE  PubGood(pub') /\ AllCarried(pub', conns')
<1> DEFINE side == "target"
           X == {k \in conns : k.to = to /\ k.proxy = x}
           answered(h) == [h EXCEPT !.established = @ \/ flag = "synack"]
           new(h) == [client |-> h.client, addr |-> h.addr, port |-> h.port, to |-> to, proxy |-> x, fins |-> {}]
           Answers(b) ==
             /\ P!Finishes({b[2]}, flag) /\ (flag = "synack" => ~ b[2].established)
             /\ pub' = [pub EXCEPT ![b[1]].flows = (@ \ {b[2]}) \cup {P!Track(answered(b[2]), flag, side)}]
             /\ conns' = IF flag = "synack" /\ b[2].closed = None THEN conns \cup {new(b[2])}
                         ELSE Knows(X, flag, side)
           passed == UNION {IF k.to = to /\ k.proxy = x THEN P!Ends(k, flag, "target") ELSE {k} : k \in conns}
<1>0. PICK b \in P!Backs(to, x) :
        /\ P!Finishes({b[2]}, flag) /\ (flag = "synack" => ~ b[2].established)
        /\ pub' = [pub EXCEPT ![b[1]].flows = (@ \ {b[2]}) \cup {P!Track(answered(b[2]), flag, "target")}]
        /\ conns' = IF flag = "synack" /\ b[2].closed = None THEN conns \cup {new(b[2])} ELSE passed
  BY Zenon DEF P!TargetSends, P!AfterSegment
<1>1. Answers(b)
  <2>1. passed = Knows(X, flag, side)
    BY DEF Knows
  <2>2. QED BY <1>0, <2>1, Zenon
<1> DEFINE u == b[1]
           f == b[2]
<1>2. u \in Users /\ f \in pub[u].flows /\ f.proxy = x /\ f.to = to
  BY DEF P!Backs
<1>3. f \in PubFlow /\ (~ f.established => f.fins = {})
  BY <1>2, PubIs DEF Begun
<1> DEFINE e == answered(f)
           g == P!Track(e, flag, side)
           t == [h \in pub[u].flows |-> IF h = f THEN g ELSE h]
           F == {t[h] : h \in pub[u].flows}
           k1 == new(f)
<1>4. /\ (flag = "fin" => f.established) /\ (flag = "synack" => ~ f.established)
      /\ pub' = [pub EXCEPT ![u].flows = (@ \ {f}) \cup {g}]
      /\ conns' = IF flag = "synack" /\ f.closed = None THEN conns \cup {k1} ELSE Knows(X, flag, side)
  BY <1>1 DEF P!Finishes
<1>5. k1 \in PubConn /\ k1.fins = {} /\ SameEnds(k1, f)
  BY <1>2, <1>3 DEF PubFlow, PubConn, SameEnds
<1>6. \A k \in conns : k \in X <=> k.to = to /\ k.proxy = x
  OBVIOUS
<1>7. side \in Both /\ pubNow \in Nat /\ "fin" # "synack" /\ "rst" # "synack"
  BY DEF Both, PubInv
<1>8. /\ e \in PubFlow /\ SameEnds(e, f) /\ e.fins = f.fins /\ e.closed = f.closed
      /\ e.established <=> (f.established \/ flag = "synack")
  <2> DEFINE est == f.established \/ flag = "synack"
             h == [f EXCEPT !.established = est]
  <2>1. e = h
    BY <1>3 DEF PubFlow
  <2>2. est \in BOOLEAN
    OBVIOUS
  <2> HIDE DEF est
  <2>3. h \in PubFlow
    BY <1>3, <2>2 DEF PubFlow
  <2>4. SameEnds(h, f) /\ h.fins = f.fins /\ h.closed = f.closed
    BY <1>3 DEF PubFlow, SameEnds
  <2>5. h.established = est
    BY <1>3 DEF PubFlow
  <2> HIDE DEF h, e
  <2>6. QED BY <2>1, <2>3, <2>4, <2>5 DEF est
<1> HIDE DEF Answers, answered, new, side, X, u, f, e, k1
<1>9. /\ g \in PubFlow /\ SameEnds(g, e) /\ g.established = e.established
      /\ g.fins = IF flag = "fin" THEN e.fins \cup {side} ELSE e.fins
      /\ flag # "rst" /\ e.fins # Both => g.closed = e.closed
  <2>1. Tracked(g, e, flag, side)
    BY <1>7, <1>8, TrackIs
  <2> HIDE DEF g
  <2>2. QED BY <2>1 DEF Tracked
<1> HIDE DEF g
<1>10. F = (pub[u].flows \ {f}) \cup {g}
  BY <1>2
<1>11. pub' = [pub EXCEPT ![u].flows = F]
  BY <1>2, <1>4, <1>10 DEF PubInv, PubGood, Publisher
<1>12. t[f] = g /\ \A h \in pub[u].flows \ {f} : t[h] = h
  BY <1>2
<1>13. \A h \in pub[u].flows : t[h] \in F
  OBVIOUS
<1>14. \A h \in pub[u].flows : h \in PubFlow /\ (~ h.established => h.fins = {}) /\ SameEnds(h, h)
  BY <1>2, PubIs DEF Begun, SameEnds
<1>15. t = [h \in pub[u].flows |-> t[h]]
  OBVIOUS
<1> HIDE DEF t
<1>16. SameEnds(g, f) /\ (~ g.established => g.fins = {})
  BY <1>3, <1>4, <1>8, <1>9 DEF SameEnds
<1>17. t \in [pub[u].flows -> PubFlow]
  BY <1>9, <1>12, <1>14, <1>15
<1>18. \A h \in pub[u].flows : SameEnds(t[h], h) /\ (~ t[h].established => t[h].fins = {})
  BY <1>12, <1>14, <1>16
<1>19. FlowsFit(u, F)
  BY <1>2, <1>17, <1>18, MappedFit
<1> HIDE DEF F
<1>20. PubGood(pub') /\ pub'[u].flows = F /\ \A v \in Users \ {u} : pub'[v] = pub[v]
  BY <1>2, <1>11, <1>19, ChangedFlows
<1>21. \A h \in pub[u].flows : t[h] \in pub'[u].flows
  BY <1>13, <1>20
<1>22. \A h \in pub[u].flows : \A k \in conns : PubCarries(h, k) =>
         \/ t[h] = h
         \/ /\ k \in X /\ SameEnds(t[h], h) /\ t[h].established
            /\ t[h].fins = IF flag = "fin" THEN h.fins \cup {side} ELSE h.fins
            /\ flag # "rst" /\ h.fins # Both => t[h].closed = h.closed
  <2> SUFFICES ASSUME NEW k \in conns, PubCarries(f, k)
               PROVE  /\ k \in X /\ SameEnds(g, f) /\ g.established
                      /\ g.fins = IF flag = "fin" THEN f.fins \cup {side} ELSE f.fins
                      /\ flag # "rst" /\ f.fins # Both => g.closed = f.closed
    BY <1>12
  <2>1. k \in X /\ f.established
    BY <1>2, <1>6 DEF PubCarries
  <2>2. QED BY <1>8, <1>9, <1>16, <2>1
<1>23. AllCarried(pub', Knows(X, flag, side))
  BY <1>2, <1>7, <1>17, <1>20, <1>21, <1>22, TrackedCarry
<1>24. CASE flag = "synack" /\ f.closed = None
  <2>1. \A k \in conns : \A h \in pub[u].flows : PubCarries(h, k) => h \in pub'[u].flows
    <3> SUFFICES ASSUME NEW k \in conns, NEW h \in pub[u].flows, PubCarries(h, k) PROVE h \in pub'[u].flows
      OBVIOUS
    <3>1. h # f
      BY <1>4, <1>24 DEF PubCarries
    <3>2. QED BY <1>12, <1>21, <3>1
  <2>2. AllCarried(pub', conns)
    BY <1>2, <1>20, <2>1, KeptCarry
  <2>3. f.fins = {} /\ {} # Both
    BY <1>3, <1>4, <1>24 DEF Both
  <2>4. g.closed = None /\ g.established /\ g.fins = {}
    BY <1>7, <1>8, <1>9, <1>24, <2>3
  <2>5. PubCarries(g, k1)
    BY <1>5, <1>16, <2>4 DEF PubCarries, SameEnds, P!SameFlow
  <2>6. g \in pub'[u].flows
    BY <1>2, <1>12, <1>21
  <2>7. Carried(pub', k1)
    BY <1>2, <2>5, <2>6 DEF Carried
  <2>8. AllCarried(pub', conns \cup {k1})
    BY <1>5, <2>2, <2>3, <2>7 DEF AllCarried
  <2>9. QED BY <1>4, <1>20, <1>24, <2>8
<1>25. CASE ~ (flag = "synack" /\ f.closed = None)
  BY <1>4, <1>20, <1>23, <1>25
<1>26. QED BY <1>24, <1>25

LEMMA SetRulesKeeps ==
  ASSUME PubInv, NEW u \in Users, NEW r \in Rules, P!SetRules(u, r)
  PROVE  PubGood(pub') /\ AllCarried(pub', conns')
<1> DEFINE x == [pub[u] EXCEPT !.rules = r]
<1>1. pub \in [Users -> Publisher]
  BY DEF PubInv, PubGood
<1>2. pub' = [pub EXCEPT ![u] = x] /\ conns' = conns
  BY <1>1 DEF P!SetRules
<1>3. x \in Publisher /\ x.flows = pub[u].flows
  BY <1>1 DEF Publisher
<1> HIDE DEF x
<1>4. pub' \in [Users -> Publisher] /\ \A v \in Users : pub'[v].flows = pub[v].flows
  BY <1>1, <1>2, <1>3
<1>5. PubGood(pub')
  BY <1>4 DEF PubInv, PubGood, OnePort
<1>6. AllCarried(pub', conns)
  BY <1>4 DEF PubInv, AllCarried, Carried
<1>7. QED BY <1>2, <1>5, <1>6

LEMMA PubStep ==
  ASSUME PubInv, P!Next
  PROVE  PubInv'
<1>1. ASSUME NEW u \in Users, NEW c \in Clients, NEW a \in Addrs, NEW p \in P!Ports,
             NEW flag \in {"syn", "ack", "fin", "rst"}, P!ClientSends(u, c, a, p, flag)
      PROVE  PubInv'
  <2>1. pubNow' = pubNow
    BY <1>1 DEF P!ClientSends
  <2>2. QED BY <1>1, <2>1, ClientSendsKeeps DEF PubInv
<1>2. ASSUME NEW to \in P!Targets, NEW x \in 0 .. ProxyPorts - 1, NEW flag \in {"synack", "ack", "fin", "rst"},
             P!TargetSends(to, x, flag)
      PROVE  PubInv'
  <2>1. pubNow' = pubNow
    BY <1>2 DEF P!TargetSends
  <2>2. QED BY <1>2, <2>1, TargetSendsKeeps DEF PubInv
<1>3. ASSUME NEW u \in Users, NEW r \in Rules, P!SetRules(u, r)
      PROVE  PubInv'
  <2>1. pubNow' = pubNow
    BY <1>3 DEF P!SetRules
  <2>2. QED BY <1>3, <2>1, SetRulesKeeps DEF PubInv
<1>4. ASSUME P!Tick PROVE PubInv'
  BY <1>4 DEF P!Tick, PubInv
<1>5. QED BY <1>1, <1>2, <1>3, <1>4 DEF P!Next

LEMMA PubInit == P!Init => PubInv
<1> SUFFICES ASSUME P!Init PROVE PubInv
  OBVIOUS
<1>1. pub \in [Users -> {[rules |-> r, flows |-> {}, next |-> 0] : r \in Rules}] /\ pubNow = 0 /\ conns = {}
  BY DEF P!Init
<1>2. 0 \in ProxyPort
  BY PortFacts DEF ProxyPort
<1>3. pub \in [Users -> Publisher] /\ \A u \in Users : pub[u].flows = {}
  BY <1>1, <1>2 DEF Publisher
<1>4. QED BY <1>1, <1>3 DEF PubInv, PubGood, OnePort, OneKey, Begun, AllCarried

LEMMA PubHolds ==
  ASSUME PubInv
  PROVE  P!OnePortEach /\ P!StillCarried /\ P!TypeOK
<1>1. P!OnePortEach
  <2> SUFFICES ASSUME NEW x \in 0 .. ProxyPorts - 1
               PROVE  P!Cardinality({b \in UNION {{u} \X pub[u].flows : u \in Users} : b[2].proxy = x}) <= 1
    BY DEF P!OnePortEach
  <2> DEFINE B == {b \in UNION {{u} \X pub[u].flows : u \in Users} : b[2].proxy = x}
  <2>1. \A b, d \in B : b = d
    BY DEF PubInv, PubGood, OnePort
  <2> HIDE DEF B
  <2>2. B = {} \/ \E b : B = {b}
    BY <2>1
  <2>3. Cardinality(B) = 0 \/ Cardinality(B) = 1
    BY <2>2, FS_EmptySet, FS_Singleton
  <2>4. P!Cardinality(B) = Cardinality(B)
    BY DEF P!Cardinality, Cardinality
  <2>5. P!Cardinality(B) <= 1
    BY <2>3, <2>4
  <2>6. QED BY <2>5 DEF B
<1>2. P!StillCarried
  BY DEF P!StillCarried, PubInv, AllCarried, Carried, PubCarries
<1>3. P!TypeOK
  <2> SUFFICES ASSUME NEW u \in Users PROVE pub[u].next \in 0 .. ProxyPorts - 1 /\ P!InUse(u) \subseteq 0 .. ProxyPorts - 1
    BY DEF P!TypeOK
  <2>1. pub[u].next \in ProxyPort /\ \A f \in pub[u].flows : f.proxy \in ProxyPort
    BY PubIs DEF PubFlow
  <2>2. QED BY <2>1 DEF P!InUse, ProxyPort
<1>4. QED BY <1>1, <1>2, <1>3

\* No proxy port serves two flows, of published ports or of hairpinning, and a connection that its
\* two ends take for open is carried by a flow between the same ends (`publish.ts`), whatever becomes
\* of the rules and of the other connections.
THEOREM PortsGoOn == Spec => [](At("publish") => P!OnePortEach /\ P!StillCarried /\ P!TypeOK)
<1> DEFINE PHere == At("publish") => PubInv
<1>1. Init => PHere
  BY PubInit DEF Init, At
<1>2. ASSUME PHere, [Next]_vars
      PROVE  PHere'
  <2>1. CASE UNCHANGED vars
    <3>1. UNCHANGED <<part, pub, pubNow, conns>>
      BY <2>1 DEF vars, PVars
    <3>2. QED BY <1>2, <3>1 DEF At, PubInv, PubGood, OnePort, OneKey, Begun, AllCarried, Carried
  <2>2. CASE At("publish") /\ P!Next /\ part' = part
    BY <1>2, <2>2, PubStep DEF At
  <2>3. CASE ~ At("publish") /\ part' = part
    BY <2>3 DEF At
  <2>4. QED BY <1>2, <2>1, <2>2, <2>3 DEF Next, At
<1>3. PHere => (At("publish") => P!OnePortEach /\ P!StillCarried /\ P!TypeOK)
  BY PubHolds
<1> HIDE DEF PHere, Fairness
<1>4. QED BY <1>1, <1>2, <1>3, PTL DEF Spec
===============================================================================
