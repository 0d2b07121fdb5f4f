--------------------------- MODULE TunnelsProofs ---------------------------
(***************************************************************************)
(* What MCTunnels checks of the VPN servers on one instance, proved for    *)
(* any clients, certificates, secrets, pools and bounds: no address is     *)
(* given to two devices, and a device that is up means the same address    *)
(* as its server (OneAddressEach).                                         *)
(*                                                                         *)
(* The three protocols are proved along one argument.  Of what a client    *)
(* asked in its attempt at most one request or answer is under way (a      *)
(* token), so nothing can change the address at the server between the     *)
(* answer that names it and the client's use of it.  Attempts are told     *)
(* apart by their numbers (SPI, sid), which are fresh when one begins.     *)
(***************************************************************************)
EXTENDS MCTunnels, Sequences, FiniteSetTheorems, WellFoundedInduction, TLAPS

-------------------------------------------------------------------------------
(* Numbers that are not in use *)

LEMMA Fresh ==
  ASSUME NEW U, IsFiniteSet(U)
  PROVE  \E n \in 1 .. Cardinality(U) + 1 : n \notin U
<1> DEFINE N == Cardinality(U) + 1
<1>1. Cardinality(U) \in Nat
  BY FS_CardinalityType
<1>2. IsFiniteSet(1 .. N) /\ Cardinality(1 .. N) = IF 1 > N THEN 0 ELSE N - 1 + 1
  BY <1>1, FS_Interval
<1>3. Cardinality(1 .. N) = N /\ N > Cardinality(U)
  BY <1>1, <1>2
<1>4. ~ (1 .. N \subseteq U)
  <2> SUFFICES ASSUME 1 .. N \subseteq U PROVE FALSE
    OBVIOUS
  <2>1. Cardinality(1 .. N) <= Cardinality(U)
    BY FS_Subset
  <2>2. QED BY <1>1, <1>3, <2>1
<1>5. QED BY <1>4

Chosen(U, n) == n \in Nat \ {0} /\ n \notin U

LEMMA ChosenIs ==
  ASSUME NEW U, IsFiniteSet(U)
  PROVE  Chosen(U, CHOOSE n \in 1 .. Cardinality(U) + 1 : n \notin U)
<1>1. \E n \in 1 .. Cardinality(U) + 1 : n \notin U
  BY Fresh
<1> DEFINE n == CHOOSE n \in 1 .. Cardinality(U) + 1 : n \notin U
<1>2. n \in 1 .. Cardinality(U) + 1 /\ n \notin U
  BY <1>1, Zenon
<1> HIDE DEF n
<1>3. n \in Nat \ {0}
  BY <1>2, FS_CardinalityType
<1>4. QED BY <1>2, <1>3 DEF Chosen

\* The numbers in a line of messages are finitely many.
LEMMA NumbersFinite ==
  ASSUME NEW T, NEW q \in Seq(T), NEW f, DOMAIN f = DOMAIN q, NEW S, S = {f[i] : i \in DOMAIN q}
  PROVE  IsFiniteSet(S)
<1>1. Len(q) \in Nat /\ DOMAIN q = 1 .. Len(q)
  OBVIOUS
<1>2. IsFiniteSet(DOMAIN q)
  <2>1. 1 \in Int /\ Len(q) \in Int
    BY <1>1
  <2>2. QED BY <1>1, <2>1, FS_Interval
<1> DEFINE g == [i \in DOMAIN q |-> f[i]]
<1>3. g \in Surjection(DOMAIN q, S)
  BY DEF Surjection
<1>4. QED BY <1>2, <1>3, FS_Surjection

LEMMA PairFinite ==
  ASSUME NEW a, NEW b, NEW S \in SUBSET {a, b}
  PROVE  IsFiniteSet(S)
<1>1. IsFiniteSet({a}) /\ IsFiniteSet({b})
  BY FS_Singleton
<1>2. IsFiniteSet({a} \cup {b})
  BY <1>1, FS_Union
<1>3. S \subseteq {a} \cup {b}
  OBVIOUS
<1>4. QED BY <1>2, <1>3, FS_Subset

-------------------------------------------------------------------------------
(* Lines of messages *)

LEMMA SeqIn ==
  ASSUME NEW T, NEW q \in Seq(T), NEW S, \A i \in DOMAIN q : q[i] \in S
  PROVE  q \in Seq(S)
BY \A i \in 1 .. Len(q) : q[i] \in S

LEMMA SeqOf ==
  ASSUME NEW T, NEW q \in Seq(T)
  PROVE  /\ Len(q) \in Nat /\ DOMAIN q = 1 .. Len(q) /\ \A i \in DOMAIN q : q[i] \in T
         /\ q # <<>> => /\ Head(q) = q[1] /\ 1 \in DOMAIN q /\ Head(q) \in T /\ Tail(q) \in Seq(T)
                        /\ \A i \in DOMAIN Tail(q) : i + 1 \in DOMAIN q /\ Tail(q)[i] = q[i + 1]
OBVIOUS

LEMMA SeqMore ==
  ASSUME NEW T, NEW q \in Seq(T), NEW r \in Seq(T)
  PROVE  /\ q \o r \in Seq(T)
         /\ \A i \in DOMAIN (q \o r) :
              \/ i \in DOMAIN q /\ (q \o r)[i] = q[i]
              \/ i \in Nat /\ i > Len(q) /\ i - Len(q) \in DOMAIN r /\ (q \o r)[i] = r[i - Len(q)]
OBVIOUS

Mine(q, Qs) == {i \in DOMAIN q : q[i] \in Qs}
Few(S)     == \A i, j \in S : i = j

NoToken(q, r, Qs, Rs) == Mine(q, Qs) = {} /\ Mine(r, Rs) = {}
Token(q, r, Qs, Rs)   == Few(Mine(q, Qs)) /\ Few(Mine(r, Rs)) /\ (Mine(q, Qs) = {} \/ Mine(r, Rs) = {})

LEMMA MineTail ==
  ASSUME NEW T, NEW q \in Seq(T), q # <<>>, NEW Qs
  PROVE  /\ Mine(q, Qs) = {} => Mine(Tail(q), Qs) = {}
         /\ Few(Mine(q, Qs)) => Few(Mine(Tail(q), Qs))
         /\ Few(Mine(q, Qs)) /\ Head(q) \in Qs => Mine(Tail(q), Qs) = {}
<1>1. \A i \in Mine(Tail(q), Qs) : i \in Nat /\ i > 0 /\ i + 1 \in Mine(q, Qs)
  BY SeqOf DEF Mine
<1>2. Head(q) \in Qs => 1 \in Mine(q, Qs)
  BY SeqOf DEF Mine
<1>3. Mine(q, Qs) = {} => Mine(Tail(q), Qs) = {}
  BY <1>1
<1>4. ASSUME Few(Mine(q, Qs)), NEW i \in Mine(Tail(q), Qs), NEW j \in Mine(Tail(q), Qs) PROVE i = j
  <2>1. i \in Nat /\ j \in Nat /\ i + 1 = j + 1
    BY <1>1, <1>4 DEF Few
  <2>2. QED BY <2>1
<1>5. ASSUME Few(Mine(q, Qs)), Head(q) \in Qs, NEW i \in Mine(Tail(q), Qs) PROVE FALSE
  <2>1. i \in Nat /\ i > 0 /\ i + 1 = 1
    BY <1>1, <1>2, <1>5 DEF Few
  <2>2. QED BY <2>1
<1>6. QED BY <1>3, <1>4, <1>5 DEF Few

LEMMA MineMore ==
  ASSUME NEW T, NEW q \in Seq(T), NEW r \in Seq(T), NEW Qs
  PROVE  /\ Mine(q, Qs) = {} /\ Mine(r, Qs) = {} => Mine(q \o r, Qs) = {}
         /\ Few(Mine(q, Qs)) /\ Mine(r, Qs) = {} => Few(Mine(q \o r, Qs))
         /\ Mine(q, Qs) = {} /\ Few(Mine(r, Qs)) => Few(Mine(q \o r, Qs))
<1> DEFINE n == Len(q)
<1>1. n \in Nat
  OBVIOUS
<1>2. \A i \in Mine(q \o r, Qs) : i \in Mine(q, Qs) \/ (i \in Nat /\ i - n \in Mine(r, Qs))
  BY SeqMore DEF Mine
<1> HIDE DEF n
<1>3. \A i, j : i \in Nat /\ j \in Nat /\ i - n = j - n => i = j
  BY <1>1
<1>4. QED BY <1>2, <1>3 DEF Few

\* The turns of a conversation.  One end takes the first message of its line, and says something
\* to the point only if that message was to the point.
LEMMA TokenTurn ==
  ASSUME NEW T, NEW q \in Seq(T), NEW r \in Seq(T), NEW out \in Seq(T), NEW Qs, NEW Rs, q # <<>>,
         Token(q, r, Qs, Rs), Few(Mine(out, Rs)), Mine(out, Rs) # {} => Head(q) \in Qs
  PROVE  Token(Tail(q), r \o out, Qs, Rs)
<1>1. CASE Head(q) \in Qs
  <2>1. Mine(Tail(q), Qs) = {} /\ Mine(r, Rs) = {}
    <3>1. Mine(q, Qs) # {}
      BY <1>1, SeqOf DEF Mine
    <3>2. QED BY <1>1, <3>1, MineTail DEF Token
  <2>2. Few(Mine(r \o out, Rs))
    BY <2>1, MineMore
  <2>3. QED BY <2>1, <2>2 DEF Token, Few
<1>2. CASE Head(q) \notin Qs
  <2>1. Mine(out, Rs) = {}
    BY <1>2
  <2>2. Few(Mine(r \o out, Rs)) /\ (Mine(r, Rs) = {} => Mine(r \o out, Rs) = {})
    BY <2>1, MineMore DEF Token
  <2>3. Few(Mine(Tail(q), Qs)) /\ (Mine(q, Qs) = {} => Mine(Tail(q), Qs) = {})
    BY MineTail DEF Token
  <2>4. QED BY <2>2, <2>3 DEF Token
<1>3. QED BY <1>1, <1>2

LEMMA TokenEnds ==
  ASSUME NEW T, NEW q \in Seq(T), NEW r \in Seq(T), NEW Qs, NEW Rs, q # <<>>,
         Token(q, r, Qs, Rs), Head(q) \in Qs
  PROVE  NoToken(Tail(q), r, Qs, Rs)
<1>1. Mine(q, Qs) # {}
  BY SeqOf DEF Mine
<1>2. QED BY <1>1, MineTail DEF Token, NoToken

LEMMA NoTokenTurn ==
  ASSUME NEW T, NEW q \in Seq(T), NEW r \in Seq(T), NEW out \in Seq(T), NEW Qs, NEW Rs, q # <<>>,
         NoToken(q, r, Qs, Rs), Mine(out, Rs) # {} => Head(q) \in Qs
  PROVE  NoToken(Tail(q), r \o out, Qs, Rs) /\ Head(q) \notin Qs
<1>1. Head(q) \notin Qs
  BY SeqOf DEF Mine, NoToken
<1>2. Mine(Tail(q), Qs) = {} /\ Mine(r \o out, Rs) = {}
  BY <1>1, MineTail, MineMore DEF NoToken
<1>3. QED BY <1>1, <1>2 DEF NoToken

LEMMA TokenAsked ==
  ASSUME NEW T, NEW q \in Seq(T), NEW r \in Seq(T), NEW out \in Seq(T), NEW Qs, NEW Rs,
         NoToken(q, r, Qs, Rs), Few(Mine(out, Qs))
  PROVE  /\ Token(q \o out, r, Qs, Rs)
         /\ Mine(out, Qs) = {} => NoToken(q \o out, r, Qs, Rs)
<1>1. Few(Mine(q \o out, Qs)) /\ (Mine(out, Qs) = {} => Mine(q \o out, Qs) = {})
  BY MineMore DEF NoToken
<1>2. Mine(r, Rs) = {} /\ Few(Mine(r, Rs))
  BY DEF NoToken, Few
<1>3. QED BY <1>1, <1>2 DEF Token, NoToken

\* The roles may be exchanged, and whoever says nothing to the point adds nothing.
LEMMA TokenBack ==
  ASSUME NEW q, NEW r, NEW Qs, NEW Rs
  PROVE  /\ Token(q, r, Qs, Rs) <=> Token(r, q, Rs, Qs)
         /\ NoToken(q, r, Qs, Rs) <=> NoToken(r, q, Rs, Qs)
         /\ NoToken(q, r, Qs, Rs) => Token(q, r, Qs, Rs)
BY DEF Token, NoToken, Few

\* What is lost at the head of a line.
LEMMA TokenLost ==
  ASSUME NEW T, NEW q \in Seq(T), NEW r, NEW Qs, NEW Rs, q # <<>>
  PROVE  /\ Token(q, r, Qs, Rs) => Token(Tail(q), r, Qs, Rs)
         /\ NoToken(q, r, Qs, Rs) => NoToken(Tail(q), r, Qs, Rs)
BY MineTail DEF Token, NoToken

\* A line of one message or none has few.
LEMMA FewOne ==
  ASSUME NEW m, NEW Qs
  PROVE  Few(Mine(<<m>>, Qs)) /\ Few(Mine(<<>>, Qs)) /\ Mine(<<>>, Qs) = {} /\ (m \notin Qs => Mine(<<m>>, Qs) = {})
BY DEF Few, Mine

-------------------------------------------------------------------------------
(* Pools *)

NatOrder == {ss \in Nat \X Nat : ss[1] < ss[2]}

\* A pool that is not empty has a first address.
LEMMA FirstAddress ==
  ASSUME NEW S \in SUBSET Nat, S # {}
  PROVE  (CHOOSE a \in S : \A b \in S : a <= b) \in S
<1>1. IsWellFoundedOn(NatOrder, Nat)
  BY NatLessThanWellFounded DEF NatOrder, OpToRel
<1>2. PICK m \in S : \A y \in S : ~ (<<y, m>> \in NatOrder)
  BY <1>1, WFMin
<1>3. \A k \in S : ~ (k < m)
  BY <1>2 DEF NatOrder
<1>4. \A k \in S : m <= k
  BY <1>3
<1>5. QED BY <1>4

-------------------------------------------------------------------------------
(* L2TP: the server *)

LOps    == L!Asking \cup {"refused", "invalid", "stop", "delete", "ip"}
LMsg    == [op : LOps, spi : Nat, v : Nat]
LSpis   == {S \in SUBSET Nat : IsFiniteSet(S)}
LSa     == [spi : Nat, tunnel : BOOLEAN, user : BOOLEAN, vip : Nat, failed : {"none", "account", "full"}]
LServer == [mm : [Laptops -> LSpis], authed : [Laptops -> LSpis], sas : [Laptops -> LSa], leases : [Laptops -> Nat]]
LLaptop == [phase : L!Asking \cup {"up", "off", "failed"}, spi : Nat, tries : Nat, vip : Nat,
            why : {"none", "refused", "stopped", "timeout"}]

LType ==
  /\ l2tp \in [Laptops -> LLaptop]
  /\ l2tpServer \in LServer
  /\ toServer \in [Laptops -> Seq(LMsg)]
  /\ toLaptop \in [Laptops -> Seq(LMsg)]

\* L!OneHolder, of any server
LHolders(s) ==
  /\ \A c, d \in Laptops : c # d /\ s.sas[c].vip # 0 => s.sas[d].vip # s.sas[c].vip
  /\ \A c \in Laptops : s.sas[c].vip # 0 => s.leases[c] = s.sas[c].vip

\* What a message m does to an SA, which was a and becomes b, and what is answered
LSays(m, b, out) ==
  \/ out = <<>>
  \/ \E n \in LMsg : /\ out = <<n>> /\ n.spi = m.spi
                     /\ n.op \in L!Asking => m.op \in L!Asking
                     /\ n.op = "ipcp" => b.spi = m.spi /\ b.vip = n.v
LDoes(m, a, b) == \/ b.spi = a.spi /\ b.vip = a.vip
                  \/ b.spi = m.spi /\ m.op \in L!Asking
                  \/ b.spi = 0

LDone(s, c, m, x, out) ==
  /\ x \in LServer /\ out \in Seq(LMsg)
  /\ LDoes(m, s.sas[c], x.sas[c]) /\ LSays(m, x.sas[c], out)
  /\ \A d \in Laptops \ {c} : x.sas[d] = s.sas[d]
  /\ LHolders(s) => LHolders(x)

\* An answer is one message
LEMMA LAnswer ==
  ASSUME NEW op \in LOps, NEW spi \in Nat, NEW v \in Nat
  PROVE  /\ L!Msg(op, spi, v) \in Seq(LMsg)
         /\ \E n \in LMsg : L!Msg(op, spi, v) = <<n>> /\ n.op = op /\ n.spi = spi /\ n.v = v
<1> DEFINE n == [op |-> op, spi |-> spi, v |-> v]
<1>1. n \in LMsg /\ n.op = op /\ n.spi = spi /\ n.v = v
  BY DEF LMsg
<1>2. L!Msg(op, spi, v) = <<n>>
  BY DEF L!Msg
<1> HIDE DEF n
<1>3. QED BY <1>1, <1>2

LEMMA LSaIs ==
  ASSUME NEW s \in LServer, NEW c \in Laptops, NEW b \in LSa
  PROVE  /\ L!Sa(s, c, b) \in LServer
         /\ L!Sa(s, c, b).sas[c] = b
         /\ \A d \in Laptops \ {c} : L!Sa(s, c, b).sas[d] = s.sas[d]
         /\ L!Sa(s, c, b).leases = s.leases /\ L!Sa(s, c, b).mm = s.mm /\ L!Sa(s, c, b).authed = s.authed
BY DEF L!Sa, LServer

\* The SA of one laptop changes, and its address only goes.
LEMMA LDoneSa ==
  ASSUME NEW s \in LServer, NEW c \in Laptops, NEW m \in LMsg, NEW b \in LSa, NEW out \in Seq(LMsg), NEW x \in LServer,
         x.sas[c] = b, \A d \in Laptops \ {c} : x.sas[d] = s.sas[d], x.leases = s.leases,
         b.vip = s.sas[c].vip \/ b.vip = 0, LDoes(m, s.sas[c], b), LSays(m, b, out)
  PROVE  LDone(s, c, m, x, out)
<1>1. \A d \in Laptops : x.sas[d].vip = s.sas[d].vip \/ x.sas[d].vip = 0
  BY DEF LServer
<1>2. ASSUME LHolders(s) PROVE LHolders(x)
  BY <1>1, <1>2 DEF LHolders
<1>3. QED BY <1>2 DEF LDone

\* Nothing the invariant speaks of changes.
LEMMA LDoneStill ==
  ASSUME NEW s \in LServer, NEW c \in Laptops, NEW m \in LMsg, NEW out \in Seq(LMsg), NEW x \in LServer,
         x.sas = s.sas, x.leases = s.leases, LSays(m, s.sas[c], out)
  PROVE  LDone(s, c, m, x, out)
<1>1. s.sas[c] \in LSa
  BY DEF LServer
<1>2. LDoes(m, s.sas[c], s.sas[c])
  BY DEF LDoes
<1>3. QED BY <1>1, <1>2, LDoneSa

LEMMA LNoSa ==
  L!NoSa \in LSa /\ L!NoSa.spi = 0 /\ L!NoSa.vip = 0
BY DEF L!NoSa, LSa

\* What is answered without an address.
LEMMA LSaysPlain ==
  ASSUME NEW m \in LMsg, NEW b, NEW op \in LOps, op # "ipcp", op \in L!Asking => m.op \in L!Asking
  PROVE  L!Msg(op, m.spi, 0) \in Seq(LMsg) /\ LSays(m, b, L!Msg(op, m.spi, 0))
<1>1. m.spi \in Nat /\ 0 \in Nat
  BY DEF LMsg
<1>2. QED BY <1>1, LAnswer DEF LSays

LEMMA LSaysNothing ==
  ASSUME NEW m, NEW b
  PROVE  <<>> \in Seq(LMsg) /\ LSays(m, b, <<>>)
BY DEF LSays

LEMMA LSpisMore ==
  ASSUME NEW S \in LSpis, NEW n \in Nat
  PROVE  S \cup {n} \in LSpis /\ S \ {n} \in LSpis
<1>1. S \in SUBSET Nat /\ IsFiniteSet(S)
  BY DEF LSpis
<1>2. IsFiniteSet(S \cup {n})
  BY <1>1, FS_AddElement
<1>3. IsFiniteSet(S \ {n})
  BY <1>1, FS_RemoveElement
<1>4. QED BY <1>1, <1>2, <1>3 DEF LSpis

\* The negotiation.
LEMMA LIkeDone ==
  ASSUME LType, NEW c \in Laptops, NEW m \in LMsg, m.op \in {"mm1", "mm2", "qm", "delete"}
  PROVE  LDone(l2tpServer, c, m, L!ServerIke(l2tpServer, c, m).x, L!ServerIke(l2tpServer, c, m).out)
<1> DEFINE s == l2tpServer
           step == L!ServerIke(s, c, m)
<1> SUFFICES LDone(s, c, m, step.x, step.out)
  OBVIOUS
<1>1. s \in LServer /\ m.spi \in Nat /\ s.mm[c] \in LSpis /\ s.authed[c] \in LSpis /\ s.sas[c] \in LSa /\ L!Own(c) = s.sas[c]
  BY DEF LType, LServer, LMsg, L!Own
<1>2. s.mm[c] \cup {m.spi} \in LSpis /\ s.mm[c] \ {m.spi} \in LSpis /\ s.authed[c] \cup {m.spi} \in LSpis
      /\ s.authed[c] \ {m.spi} \in LSpis
  BY <1>1, LSpisMore
<1>3. CASE m.op = "mm1"
  <2> DEFINE t == [s EXCEPT !.mm[c] = @ \cup {m.spi}]
  <2>1. step.x = t /\ step.out = L!Msg("mm1", m.spi, 0)
    BY <1>3 DEF L!ServerIke, L!Serve
  <2>2. t \in LServer /\ t.sas = s.sas /\ t.leases = s.leases
    BY <1>1, <1>2 DEF LServer
  <2>3. L!Msg("mm1", m.spi, 0) \in Seq(LMsg) /\ LSays(m, s.sas[c], L!Msg("mm1", m.spi, 0))
    BY <1>3, LSaysPlain DEF L!Asking, LOps
  <2> HIDE DEF t, step, s
  <2>4. QED BY <1>1, <2>1, <2>2, <2>3, LDoneStill
<1>4. CASE m.op = "mm2" /\ m.spi \notin s.mm[c] \cup s.authed[c]
  <2>1. step.x = s /\ step.out = <<>>
    BY <1>4 DEF L!ServerIke, L!Serve
  <2> HIDE DEF step, s
  <2>2. QED BY <1>1, <2>1, LSaysNothing, LDoneStill
<1>5. CASE m.op = "mm2" /\ m.spi \in s.mm[c] \cup s.authed[c] /\ wrong[c] = "psk"
  <2>1. step.x = s /\ step.out = L!Msg("refused", m.spi, 0)
    BY <1>5 DEF L!ServerIke, L!Serve
  <2>2. L!Msg("refused", m.spi, 0) \in Seq(LMsg) /\ LSays(m, s.sas[c], L!Msg("refused", m.spi, 0))
    BY LSaysPlain DEF L!Asking, LOps
  <2> HIDE DEF step, s
  <2>3. QED BY <1>1, <2>1, <2>2, LDoneStill
<1>6. CASE m.op = "mm2" /\ m.spi \in s.mm[c] \cup s.authed[c] /\ wrong[c] # "psk"
  <2> DEFINE t == [s EXCEPT !.mm[c] = @ \ {m.spi}, !.authed[c] = @ \cup {m.spi}]
  <2>1. step.x = t /\ step.out = L!Msg("mm2", m.spi, 0)
    BY <1>6 DEF L!ServerIke, L!Serve
  <2>2. t \in LServer /\ t.sas = s.sas /\ t.leases = s.leases
    BY <1>1, <1>2 DEF LServer
  <2>3. L!Msg("mm2", m.spi, 0) \in Seq(LMsg) /\ LSays(m, s.sas[c], L!Msg("mm2", m.spi, 0))
    BY <1>6, LSaysPlain DEF L!Asking, LOps
  <2> HIDE DEF t, step, s
  <2>4. QED BY <1>1, <2>1, <2>2, <2>3, LDoneStill
<1>7. CASE m.op = "qm" /\ m.spi # L!Own(c).spi /\ m.spi \notin s.authed[c]
  <2>1. step.x = s /\ step.out = <<>>
    BY <1>7 DEF L!ServerIke, L!Serve
  <2> HIDE DEF step, s
  <2>2. QED BY <1>1, <2>1, LSaysNothing, LDoneStill
<1>8. CASE m.op = "qm" /\ ~ (m.spi # L!Own(c).spi /\ m.spi \notin s.authed[c])
  <2> DEFINE b == IF m.spi = L!Own(c).spi THEN s.sas[c] ELSE [L!NoSa EXCEPT !.spi = m.spi]
             t == IF m.spi = L!Own(c).spi THEN s ELSE L!Sa(s, c, [L!NoSa EXCEPT !.spi = m.spi])
             u == [t EXCEPT !.authed[c] = @ \ {m.spi}]
  <2>1. step.x = u /\ step.out = L!Msg("qm", m.spi, 0)
    BY <1>8 DEF L!ServerIke, L!Serve
  <2>2. [L!NoSa EXCEPT !.spi = m.spi] \in LSa /\ b \in LSa
    BY <1>1 DEF L!NoSa, LSa
  <2>3. t \in LServer /\ t.sas[c] = b /\ (\A d \in Laptops \ {c} : t.sas[d] = s.sas[d]) /\ t.leases = s.leases
        /\ t.authed = s.authed
    <3>1. CASE m.spi = L!Own(c).spi
      BY <1>1, <3>1
    <3>2. CASE m.spi # L!Own(c).spi
      <4> DEFINE e == [L!NoSa EXCEPT !.spi = m.spi]
      <4>1. t = L!Sa(s, c, e) /\ b = e /\ e \in LSa
        BY <2>2, <3>2
      <4> HIDE DEF t, b, e, s
      <4>2. QED BY <1>1, <4>1, LSaIs
    <3>3. QED BY <3>1, <3>2
  <2>4. b.spi = m.spi /\ (b.vip = s.sas[c].vip \/ b.vip = 0)
    BY <1>1 DEF L!NoSa
  <2> HIDE DEF t
  <2>5. u \in LServer /\ u.sas = t.sas /\ u.leases = t.leases
    BY <1>1, <1>2, <2>3 DEF LServer
  <2>6. L!Msg("qm", m.spi, 0) \in Seq(LMsg) /\ LSays(m, b, L!Msg("qm", m.spi, 0))
    BY <1>8, LSaysPlain DEF L!Asking, LOps
  <2>7. LDoes(m, s.sas[c], b)
    BY <1>8, <2>4 DEF LDoes, L!Asking
  <2> HIDE DEF u, b, step, s
  <2>8. QED BY <1>1, <2>1, <2>2, <2>3, <2>4, <2>5, <2>6, <2>7, LDoneSa
<1>9. CASE m.op = "delete"
  <2> DEFINE b == IF m.spi = L!Own(c).spi THEN L!NoSa ELSE s.sas[c]
  <2>1. step.x = (IF m.spi = L!Own(c).spi THEN L!Sa(s, c, L!NoSa) ELSE s) /\ step.out = <<>>
    BY <1>9 DEF L!ServerIke, L!Serve
  <2>2. CASE m.spi = L!Own(c).spi
    <3>1. step.x = L!Sa(s, c, L!NoSa)
      BY <2>1, <2>2
    <3>2. LDoes(m, s.sas[c], L!NoSa)
      BY LNoSa DEF LDoes
    <3> HIDE DEF step, s, b
    <3>3. /\ step.x \in LServer /\ step.x.sas[c] = L!NoSa /\ step.x.leases = s.leases
          /\ \A d \in Laptops \ {c} : step.x.sas[d] = s.sas[d]
      BY <1>1, <3>1, LNoSa, LSaIs
    <3>4. <<>> \in Seq(LMsg) /\ LSays(m, L!NoSa, <<>>)
      BY LSaysNothing
    <3>5. QED BY <1>1, <2>1, <3>2, <3>3, <3>4, LNoSa, LDoneSa
  <2>3. CASE m.spi # L!Own(c).spi
    <3>1. step.x = s
      BY <2>1, <2>3
    <3> HIDE DEF step, s
    <3>2. QED BY <1>1, <2>1, <3>1, LSaysNothing, LDoneStill
  <2>4. QED BY <2>2, <2>3
<1>10. QED BY <1>3, <1>4, <1>5, <1>6, <1>7, <1>8, <1>9

\* An address that may be given is an address, and nobody connected has it.
LEMMA LCandidate ==
  ASSUME LType, NEW c \in Laptops, NEW v \in L!Candidates(c)
  PROVE  v \in Nat /\ v # 0 /\ v \notin L!InUse(c)
<1>1. L!Leased(c) \subseteq Nat \ {0}
  BY DEF LType, LServer, L!Leased
<1>2. L2tpPool \subseteq Nat \ {0}
  BY PoolsAssumption
<1> DEFINE S == L2tpPool \ (L!InUse(c) \cup L!Leased(c))
<1>3. CASE l2tpServer.leases[c] \in L2tpPool \ L!InUse(c)
  <2>1. v = l2tpServer.leases[c]
    BY <1>3 DEF L!Candidates
  <2>2. QED BY <1>2, <1>3, <2>1
<1>4. CASE l2tpServer.leases[c] \notin L2tpPool \ L!InUse(c) /\ S # {}
  <2>1. v = (CHOOSE a \in S : \A b \in S : a <= b)
    BY <1>4 DEF L!Candidates, L!Min
  <2>2. S \in SUBSET Nat
    BY <1>2
  <2>3. S \subseteq L2tpPool /\ S \cap L!InUse(c) = {}
    OBVIOUS
  <2> HIDE DEF S
  <2>4. v \in S
    BY <1>4, <2>1, <2>2, FirstAddress
  <2>5. QED BY <1>2, <2>3, <2>4
<1>5. CASE l2tpServer.leases[c] \notin L2tpPool \ L!InUse(c) /\ S = {}
  <2>1. v \in L!Leased(c) \ L!InUse(c)
    BY <1>5 DEF L!Candidates
  <2>2. QED BY <1>1, <2>1
<1>6. QED BY <1>3, <1>4, <1>5

\* The address is given: nobody else has it, and the lease goes with it.
LEMMA LGrantDone ==
  ASSUME LType, NEW c \in Laptops, NEW m \in LMsg, m.spi = L!Own(c).spi, m.op = "ipcp",
         NEW v \in L!Candidates(c)
  PROVE  LDone(l2tpServer, c, m, L!Lease(L!Sa(l2tpServer, c, [L!Own(c) EXCEPT !.vip = v]), c, v), L!Msg("ipcp", m.spi, v))
<1> DEFINE s == l2tpServer
           b == [L!Own(c) EXCEPT !.vip = v]
           t == L!Sa(s, c, b)
           x == L!Lease(t, c, v)
           out == L!Msg("ipcp", m.spi, v)
<1> SUFFICES LDone(s, c, m, x, out)
  OBVIOUS
<1>1. v \in Nat /\ v # 0 /\ v \notin L!InUse(c)
  BY LCandidate
<1>2. s \in LServer /\ L!Own(c) \in LSa /\ L!Own(c) = s.sas[c]
  BY DEF LType, LServer, L!Own
<1>3. b \in LSa /\ b.spi = m.spi /\ b.vip = v
  BY <1>1, <1>2 DEF LSa
<1>4. \A d \in Laptops \ {c} : s.sas[d].vip # v
  BY <1>1 DEF L!InUse, L!Own
<1> HIDE DEF b, s
<1>5. t \in LServer /\ t.sas[c] = b /\ (\A d \in Laptops \ {c} : t.sas[d] = s.sas[d]) /\ t.leases = s.leases
  BY <1>2, <1>3, LSaIs
<1> HIDE DEF t
<1> DEFINE leases == [d \in Laptops |-> IF d = c THEN v ELSE IF t.leases[d] = v THEN 0 ELSE t.leases[d]]
<1>6. leases \in [Laptops -> Nat]
  BY <1>1, <1>5 DEF LServer
<1>7. x = [t EXCEPT !.leases = leases]
  BY DEF L!Lease
<1>8. x \in LServer /\ x.sas = t.sas /\ x.leases = leases
  BY <1>5, <1>6, <1>7 DEF LServer
<1>9. leases[c] = v /\ \A d \in Laptops \ {c} : leases[d] = IF s.leases[d] = v THEN 0 ELSE s.leases[d]
  BY <1>5
<1> HIDE DEF leases, x
<1>10. ASSUME LHolders(s) PROVE LHolders(x)
  <2>1. ASSUME NEW d \in Laptops, NEW e \in Laptops, d # e, x.sas[d].vip # 0 PROVE x.sas[e].vip # x.sas[d].vip
    BY <1>3, <1>4, <1>5, <1>8, <1>10, <2>1 DEF LHolders
  <2>2. ASSUME NEW d \in Laptops, x.sas[d].vip # 0 PROVE x.leases[d] = x.sas[d].vip
    BY <1>3, <1>4, <1>5, <1>8, <1>9, <1>10, <2>2 DEF LHolders
  <2>3. QED BY <2>1, <2>2 DEF LHolders
<1>11. out \in Seq(LMsg) /\ LSays(m, b, out)
  <2>1. "ipcp" \in LOps /\ "ipcp" \in L!Asking
    BY DEF LOps, L!Asking
  <2>2. m.spi \in Nat
    BY DEF LMsg
  <2>3. out \in Seq(LMsg) /\ \E n \in LMsg : out = <<n>> /\ n.op = "ipcp" /\ n.spi = m.spi /\ n.v = v
    BY <1>1, <2>1, <2>2, LAnswer
  <2>4. QED BY <1>3, <2>1, <2>3 DEF LSays
<1>12. LDoes(m, s.sas[c], b)
  BY <1>3 DEF LDoes, L!Asking
<1>13. QED BY <1>5, <1>8, <1>10, <1>11, <1>12 DEF LDone

\* The SA of one laptop becomes b, which keeps SPI and address, or is none; and what is answered is no address.
LEMMA LChangeDone ==
  ASSUME LType, NEW c \in Laptops, NEW m \in LMsg, NEW b \in LSa, NEW out,
         (b.spi = L!Own(c).spi /\ b.vip = L!Own(c).vip) \/ b = L!NoSa,
         out = <<>> \/ \E op \in LOps \ {"ipcp"} : out = L!Msg(op, m.spi, 0) /\ (op \in L!Asking => m.op \in L!Asking)
  PROVE  LDone(l2tpServer, c, m, L!Sa(l2tpServer, c, b), out)
<1> DEFINE s == l2tpServer
           x == L!Sa(s, c, b)
<1> SUFFICES LDone(s, c, m, x, out)
  OBVIOUS
<1>1. s \in LServer /\ L!Own(c) = s.sas[c]
  BY DEF LType, L!Own
<1>2. x \in LServer /\ x.sas[c] = b /\ (\A d \in Laptops \ {c} : x.sas[d] = s.sas[d]) /\ x.leases = s.leases
  BY <1>1, LSaIs
<1>3. out \in Seq(LMsg) /\ LSays(m, b, out)
  <2>1. CASE out = <<>>
    BY <2>1, LSaysNothing
  <2>2. ASSUME NEW op \in LOps \ {"ipcp"}, out = L!Msg(op, m.spi, 0), op \in L!Asking => m.op \in L!Asking
        PROVE  out \in Seq(LMsg) /\ LSays(m, b, out)
    BY <2>2, LSaysPlain
  <2>3. QED BY <2>1, <2>2
<1>4. LDoes(m, s.sas[c], b) /\ (b.vip = s.sas[c].vip \/ b.vip = 0)
  BY <1>1, LNoSa DEF LDoes
<1> HIDE DEF x, s
<1>5. QED BY <1>1, <1>2, <1>3, <1>4, LDoneSa

LEMMA LKeepDone ==
  ASSUME LType, NEW c \in Laptops, NEW m \in LMsg, NEW out,
         out = <<>> \/ \E op \in LOps \ {"ipcp"} : out = L!Msg(op, m.spi, 0) /\ (op \in L!Asking => m.op \in L!Asking)
  PROVE  LDone(l2tpServer, c, m, l2tpServer, out)
<1>1. l2tpServer \in LServer
  BY DEF LType
<1>2. out \in Seq(LMsg) /\ LSays(m, l2tpServer.sas[c], out)
  <2>1. CASE out = <<>>
    BY <2>1, LSaysNothing
  <2>2. ASSUME NEW op \in LOps \ {"ipcp"}, out = L!Msg(op, m.spi, 0), op \in L!Asking => m.op \in L!Asking
        PROVE  out \in Seq(LMsg) /\ LSays(m, l2tpServer.sas[c], out)
    BY <2>2, LSaysPlain
  <2>3. QED BY <2>1, <2>2
<1>3. QED BY <1>1, <1>2, LDoneStill

\* What comes in the tunnel.
LEMMA LEspDone ==
  ASSUME LType, NEW c \in Laptops, NEW m \in LMsg, NEW step \in L!ServerEsp(l2tpServer, c, m)
  PROVE  LDone(l2tpServer, c, m, step.x, step.out)
<1> DEFINE s == l2tpServer
           a == L!Own(c)
           plain == step.out = <<>>
                    \/ \E op \in LOps \ {"ipcp"} : step.out = L!Msg(op, m.spi, 0) /\ (op \in L!Asking => m.op \in L!Asking)
<1>1. s \in LServer /\ a \in LSa /\ a = s.sas[c]
  BY DEF LType, LServer, L!Own
<1>2. CASE m.spi # a.spi
  <2>1. step.x = s /\ step.out = L!Msg("invalid", m.spi, 0)
    BY <1>2 DEF L!ServerEsp, L!Serve
  <2>2. plain
    BY <2>1 DEF LOps, L!Asking
  <2>3. QED BY <2>1, <2>2, LKeepDone
<1>3. CASE m.spi = a.spi /\ a.failed # "none"
  <2>1. step.x = s /\ (step.out = <<>> \/ step.out = L!Msg("refused", m.spi, 0))
    BY <1>3 DEF L!ServerEsp, L!Serve
  <2>2. plain
    BY <2>1 DEF LOps, L!Asking
  <2>3. QED BY <2>1, <2>2, LKeepDone
<1>4. CASE m.spi = a.spi /\ a.failed = "none" /\ m.op = "sccrq"
  <2>1. step.x = L!Sa(s, c, [a EXCEPT !.tunnel = TRUE]) /\ step.out = L!Msg("sccrq", m.spi, 0)
    BY <1>4 DEF L!ServerEsp, L!Serve
  <2>2. plain
    BY <1>4, <2>1 DEF LOps, L!Asking
  <2>3. [a EXCEPT !.tunnel = TRUE] \in LSa /\ [a EXCEPT !.tunnel = TRUE].spi = a.spi /\ [a EXCEPT !.tunnel = TRUE].vip = a.vip
    BY <1>1 DEF LSa
  <2>4. QED BY <2>1, <2>2, <2>3, LChangeDone
<1>5. CASE m.spi = a.spi /\ a.failed = "none" /\ m.op \in {"icrq", "lcp"}
  <2>1. step.x = s /\ step.out = L!Msg(m.op, m.spi, 0)
    BY <1>5 DEF L!ServerEsp, L!Serve
  <2>2. plain
    BY <1>5, <2>1 DEF LOps, L!Asking
  <2>3. QED BY <2>1, <2>2, LKeepDone
<1>6. CASE m.spi = a.spi /\ a.failed = "none" /\ m.op = "stop"
  <2>1. step.x = L!Sa(s, c, L!NoSa) /\ step.out = <<>>
    BY <1>6 DEF L!ServerEsp, L!Serve
  <2>2. QED BY <2>1, LNoSa, LChangeDone
<1>7. CASE m.spi = a.spi /\ a.failed = "none" /\ m.op = "chap" /\ wrong[c] = "account"
  <2>1. step.x = L!Sa(s, c, [a EXCEPT !.failed = "account"]) /\ step.out = L!Msg("refused", m.spi, 0)
    BY <1>7 DEF L!ServerEsp, L!Serve
  <2>2. plain
    BY <1>7, <2>1 DEF LOps, L!Asking
  <2>3. LET b == [a EXCEPT !.failed = "account"] IN b \in LSa /\ b.spi = a.spi /\ b.vip = a.vip
    BY <1>1 DEF LSa
  <2>4. QED BY <2>1, <2>2, <2>3, LChangeDone
<1>8. CASE m.spi = a.spi /\ a.failed = "none" /\ m.op = "chap" /\ wrong[c] # "account"
  <2>1. step.x = L!Sa(s, c, [a EXCEPT !.user = TRUE]) /\ step.out = L!Msg("chap", m.spi, 0)
    BY <1>8 DEF L!ServerEsp, L!Serve
  <2>2. plain
    BY <1>8, <2>1 DEF LOps, L!Asking
  <2>3. LET b == [a EXCEPT !.user = TRUE] IN b \in LSa /\ b.spi = a.spi /\ b.vip = a.vip
    BY <1>1 DEF LSa
  <2>4. QED BY <2>1, <2>2, <2>3, LChangeDone
<1>9. CASE m.spi = a.spi /\ a.failed = "none" /\ m.op \notin {"sccrq", "icrq", "lcp", "stop", "chap"} /\ (m.op # "ipcp" \/ ~a.user)
  <2>1. step.x = s /\ step.out = <<>>
    BY <1>9 DEF L!ServerEsp, L!Serve
  <2>2. QED BY <2>1, LKeepDone
<1>10. CASE m.spi = a.spi /\ a.failed = "none" /\ m.op = "ipcp" /\ a.user /\ a.vip # 0
  <2>1. step.x = s /\ step.out = L!Msg("ipcp", m.spi, a.vip)
    BY <1>10 DEF L!ServerEsp, L!Serve
  <2>2. "ipcp" \in LOps /\ "ipcp" \in L!Asking /\ m.spi \in Nat /\ a.vip \in Nat
    BY <1>1 DEF LOps, L!Asking, LMsg, LSa
  <2>3. step.out \in Seq(LMsg) /\ \E n \in LMsg : step.out = <<n>> /\ n.op = "ipcp" /\ n.spi = m.spi /\ n.v = a.vip
    BY <2>1, <2>2, LAnswer
  <2>4. LSays(m, s.sas[c], step.out)
    BY <1>1, <1>10, <2>2, <2>3 DEF LSays
  <2>5. QED BY <1>1, <2>1, <2>3, <2>4, LDoneStill
<1>11. CASE m.spi = a.spi /\ a.failed = "none" /\ m.op = "ipcp" /\ a.user /\ a.vip = 0 /\ L!Candidates(c) = {}
  <2>1. step.x = L!Sa(s, c, [a EXCEPT !.failed = "full"]) /\ step.out = L!Msg("refused", m.spi, 0)
    BY <1>11 DEF L!ServerEsp, L!Serve
  <2>2. plain
    BY <1>11, <2>1 DEF LOps, L!Asking
  <2>3. LET b == [a EXCEPT !.failed = "full"] IN b \in LSa /\ b.spi = a.spi /\ b.vip = a.vip
    BY <1>1 DEF LSa
  <2>4. QED BY <2>1, <2>2, <2>3, LChangeDone
<1>12. CASE m.spi = a.spi /\ a.failed = "none" /\ m.op = "ipcp" /\ a.user /\ a.vip = 0 /\ L!Candidates(c) # {}
  <2>1. PICK v \in L!Candidates(c) :
          step.x = L!Lease(L!Sa(s, c, [a EXCEPT !.vip = v]), c, v) /\ step.out = L!Msg("ipcp", m.spi, v)
    <3>1. step \in {L!Serve(L!Lease(L!Sa(s, c, [a EXCEPT !.vip = v]), c, v), L!Msg("ipcp", m.spi, v)) : v \in L!Candidates(c)}
      BY <1>12 DEF L!ServerEsp
    <3>2. PICK v \in L!Candidates(c) :
            step = L!Serve(L!Lease(L!Sa(s, c, [a EXCEPT !.vip = v]), c, v), L!Msg("ipcp", m.spi, v))
      BY <3>1, Zenon
    <3>3. \A x, y : L!Serve(x, y).x = x /\ L!Serve(x, y).out = y
      BY DEF L!Serve
    <3>4. QED BY <3>2, <3>3
  <2>2. QED BY <1>12, <2>1, LGrantDone
<1>13. QED BY <1>2, <1>3, <1>4, <1>5, <1>6, <1>7, <1>8, <1>9, <1>10, <1>11, <1>12

-------------------------------------------------------------------------------
(* L2TP: a laptop and its SA *)

\* What is asked and answered in the attempt with number spi
LOf(spi) == {m \in LMsg : m.op \in L!Asking /\ m.spi = spi}

\* While a laptop, its lines to (q) and from (r) the server and its SA there are in an attempt or a tunnel, one request or
\* answer is under way at most, and the address named to it last is the one of the SA.
LLine(x, q, r, a) ==
  x.phase \in L!Asking \cup {"up"} =>
    /\ x.spi # 0
    /\ Token(q, r, LOf(x.spi), LOf(x.spi))
    /\ x.phase = "up" => NoToken(q, r, LOf(x.spi), LOf(x.spi)) /\ (a.spi = x.spi => a.vip = x.vip)
    /\ \A i \in Mine(r, LOf(x.spi)) : r[i].op = "ipcp" /\ a.spi = x.spi => a.vip = r[i].v

LEMMA LLineServed ==
  ASSUME NEW x \in LLaptop, NEW q \in Seq(LMsg), NEW r \in Seq(LMsg), NEW a \in LSa, NEW b \in LSa, NEW out \in Seq(LMsg),
         q # <<>>, LLine(x, q, r, a), LDoes(Head(q), a, b), LSays(Head(q), b, out)
  PROVE  LLine(x, Tail(q), r \o out, b)
<1> DEFINE Qs == LOf(x.spi)
           m == Head(q)
<1> SUFFICES ASSUME x.phase \in L!Asking \cup {"up"} PROVE LLine(x, Tail(q), r \o out, b)
  BY DEF LLine
<1>1. x.spi # 0 /\ Token(q, r, Qs, Qs)
  BY DEF LLine
<1>2. m \in LMsg /\ (m \in Qs <=> m.spi = x.spi /\ m.op \in L!Asking)
  BY SeqOf DEF LOf
<1>3. Few(Mine(out, Qs)) /\ (Mine(out, Qs) # {} => m \in Qs)
  <2>1. CASE out = <<>>
    BY <2>1, FewOne
  <2>2. ASSUME NEW n \in LMsg, out = <<n>>, n.spi = m.spi, n.op \in L!Asking => m.op \in L!Asking
        PROVE  Few(Mine(out, Qs)) /\ (Mine(out, Qs) # {} => m \in Qs)
    <3>1. n \in Qs => m \in Qs
      BY <1>2, <2>2 DEF LOf
    <3>2. QED BY <2>2, <3>1, FewOne
  <2>3. QED BY <2>1, <2>2 DEF LSays
<1>4. Token(Tail(q), r \o out, Qs, Qs)
  BY <1>1, <1>3, TokenTurn
<1>5. m \notin Qs /\ b.spi = x.spi => a.spi = x.spi /\ a.vip = b.vip
  BY <1>1, <1>2 DEF LDoes
<1>6. ASSUME x.phase = "up" PROVE NoToken(Tail(q), r \o out, Qs, Qs) /\ (b.spi = x.spi => b.vip = x.vip)
  <2>1. NoToken(q, r, Qs, Qs) /\ (a.spi = x.spi => a.vip = x.vip)
    BY <1>6 DEF LLine
  <2>2. NoToken(Tail(q), r \o out, Qs, Qs) /\ m \notin Qs
    BY <1>3, <2>1, NoTokenTurn
  <2>3. QED BY <1>5, <2>1, <2>2
<1>7. ASSUME NEW i \in Mine(r \o out, Qs), (r \o out)[i].op = "ipcp", b.spi = x.spi PROVE b.vip = (r \o out)[i].v
  <2>1. CASE i \in DOMAIN r /\ (r \o out)[i] = r[i]
    <3>1. i \in Mine(r, Qs)
      BY <1>7, <2>1 DEF Mine
    <3>2. m \notin Qs
      <4>1. Mine(q, Qs) = {}
        BY <1>1, <3>1 DEF Token
      <4>2. QED BY <4>1, SeqOf DEF Mine
    <3>3. a.spi = x.spi /\ a.vip = b.vip
      BY <1>5, <1>7, <3>2
    <3>4. QED BY <1>7, <2>1, <3>1, <3>3 DEF LLine
  <2>2. CASE i \in Nat /\ i > Len(r) /\ i - Len(r) \in DOMAIN out /\ (r \o out)[i] = out[i - Len(r)]
    <3>1. PICK n \in LMsg : out = <<n>> /\ (n.op = "ipcp" => b.spi = m.spi /\ b.vip = n.v)
      BY <2>2 DEF LSays
    <3>2. (r \o out)[i] = n
      BY <2>2, <3>1
    <3>3. QED BY <1>7, <3>1, <3>2
  <2>3. i \in DOMAIN (r \o out)
    BY <1>7 DEF Mine
  <2>4. QED BY <2>1, <2>2, <2>3, SeqMore
<1> HIDE DEF Qs
<1>8. QED BY <1>1, <1>4, <1>6, <1>7 DEF LLine, Qs

\* A message is lost on the way, or taken without effect.
LEMMA LLineLost ==
  ASSUME NEW x \in LLaptop, NEW q \in Seq(LMsg), NEW r \in Seq(LMsg), NEW a \in LSa, LLine(x, q, r, a)
  PROVE  /\ q # <<>> => LLine(x, Tail(q), r, a)
         /\ r # <<>> => LLine(x, q, Tail(r), a)
<1> DEFINE Qs == LOf(x.spi)
<1> SUFFICES ASSUME x.phase \in L!Asking \cup {"up"}
             PROVE  (q # <<>> => LLine(x, Tail(q), r, a)) /\ (r # <<>> => LLine(x, q, Tail(r), a))
  BY DEF LLine
<1>1. ASSUME q # <<>> PROVE LLine(x, Tail(q), r, a)
  BY <1>1, TokenLost DEF LLine
<1>2. ASSUME r # <<>> PROVE LLine(x, q, Tail(r), a)
  <2>1. Token(q, Tail(r), Qs, Qs) /\ (NoToken(q, r, Qs, Qs) => NoToken(q, Tail(r), Qs, Qs))
    BY <1>2, TokenLost, TokenBack DEF LLine
  <2>2. \A i \in Mine(Tail(r), Qs) : i + 1 \in Mine(r, Qs) /\ Tail(r)[i] = r[i + 1]
    BY <1>2, SeqOf DEF Mine
  <2>3. QED BY <2>1, <2>2 DEF LLine
<1>3. QED BY <1>1, <1>2

\* The server forgets the SA, and says so at most.
LEMMA LLineTold ==
  ASSUME NEW x \in LLaptop, NEW q \in Seq(LMsg), NEW r \in Seq(LMsg), NEW a \in LSa, NEW b \in LSa, NEW out \in Seq(LMsg),
         LLine(x, q, r, a), b.spi = 0, \A i \in DOMAIN out : out[i].op \notin L!Asking
  PROVE  LLine(x, q, r \o out, b)
<1> DEFINE Qs == LOf(x.spi)
<1> SUFFICES ASSUME x.phase \in L!Asking \cup {"up"} PROVE LLine(x, q, r \o out, b)
  BY DEF LLine
<1>1. Mine(out, Qs) = {}
  BY DEF Mine, LOf
<1>2. Few(Mine(r, Qs)) => Few(Mine(r \o out, Qs))
  BY <1>1, MineMore
<1>3. Mine(r, Qs) = {} => Mine(r \o out, Qs) = {}
  BY <1>1, MineMore
<1>4. QED BY <1>2, <1>3 DEF LLine, Token, NoToken

\* An attempt begins, with a number that is not in use.
LEMMA LLineBegins ==
  ASSUME NEW c \in Laptops, NEW q \in Seq(LMsg), NEW r \in Seq(LMsg), NEW a \in LSa, NEW bye \in Seq(LMsg), LType,
         \A i \in DOMAIN q : q[i].spi # L!NewSpi(c), \A i \in DOMAIN r : r[i].spi # L!NewSpi(c),
         \A i \in DOMAIN bye : bye[i].op \notin L!Asking, L!NewSpi(c) \in Nat \ {0}
  PROVE  /\ L!Begin(c).x \in LLaptop /\ L!Begin(c).out \in Seq(LMsg)
         /\ LLine(L!Begin(c).x, q \o (bye \o L!Begin(c).out), r, a)
<1> DEFINE spi == L!NewSpi(c)
           Qs == LOf(spi)
           x == L!Begin(c).x
           out == L!Begin(c).out
<1>1. x = [L!Down EXCEPT !.spi = spi, !.phase = "mm1", !.tries = 0] /\ out = L!Msg("mm1", spi, 0)
  BY DEF L!Begin, L!Ask, L!Down
<1>2. spi \in Nat \ {0}
  OBVIOUS
<1> HIDE DEF spi, x
<1>3. x \in LLaptop /\ x.phase = "mm1" /\ x.spi = spi
  BY <1>1, <1>2 DEF L!Down, LLaptop, L!Asking
<1>4. "mm1" \in LOps /\ "mm1" \in L!Asking
  BY DEF LOps, L!Asking
<1>5. out \in Seq(LMsg) /\ \E n \in LMsg : out = <<n>>
  BY <1>1, <1>2, <1>4, LAnswer
<1> HIDE DEF out
<1>6. NoToken(q, r, Qs, Qs)
  BY DEF NoToken, Mine, LOf, spi
<1>7. Mine(bye, Qs) = {} /\ Few(Mine(out, Qs))
  BY ZenonT(60), <1>5, FewOne DEF Mine, LOf
<1>8. bye \o out \in Seq(LMsg) /\ Few(Mine(bye \o out, Qs))
  BY <1>5, <1>7, SeqMore, MineMore
<1>9. Token(q \o (bye \o out), r, Qs, Qs)
  BY <1>6, <1>8, TokenAsked
<1>10. \A i \in Mine(r, Qs) : FALSE
  BY <1>6 DEF NoToken
<1>11. LLine(x, q \o (bye \o out), r, a)
  BY <1>2, <1>3, <1>4, <1>9, <1>10 DEF LLine
<1>12. QED BY <1>3, <1>5, <1>11 DEF x, out

\* A new number is one, and no message under way has it.
LEMMA LNewSpi ==
  ASSUME LType, NEW c \in Laptops
  PROVE  /\ L!NewSpi(c) \in Nat \ {0}
         /\ \A i \in DOMAIN toServer[c] : toServer[c][i].spi # L!NewSpi(c)
         /\ \A i \in DOMAIN toLaptop[c] : toLaptop[c][i].spi # L!NewSpi(c)
<1> DEFINE U == L!UsedSpis(c)
           q == toServer[c]
           r == toLaptop[c]
           A1 == {l2tp[c].spi, l2tpServer.sas[c].spi}
<1>1. q \in Seq(LMsg) /\ r \in Seq(LMsg)
  BY DEF LType
<1>2. IsFiniteSet(l2tpServer.mm[c]) /\ IsFiniteSet(l2tpServer.authed[c])
  BY DEF LType, LServer, LSpis
<1>3. IsFiniteSet(A1)
  <2> HIDE DEF q, r
  <2>1. QED BY PairFinite
<1>4. IsFiniteSet(L!Spis(q))
  <2> DEFINE f == [i \in DOMAIN q |-> q[i].spi]
             S == L!Spis(q)
  <2> SUFFICES IsFiniteSet(S)
    OBVIOUS
  <2>1. DOMAIN f = DOMAIN q /\ S = {f[i] : i \in DOMAIN q}
    BY DEF L!Spis
  <2> HIDE DEF f, q, S
  <2>2. QED BY <1>1, <2>1, NumbersFinite
<1>5. IsFiniteSet(L!Spis(r))
  <2> DEFINE f == [i \in DOMAIN r |-> r[i].spi]
             S == L!Spis(r)
  <2> SUFFICES IsFiniteSet(S)
    OBVIOUS
  <2>1. DOMAIN f = DOMAIN r /\ S = {f[i] : i \in DOMAIN r}
    BY DEF L!Spis
  <2> HIDE DEF f, r, S
  <2>2. QED BY <1>1, <2>1, NumbersFinite
<1>6. U = A1 \cup l2tpServer.mm[c] \cup l2tpServer.authed[c] \cup L!Spis(q) \cup L!Spis(r)
  BY DEF L!UsedSpis
<1> HIDE DEF A1, U
<1>7. IsFiniteSet(U)
  <2>1. IsFiniteSet(A1 \cup l2tpServer.mm[c])
    BY <1>2, <1>3, FS_Union
  <2>2. IsFiniteSet(A1 \cup l2tpServer.mm[c] \cup l2tpServer.authed[c])
    BY <1>2, <2>1, FS_Union
  <2>3. IsFiniteSet(A1 \cup l2tpServer.mm[c] \cup l2tpServer.authed[c] \cup L!Spis(q))
    BY <1>4, <2>2, FS_Union
  <2>4. QED BY <1>5, <1>6, <2>3, FS_Union
<1>8. L!NewSpi(c) = (CHOOSE n \in 1 .. Cardinality(U) + 1 : n \notin U)
  <2>1. L!Cardinality(U) = Cardinality(U)
    BY DEF L!Cardinality, Cardinality
  <2>2. QED BY <2>1 DEF L!NewSpi, U
<1>9. L!NewSpi(c) \in Nat \ {0} /\ L!NewSpi(c) \notin U
  BY <1>7, <1>8, ChosenIs DEF Chosen
<1>10. \A i \in DOMAIN q : q[i].spi \in U
  BY <1>6 DEF L!Spis
<1>11. \A i \in DOMAIN r : r[i].spi \in U
  BY <1>6 DEF L!Spis
<1>12. QED BY <1>9, <1>10, <1>11

\* A laptop gives up, is up, or asks the next thing.
LUp(x, v) == [x EXCEPT !.phase = "up", !.vip = v, !.tries = 0]

LEMMA LFails ==
  ASSUME NEW x \in LLaptop, NEW why \in {"none", "refused", "stopped", "timeout"}
  PROVE  L!Fail(x, why).x \in LLaptop /\ L!Fail(x, why).x.phase = "failed" /\ L!Fail(x, why).out = <<>>
<1> DEFINE y == [x EXCEPT !.phase = "failed", !.why = why, !.vip = 0, !.tries = 0]
<1>1. y \in LLaptop /\ y.phase = "failed"
  BY DEF LLaptop
<1>2. L!Fail(x, why) = [x |-> y, out |-> <<>>]
  BY DEF L!Fail, L!Still
<1> HIDE DEF y
<1>3. QED BY <1>1, <1>2

LEMMA LComesUp ==
  ASSUME NEW x \in LLaptop, NEW v \in Nat
  PROVE  LUp(x, v) \in LLaptop /\ LUp(x, v).phase = "up" /\ LUp(x, v).vip = v /\ LUp(x, v).spi = x.spi
BY DEF LLaptop, LUp

LEMMA LAsks ==
  ASSUME NEW x \in LLaptop, NEW phase \in L!Asking
  PROVE  /\ L!Ask(x, phase).x \in LLaptop /\ L!Ask(x, phase).x.phase = phase /\ L!Ask(x, phase).x.spi = x.spi
         /\ L!Ask(x, phase).out = L!Msg(phase, x.spi, 0)
<1> DEFINE y == [x EXCEPT !.phase = phase, !.tries = 0]
<1>1. y \in LLaptop /\ y.phase = phase /\ y.spi = x.spi
  BY DEF LLaptop
<1>2. L!Ask(x, phase) = [x |-> y, out |-> L!Msg(phase, x.spi, 0)]
  BY DEF L!Ask
<1> HIDE DEF y
<1>3. QED BY <1>1, <1>2

\* An answer to the laptop, of its attempt.
LEMMA LLineHeard ==
  ASSUME LType, NEW c \in Laptops, NEW a \in LSa, LLine(l2tp[c], toServer[c], toLaptop[c], a),
         toLaptop[c] # <<>>, Head(toLaptop[c]).spi = l2tp[c].spi, l2tp[c].phase \notin {"off", "failed"}
  PROVE  LET step == L!Heard(c, l2tp[c], Head(toLaptop[c]))
         IN  step.x \in LLaptop /\ step.out \in Seq(LMsg) /\ LLine(step.x, toServer[c] \o step.out, Tail(toLaptop[c]), a)
<1> DEFINE x == l2tp[c]
           q == toServer[c]
           r == toLaptop[c]
           m == Head(r)
           step == L!Heard(c, x, m)
           Qs == LOf(x.spi)
<1>1. x \in LLaptop /\ q \in Seq(LMsg) /\ r \in Seq(LMsg)
  BY DEF LType
<1>2. r # <<>> /\ m \in LMsg /\ Tail(r) \in Seq(LMsg) /\ r[1] = m /\ 1 \in DOMAIN r
  BY <1>1, SeqOf
<1>3. x.phase \in L!Asking \cup {"up"} /\ x.spi # 0 /\ Token(q, r, Qs, Qs) /\ LLine(x, q, r, a)
  BY <1>1 DEF LLaptop, LLine
<1>4. q \o <<>> = q
  BY <1>1
<1> SUFFICES step.x \in LLaptop /\ step.out \in Seq(LMsg) /\ LLine(step.x, q \o step.out, Tail(r), a)
  OBVIOUS
<1>5. CASE m.op = "invalid" /\ x.phase = "up"
  <2>1. step = L!Begin(c)
    BY <1>5 DEF L!Heard
  <2>2. \A i \in DOMAIN Tail(r) : Tail(r)[i].spi # L!NewSpi(c)
    BY <1>1, LNewSpi, SeqOf
  <2>3. /\ L!Begin(c).x \in LLaptop /\ L!Begin(c).out \in Seq(LMsg)
        /\ LLine(L!Begin(c).x, q \o (<<>> \o L!Begin(c).out), Tail(r), a)
    <3>1. <<>> \in Seq(LMsg) /\ \A i \in DOMAIN <<>> : <<>>[i].op \notin L!Asking
      OBVIOUS
    <3> HIDE DEF x, q, r
    <3>2. QED BY <1>1, <1>2, <2>2, <3>1, LNewSpi, LLineBegins DEF q
  <2>4. <<>> \o L!Begin(c).out = L!Begin(c).out
    BY <2>3
  <2>5. QED BY <2>1, <2>3, <2>4
<1>6. ASSUME NEW why \in {"none", "refused", "stopped", "timeout"}, step = L!Fail(x, why)
      PROVE  step.x \in LLaptop /\ step.out \in Seq(LMsg) /\ LLine(step.x, q \o step.out, Tail(r), a)
  <2> HIDE DEF step, x, q, r
  <2>1. step.x \in LLaptop /\ step.x.phase = "failed" /\ step.out = <<>>
    BY <1>1, <1>6, LFails
  <2>2. QED BY <2>1 DEF LLine, L!Asking
<1>7. CASE ~ (m.op = "invalid" /\ x.phase = "up") /\ m.op = "stop"
  <2>1. step = L!Fail(x, "stopped")
    BY <1>7 DEF L!Heard
  <2>2. QED BY <1>6, <2>1
<1>8. CASE ~ (m.op = "invalid" /\ x.phase = "up") /\ m.op = "refused" /\ x.phase \in {"mm2", "chap", "ipcp"}
  <2>1. step = L!Fail(x, "refused")
    BY <1>8 DEF L!Heard
  <2>2. QED BY <1>6, <2>1
<1>9. CASE /\ ~ (m.op = "invalid" /\ x.phase = "up") /\ m.op # "stop"
           /\ ~ (m.op = "refused" /\ x.phase \in {"mm2", "chap", "ipcp"}) /\ m.op # x.phase
  <2>1. step.x = x /\ step.out = <<>>
    BY <1>9 DEF L!Heard, L!Still
  <2>2. LLine(x, q, r, a) /\ a \in LSa
    OBVIOUS
  <2> HIDE DEF x, q, r, step
  <2>3. LLine(x, q, Tail(r), a)
    BY <1>1, <1>2, <2>2, LLineLost
  <2>4. QED BY <1>1, <1>4, <2>1, <2>3
<1>10. CASE m.op = x.phase
  <2>1. m \in Qs
    BY <1>2, <1>3, <1>10 DEF LOf, LMsg, LOps, L!Asking
  <2>2. NoToken(q, Tail(r), Qs, Qs)
    BY <1>1, <1>3, <2>1, TokenEnds, TokenBack
  <2>3. CASE m.op = "ipcp"
    <3>1. step.x = LUp(x, m.v) /\ step.out = <<>>
      BY <1>10, <2>3 DEF L!Heard, L!Still, LUp
    <3>2. m.v \in Nat
      BY <1>2 DEF LMsg
    <3> HIDE DEF step, x, q, r
    <3>3. step.x \in LLaptop /\ step.x.phase = "up" /\ step.x.vip = m.v /\ step.x.spi = x.spi
      <4> DEFINE y == LUp(x, m.v)
      <4>1. y \in LLaptop /\ y.phase = "up" /\ y.vip = m.v /\ y.spi = x.spi
        BY <1>1, <3>2, LComesUp
      <4> HIDE DEF y
      <4>2. step.x = y
        BY <3>1 DEF y
      <4>3. QED BY <4>1, <4>2
    <3>4. a.spi = x.spi => a.vip = m.v
      <4>1. 1 \in Mine(r, Qs) /\ r[1].op = "ipcp"
        BY <1>2, <2>1, <2>3 DEF Mine
      <4>2. QED BY <1>2, <1>3, <4>1 DEF LLine
    <3>5. Token(q, Tail(r), Qs, Qs) /\ Mine(Tail(r), Qs) = {}
      BY <2>2, TokenBack DEF NoToken
    <3>6. LLine(step.x, q, Tail(r), a)
      BY <1>3, <2>2, <3>3, <3>4, <3>5 DEF LLine
    <3>7. QED BY <1>4, <3>1, <3>3, <3>6
  <2>4. CASE m.op # "ipcp"
    <3> DEFINE phase == L!After[x.phase]
    <3>1. x.phase \in L!Asking \ {"ipcp"}
      BY <1>2, <1>3, <1>10, <2>4 DEF LMsg, LOps, L!Asking
    <3>2. phase \in L!Asking
      BY <3>1 DEF L!After, L!Asking
    <3>3. step = L!Ask(x, phase)
      BY <1>10, <2>1, <2>4, <3>1 DEF L!Heard, L!Asking
    <3> HIDE DEF phase, step, x, q, r
    <3>4. step.out = L!Msg(phase, x.spi, 0)
      BY <1>1, <3>2, <3>3, LAsks
    <3>5. step.x \in LLaptop /\ step.x.spi = x.spi /\ step.x.phase = phase
      BY <1>1, <3>2, <3>3, LAsks
    <3>6. x.spi \in Nat /\ phase \in LOps
      BY <1>1, <3>2 DEF LLaptop, LOps
    <3>7. step.out \in Seq(LMsg) /\ \E n \in LMsg : step.out = <<n>>
      BY <3>4, <3>6, LAnswer
    <3>8. Few(Mine(step.out, Qs))
      BY <3>7, FewOne
    <3>9. Token(q \o step.out, Tail(r), Qs, Qs)
      BY <1>1, <1>2, <2>2, <3>7, <3>8, TokenAsked
    <3>10. Mine(Tail(r), Qs) = {} /\ phase # "up"
      BY <2>2, <3>2 DEF NoToken, L!Asking
    <3>11. LLine(step.x, q \o step.out, Tail(r), a)
      BY <1>3, <3>5, <3>9, <3>10 DEF LLine
    <3>12. QED BY <3>5, <3>7, <3>11
  <2>5. QED BY <2>3, <2>4
<1>11. QED BY <1>5, <1>7, <1>8, <1>9, <1>10

-------------------------------------------------------------------------------
(* L2TP: every step *)

LInv ==
  /\ LType
  /\ LHolders(l2tpServer)
  /\ \A c \in Laptops : LLine(l2tp[c], toServer[c], toLaptop[c], l2tpServer.sas[c])

\* What a step changes is of one laptop.
LEMMA LOneLaptop ==
  ASSUME LInv, NEW c \in Laptops, NEW x \in LLaptop, NEW q \in Seq(LMsg), NEW r \in Seq(LMsg), NEW s \in LServer,
         l2tp' = [l2tp EXCEPT ![c] = x], toServer' = [toServer EXCEPT ![c] = q], toLaptop' = [toLaptop EXCEPT ![c] = r],
         l2tpServer' = s, \A d \in Laptops \ {c} : s.sas[d] = l2tpServer.sas[d], LHolders(s), LLine(x, q, r, s.sas[c])
  PROVE  LInv'
<1>1. LType'
  BY DEF LInv, LType
<1>2. LHolders(l2tpServer)'
  BY DEF LHolders
<1>3. ASSUME NEW d \in Laptops PROVE LLine(l2tp[d], toServer[d], toLaptop[d], l2tpServer.sas[d])'
  <2>1. CASE d = c
    <3>1. l2tp'[d] = x /\ toServer'[d] = q /\ toLaptop'[d] = r /\ l2tpServer'.sas[d] = s.sas[c]
      BY <2>1 DEF LInv, LType
    <3>2. QED BY <3>1 DEF LLine
  <2>2. CASE d # c
    <3>1. /\ l2tp'[d] = l2tp[d] /\ toServer'[d] = toServer[d] /\ toLaptop'[d] = toLaptop[d]
          /\ l2tpServer'.sas[d] = l2tpServer.sas[d]
      BY <2>2 DEF LInv, LType
    <3>2. LLine(l2tp[d], toServer[d], toLaptop[d], l2tpServer.sas[d])
      BY DEF LInv
    <3>3. QED BY <3>1, <3>2 DEF LLine
  <2>3. QED BY <2>1, <2>2
<1>4. QED BY <1>1, <1>2, <1>3 DEF LInv

\* What is known of one laptop.
LEMMA LKnown ==
  ASSUME LInv, NEW c \in Laptops
  PROVE  /\ LType /\ LHolders(l2tpServer) /\ l2tpServer \in LServer /\ l2tpServer.sas[c] \in LSa
         /\ l2tp[c] \in LLaptop /\ toServer[c] \in Seq(LMsg) /\ toLaptop[c] \in Seq(LMsg)
         /\ LLine(l2tp[c], toServer[c], toLaptop[c], l2tpServer.sas[c])
         /\ l2tp = [l2tp EXCEPT ![c] = l2tp[c]] /\ toServer = [toServer EXCEPT ![c] = toServer[c]]
         /\ toLaptop = [toLaptop EXCEPT ![c] = toLaptop[c]]
BY DEF LInv, LType, LServer

LEMMA LServerHandles ==
  ASSUME LInv, NEW c \in Laptops, L!ServerHandle(c)
  PROVE  LInv'
<1> DEFINE q == toServer[c]
           r == toLaptop[c]
           m == Head(q)
           s == l2tpServer
<1>1. /\ LType /\ LHolders(s) /\ s \in LServer /\ s.sas[c] \in LSa /\ l2tp[c] \in LLaptop /\ q \in Seq(LMsg) /\ r \in Seq(LMsg)
      /\ LLine(l2tp[c], q, r, s.sas[c]) /\ l2tp = [l2tp EXCEPT ![c] = l2tp[c]]
  BY LKnown
<1>2. q # <<>> /\ l2tp' = l2tp /\ toServer' = [toServer EXCEPT ![c] = Tail(q)]
  BY DEF L!ServerHandle
<1>3. m \in LMsg /\ Tail(q) \in Seq(LMsg)
  BY <1>1, <1>2, SeqOf
<1>4. PICK step \in (IF m.op \in {"mm1", "mm2", "qm", "delete"} THEN {L!ServerIke(s, c, m)} ELSE L!ServerEsp(s, c, m)) :
        l2tpServer' = step.x /\ toLaptop' = [toLaptop EXCEPT ![c] = r \o step.out]
  BY DEF L!ServerHandle
<1>5. LDone(s, c, m, step.x, step.out)
  <2>1. CASE m.op \in {"mm1", "mm2", "qm", "delete"}
    <3>1. step = L!ServerIke(s, c, m)
      BY <1>4, <2>1
    <3>2. QED BY <1>1, <1>3, <2>1, <3>1, LIkeDone
  <2>2. CASE m.op \notin {"mm1", "mm2", "qm", "delete"}
    <3>1. step \in L!ServerEsp(s, c, m)
      BY <1>4, <2>2
    <3>2. QED BY <1>1, <1>3, <3>1, LEspDone
  <2>3. QED BY <2>1, <2>2
<1> DEFINE x == step.x
           out == step.out
<1> HIDE DEF q, r, s, m, x, out
<1>6. x \in LServer /\ out \in Seq(LMsg) /\ LDoes(m, s.sas[c], x.sas[c]) /\ LSays(m, x.sas[c], out)
      /\ (\A d \in Laptops \ {c} : x.sas[d] = s.sas[d]) /\ LHolders(x)
  BY <1>1, <1>5 DEF LDone, x, out
<1>7. x.sas[c] \in LSa /\ r \o out \in Seq(LMsg)
  BY <1>1, <1>6 DEF LServer
<1>8. LLine(l2tp[c], Tail(q), r \o out, x.sas[c])
  BY <1>1, <1>2, <1>6, <1>7, LLineServed DEF m
<1>9. l2tp' = [l2tp EXCEPT ![c] = l2tp[c]] /\ l2tpServer' = x /\ toLaptop' = [toLaptop EXCEPT ![c] = r \o out]
  BY <1>1, <1>2, <1>4 DEF x, out
<1>10. \A d \in Laptops \ {c} : x.sas[d] = l2tpServer.sas[d]
  BY <1>6 DEF s
<1>11. QED BY <1>1, <1>2, <1>3, <1>6, <1>7, <1>8, <1>9, <1>10, LOneLaptop

\* A laptop becomes x and says out: nothing else changes but its line.
LEMMA LBecomes ==
  ASSUME LInv, NEW c \in Laptops, NEW x \in LLaptop, NEW out \in Seq(LMsg), NEW r \in Seq(LMsg),
         l2tp' = [l2tp EXCEPT ![c] = x], toServer' = [toServer EXCEPT ![c] = @ \o out], toLaptop' = [toLaptop EXCEPT ![c] = r],
         l2tpServer' = l2tpServer, LLine(x, toServer[c] \o out, r, l2tpServer.sas[c])
  PROVE  LInv'
<1>1. l2tpServer \in LServer /\ LHolders(l2tpServer) /\ toServer[c] \in Seq(LMsg)
  BY LKnown
<1>2. toServer[c] \o out \in Seq(LMsg)
  BY <1>1, SeqMore
<1> DEFINE q == toServer[c] \o out
<1>3. q \in Seq(LMsg) /\ toServer' = [toServer EXCEPT ![c] = q] /\ LLine(x, q, r, l2tpServer.sas[c])
  BY <1>2
<1> HIDE DEF q
<1>4. \A d \in Laptops \ {c} : l2tpServer.sas[d] = l2tpServer.sas[d]
  OBVIOUS
<1>5. QED BY <1>1, <1>3, <1>4, LOneLaptop

LEMMA LLaptopHandles ==
  ASSUME LInv, NEW c \in Laptops, L!LaptopHandle(c)
  PROVE  LInv'
<1> DEFINE q == toServer[c]
           r == toLaptop[c]
           m == Head(r)
           mine == m.spi = l2tp[c].spi /\ l2tp[c].phase \notin {"off", "failed"}
           step == IF mine THEN L!Heard(c, l2tp[c], m) ELSE L!Still(l2tp[c])
           a == l2tpServer.sas[c]
<1>1. LType /\ a \in LSa /\ l2tp[c] \in LLaptop /\ q \in Seq(LMsg) /\ r \in Seq(LMsg) /\ LLine(l2tp[c], q, r, a)
  BY LKnown
<1>2. r # <<>> /\ toLaptop' = [toLaptop EXCEPT ![c] = Tail(r)] /\ l2tpServer' = l2tpServer
  BY DEF L!LaptopHandle
<1>3. Tail(r) \in Seq(LMsg)
  BY <1>1, <1>2, SeqOf
<1>4. l2tp' = [l2tp EXCEPT ![c] = step.x] /\ toServer' = [toServer EXCEPT ![c] = @ \o step.out]
  BY DEF L!LaptopHandle, L!Become
<1>5. step.x \in LLaptop /\ step.out \in Seq(LMsg) /\ LLine(step.x, q \o step.out, Tail(r), a)
  <2>1. CASE mine
    <3>1. step = L!Heard(c, l2tp[c], m)
      BY <2>1
    <3>2. LET st == L!Heard(c, l2tp[c], m)
          IN  st.x \in LLaptop /\ st.out \in Seq(LMsg) /\ LLine(st.x, q \o st.out, Tail(r), a)
      BY <1>1, <1>2, <2>1, LLineHeard
    <3> HIDE DEF q, r, a, step, m
    <3>3. QED BY <3>1, <3>2
  <2>2. CASE ~ mine
    <3>1. step.x = l2tp[c] /\ step.out = <<>>
      BY <2>2 DEF L!Still
    <3> HIDE DEF q, r, a, step, m
    <3>2. LLine(l2tp[c], q, Tail(r), a)
      BY <1>1, <1>2, LLineLost
    <3>3. q \o <<>> = q
      BY <1>1
    <3>4. QED BY <1>1, <3>1, <3>2, <3>3
  <2>3. QED BY <2>1, <2>2
<1> DEFINE x == step.x
           out == step.out
<1>6. x \in LLaptop /\ out \in Seq(LMsg) /\ LLine(x, q \o out, Tail(r), a)
  BY <1>5
<1>7. l2tp' = [l2tp EXCEPT ![c] = x] /\ toServer' = [toServer EXCEPT ![c] = @ \o out]
  BY <1>4
<1> HIDE DEF r, x, out
<1>8. QED BY <1>2, <1>3, <1>6, <1>7, LBecomes

\* Of a quiet laptop nothing is under way.
LEMMA LQuiet ==
  ASSUME NEW Qs
  PROVE  NoToken(<<>>, <<>>, Qs, Qs)
BY FewOne DEF NoToken

LEMMA LTimes ==
  ASSUME LInv, NEW c \in Laptops, L!OnTimer(c)
  PROVE  LInv'
<1> DEFINE x == l2tp[c]
           q == toServer[c]
           r == toLaptop[c]
           a == l2tpServer.sas[c]
           Qs == LOf(x.spi)
<1>1. LType /\ a \in LSa /\ x \in LLaptop /\ q \in Seq(LMsg) /\ r \in Seq(LMsg) /\ LLine(x, q, r, a)
      /\ toLaptop = [toLaptop EXCEPT ![c] = r]
  BY LKnown
<1>2. q = <<>> /\ r = <<>> /\ x.phase \in L!Asking /\ toLaptop' = toLaptop /\ l2tpServer' = l2tpServer
  BY DEF L!OnTimer, L!Quiet
<1>3. CASE x.tries >= L2tpRetransmits
  <2> DEFINE y == L!Fail(x, "timeout").x
             out == L!Fail(x, "timeout").out
  <2>1. l2tp' = [l2tp EXCEPT ![c] = y] /\ toServer' = [toServer EXCEPT ![c] = @ \o out]
    BY <1>3 DEF L!OnTimer, L!Become
  <2>2. y \in LLaptop /\ y.phase = "failed" /\ out = <<>>
    BY <1>1, LFails
  <2> HIDE DEF y, out, x, q, r, a
  <2>3. out \in Seq(LMsg) /\ LLine(y, q \o out, r, a)
    BY <2>2 DEF LLine, L!Asking
  <2>4. QED BY <1>1, <1>2, <2>1, <2>2, <2>3, LBecomes DEF q, r, a
<1>4. CASE ~ (x.tries >= L2tpRetransmits)
  <2> DEFINE y == [x EXCEPT !.tries = @ + 1]
             out == L!Msg(x.phase, x.spi, 0)
  <2>1. l2tp' = [l2tp EXCEPT ![c] = y] /\ toServer' = [toServer EXCEPT ![c] = @ \o out]
    BY <1>4 DEF L!OnTimer, L!Become
  <2>2. y \in LLaptop /\ y.phase = x.phase /\ y.spi = x.spi /\ y.vip = x.vip
    BY <1>1 DEF LLaptop
  <2>3. x.phase \in LOps /\ x.spi \in Nat
    BY <1>1, <1>2 DEF LOps, LLaptop
  <2>4. out \in Seq(LMsg) /\ \E n \in LMsg : out = <<n>>
    BY <2>3, LAnswer
  <2> HIDE DEF y, out, x, q, r, a
  <2>5. Few(Mine(out, Qs))
    BY <2>4, FewOne
  <2>6. NoToken(q, r, Qs, Qs)
    BY <1>2, LQuiet
  <2>7. Token(q \o out, r, Qs, Qs)
    BY <1>1, <2>4, <2>5, <2>6, TokenAsked
  <2>8. Mine(r, Qs) = {} /\ x.phase # "up" /\ x.phase \in L!Asking \cup {"up"}
    BY <1>2, <2>6 DEF NoToken, L!Asking
  <2>9. LLine(y, q \o out, r, a)
    BY <1>1, <2>2, <2>7, <2>8 DEF LLine
  <2>10. QED BY <1>1, <1>2, <2>1, <2>2, <2>4, <2>9, LBecomes DEF q, r, a
<1>5. QED BY <1>3, <1>4

\* What a laptop that begins says before is to the old attempt.
LEMMA LBeginsAnew ==
  ASSUME LInv, NEW c \in Laptops, NEW bye \in Seq(LMsg), \A i \in DOMAIN bye : bye[i].op \notin L!Asking,
         l2tp' = [l2tp EXCEPT ![c] = L!Begin(c).x], toServer' = [toServer EXCEPT ![c] = @ \o (bye \o L!Begin(c).out)],
         toLaptop' = toLaptop, l2tpServer' = l2tpServer
  PROVE  LInv'
<1> DEFINE q == toServer[c]
           r == toLaptop[c]
           a == l2tpServer.sas[c]
           x == L!Begin(c).x
           out == L!Begin(c).out
<1>1. LType /\ a \in LSa /\ q \in Seq(LMsg) /\ r \in Seq(LMsg) /\ toLaptop = [toLaptop EXCEPT ![c] = r]
  BY LKnown
<1>2. /\ L!NewSpi(c) \in Nat \ {0}
      /\ \A i \in DOMAIN q : q[i].spi # L!NewSpi(c)
      /\ \A i \in DOMAIN r : r[i].spi # L!NewSpi(c)
  BY <1>1, LNewSpi
<1> HIDE DEF q, r, a
<1>3. x \in LLaptop /\ out \in Seq(LMsg) /\ LLine(x, q \o (bye \o out), r, a)
  BY <1>1, <1>2, LLineBegins
<1>4. bye \o out \in Seq(LMsg)
  BY <1>3, SeqMore
<1> HIDE DEF x, out
<1>5. l2tp' = [l2tp EXCEPT ![c] = x] /\ toServer' = [toServer EXCEPT ![c] = @ \o (bye \o out)]
      /\ toLaptop' = [toLaptop EXCEPT ![c] = r] /\ l2tpServer' = l2tpServer
  BY <1>1 DEF x, out
<1> DEFINE words == bye \o out
<1>6. words \in Seq(LMsg) /\ toServer' = [toServer EXCEPT ![c] = @ \o words] /\ LLine(x, toServer[c] \o words, r, l2tpServer.sas[c])
  BY <1>3, <1>4, <1>5 DEF q, a
<1> HIDE DEF words
<1>7. QED BY <1>1, <1>3, <1>5, <1>6, LBecomes

LEMMA LConnects ==
  ASSUME LInv, NEW c \in Laptops, L!Connect(c)
  PROVE  LInv'
<1> DEFINE out == L!Begin(c).out
<1>1. l2tp' = [l2tp EXCEPT ![c] = L!Begin(c).x] /\ toServer' = [toServer EXCEPT ![c] = @ \o out]
      /\ toLaptop' = toLaptop /\ l2tpServer' = l2tpServer
  BY DEF L!Connect, L!Become
<1> DEFINE none == <<>>
<1>2. none \in Seq(LMsg) /\ \A i \in DOMAIN none : none[i].op \notin L!Asking
  OBVIOUS
<1>3. out \in Seq(LMsg)
  <2>1. LType /\ toServer[c] \in Seq(LMsg) /\ toLaptop[c] \in Seq(LMsg) /\ l2tpServer.sas[c] \in LSa
    BY LKnown
  <2> HIDE DEF none
  <2>2. QED BY <1>2, <2>1, LNewSpi, LLineBegins
<1>4. none \o out = out
  BY <1>3
<1> HIDE DEF none
<1>5. QED BY <1>1, <1>2, <1>4, LBeginsAnew

LEMMA LReconnects ==
  ASSUME LInv, NEW c \in Laptops, L!Reconnect(c)
  PROVE  LInv'
<1> DEFINE b == L!Begin(c)
           bye == IF l2tp[c].phase = "up" THEN L!Msg("stop", l2tp[c].spi, 0) \o L!Msg("delete", l2tp[c].spi, 0) ELSE <<>>
           step == [b EXCEPT !.out = bye \o @]
<1>1. l2tp' = [l2tp EXCEPT ![c] = step.x] /\ toServer' = [toServer EXCEPT ![c] = @ \o step.out]
      /\ toLaptop' = toLaptop /\ l2tpServer' = l2tpServer
  BY DEF L!Reconnect, L!Become
<1>2. step.x = b.x /\ step.out = bye \o b.out
  BY DEF L!Begin, L!Ask
<1>3. l2tp[c].spi \in Nat
  BY LKnown DEF LLaptop
<1>4. bye \in Seq(LMsg) /\ \A i \in DOMAIN bye : bye[i].op \notin L!Asking
  <2> DEFINE m1 == [op |-> "stop", spi |-> l2tp[c].spi, v |-> 0]
             m2 == [op |-> "delete", spi |-> l2tp[c].spi, v |-> 0]
  <2>1. m1 \in LMsg /\ m2 \in LMsg /\ m1.op \notin L!Asking /\ m2.op \notin L!Asking
    BY <1>3 DEF LMsg, LOps, L!Asking
  <2>2. bye = IF l2tp[c].phase = "up" THEN <<m1>> \o <<m2>> ELSE <<>>
    BY DEF L!Msg
  <2> HIDE DEF m1, m2, bye
  <2>3. <<m1>> \o <<m2>> \in Seq(LMsg) /\ \A i \in DOMAIN (<<m1>> \o <<m2>>) : (<<m1>> \o <<m2>>)[i] \in {m1, m2}
    BY <2>1
  <2>4. QED BY <2>1, <2>2, <2>3
<1> HIDE DEF bye
<1>5. QED BY <1>1, <1>2, <1>4, LBeginsAnew

LEMMA LIntercepts ==
  ASSUME LInv, NEW c \in Laptops, L!Intercept(c)
  PROVE  LInv'
<1> DEFINE x == l2tp[c]
           q == toServer[c]
           r == toLaptop[c]
           a == l2tpServer.sas[c]
           Qs == LOf(x.spi)
           out == L!Msg("ip", x.spi, x.vip)
<1>1. LType /\ a \in LSa /\ x \in LLaptop /\ q \in Seq(LMsg) /\ r \in Seq(LMsg) /\ LLine(x, q, r, a)
      /\ toLaptop = [toLaptop EXCEPT ![c] = r]
  BY LKnown
<1>2. x.phase = "up" /\ toLaptop' = toLaptop /\ l2tpServer' = l2tpServer
      /\ l2tp' = [l2tp EXCEPT ![c] = x] /\ toServer' = [toServer EXCEPT ![c] = @ \o out]
  BY DEF L!Intercept, L!Become
<1>3. "ip" \in LOps /\ "ip" \notin L!Asking /\ x.spi \in Nat /\ x.vip \in Nat
  BY <1>1 DEF LOps, L!Asking, LLaptop
<1>4. out \in Seq(LMsg) /\ \E n \in LMsg : out = <<n>> /\ n.op = "ip"
  BY <1>3, LAnswer
<1> HIDE DEF x, q, r, a, out
<1>5. Mine(out, Qs) = {} /\ Few(Mine(out, Qs))
  BY <1>3, <1>4, FewOne DEF LOf
<1>6. x.spi # 0 /\ NoToken(q, r, Qs, Qs) /\ (a.spi = x.spi => a.vip = x.vip)
  BY <1>1, <1>2 DEF LLine
<1>7. NoToken(q \o out, r, Qs, Qs) /\ Token(q \o out, r, Qs, Qs) /\ Mine(r, Qs) = {}
  <2>1. Token(q \o out, r, Qs, Qs) /\ (Mine(out, Qs) = {} => NoToken(q \o out, r, Qs, Qs))
    BY <1>1, <1>4, <1>5, <1>6, TokenAsked
  <2>2. QED BY <1>5, <1>6, <2>1 DEF NoToken
<1>8. LLine(x, q \o out, r, a)
  BY <1>6, <1>7 DEF LLine
<1>9. QED BY <1>1, <1>2, <1>4, <1>8, LBecomes DEF q, r, a

\* No address any more: no attempt, and nothing under way to the laptop.
LEMMA LLoses ==
  ASSUME LInv, NEW c \in Laptops, L!Lost(c)
  PROVE  LInv'
<1> DEFINE x == [L!Down EXCEPT !.spi = l2tp[c].spi]
           q == toServer[c]
           none == <<>>
<1>1. l2tp[c] \in LLaptop /\ q \in Seq(LMsg) /\ toServer = [toServer EXCEPT ![c] = q] /\ l2tpServer \in LServer /\ LHolders(l2tpServer)
  BY LKnown
<1>2. l2tp' = [l2tp EXCEPT ![c] = x] /\ toLaptop' = [toLaptop EXCEPT ![c] = none] /\ toServer' = toServer /\ l2tpServer' = l2tpServer
  BY DEF L!Lost
<1>3. x \in LLaptop /\ x.phase = "off"
  BY <1>1 DEF LLaptop, L!Down
<1>4. none \in Seq(LMsg)
  OBVIOUS
<1> HIDE DEF x, q, none
<1>5. LLine(x, q, none, l2tpServer.sas[c])
  BY <1>3 DEF LLine, L!Asking
<1>6. \A d \in Laptops \ {c} : l2tpServer.sas[d] = l2tpServer.sas[d]
  OBVIOUS
<1>7. QED BY <1>1, <1>2, <1>3, <1>4, <1>5, <1>6, LOneLaptop

LEMMA LDrops ==
  ASSUME LInv, NEW c \in Laptops, L!Drop(c)
  PROVE  LInv'
<1> DEFINE x == l2tp[c]
           q == toServer[c]
           r == toLaptop[c]
           s == l2tpServer
<1>1. x \in LLaptop /\ q \in Seq(LMsg) /\ r \in Seq(LMsg) /\ s \in LServer /\ LHolders(s) /\ s.sas[c] \in LSa
      /\ LLine(x, q, r, s.sas[c]) /\ l2tp = [l2tp EXCEPT ![c] = x] /\ toServer = [toServer EXCEPT ![c] = q]
      /\ toLaptop = [toLaptop EXCEPT ![c] = r]
  BY LKnown
<1>2. l2tp' = l2tp /\ l2tpServer' = l2tpServer
  BY DEF L!Drop
<1>3. \A d \in Laptops \ {c} : l2tpServer.sas[d] = l2tpServer.sas[d]
  OBVIOUS
<1>4. CASE q # <<>> /\ toServer' = [toServer EXCEPT ![c] = Tail(q)] /\ toLaptop' = toLaptop
  <2> HIDE DEF x, q, r, s
  <2>1. Tail(q) \in Seq(LMsg) /\ LLine(x, Tail(q), r, s.sas[c])
    BY <1>1, <1>4, SeqOf, LLineLost
  <2>2. QED BY <1>1, <1>2, <1>3, <1>4, <2>1, LOneLaptop DEF s
<1>5. CASE r # <<>> /\ toLaptop' = [toLaptop EXCEPT ![c] = Tail(r)] /\ toServer' = toServer
  <2> HIDE DEF x, q, r, s
  <2>1. Tail(r) \in Seq(LMsg) /\ LLine(x, q, Tail(r), s.sas[c])
    BY <1>1, <1>5, SeqOf, LLineLost
  <2>2. QED BY <1>1, <1>2, <1>3, <1>5, <2>1, LOneLaptop DEF s
<1>6. QED BY <1>4, <1>5 DEF L!Drop

\* Nobody has an SA, and the leases may be forgotten or not.
LEMMA LForgotten ==
  ASSUME LInv, NEW s \in LServer, l2tpServer' = s, s.sas = L!NoSas, l2tp' = l2tp, toServer' = toServer,
         NEW outs \in [Laptops -> Seq(LMsg)], \A c \in Laptops : \A i \in DOMAIN outs[c] : outs[c][i].op \notin L!Asking,
         toLaptop' = [c \in Laptops |-> toLaptop[c] \o outs[c]]
  PROVE  LInv'
<1>1. \A c \in Laptops : s.sas[c] = L!NoSa
  BY DEF L!NoSas
<1>2. LHolders(s)
  BY <1>1, LNoSa DEF LHolders
<1>3. \A c \in Laptops : toLaptop[c] \o outs[c] \in Seq(LMsg)
  BY DEF LInv, LType
<1>4. toLaptop' \in [Laptops -> Seq(LMsg)] /\ \A c \in Laptops : toLaptop'[c] = toLaptop[c] \o outs[c]
  BY <1>3
<1>5. LType'
  BY <1>4 DEF LInv, LType
<1>6. ASSUME NEW c \in Laptops PROVE LLine(l2tp[c], toServer[c], toLaptop[c], l2tpServer.sas[c])'
  <2> DEFINE x == l2tp[c]
             q == toServer[c]
             r == toLaptop[c]
             a == l2tpServer.sas[c]
             out == outs[c]
  <2>1. x \in LLaptop /\ q \in Seq(LMsg) /\ r \in Seq(LMsg) /\ a \in LSa /\ LLine(x, q, r, a)
    BY LKnown
  <2>2. out \in Seq(LMsg) /\ \A i \in DOMAIN out : out[i].op \notin L!Asking
    OBVIOUS
  <2>3. l2tp'[c] = x /\ toServer'[c] = q /\ toLaptop'[c] = r \o out /\ l2tpServer'.sas[c] = L!NoSa
    BY <1>1, <1>4
  <2> HIDE DEF x, q, r, a, out
  <2>4. LLine(x, q, r \o out, L!NoSa)
    BY <2>1, <2>2, LNoSa, LLineTold
  <2>5. QED BY ZenonT(60), <2>3, <2>4 DEF LLine
<1>7. QED BY <1>2, <1>5, <1>6 DEF LInv, LHolders

LEMMA LSets ==
  ASSUME LInv, L!SetServer
  PROVE  LInv'
<1> DEFINE s == [mm |-> L!Nothing, authed |-> L!Nothing, sas |-> L!NoSas, leases |-> [c \in Laptops |-> 0]]
           outs == [c \in Laptops |-> IF L!Own(c).tunnel /\ L!Own(c).failed = "none" THEN L!Msg("stop", L!Own(c).spi, 0)
                                      ELSE <<>>]
<1>1. l2tpServer' = s /\ l2tp' = l2tp /\ toServer' = toServer /\ toLaptop' = [c \in Laptops |-> toLaptop[c] \o outs[c]]
  BY DEF L!SetServer
<1>2. {} \in LSpis
  BY FS_EmptySet DEF LSpis
<1>3. s \in LServer /\ s.sas = L!NoSas
  BY <1>2, LNoSa DEF LServer, L!Nothing, L!NoSas
<1>4. ASSUME NEW c \in Laptops
      PROVE  outs[c] \in Seq(LMsg) /\ \A i \in DOMAIN outs[c] : outs[c][i].op \notin L!Asking
  <2> DEFINE spi == L!Own(c).spi
             m == [op |-> "stop", spi |-> spi, v |-> 0]
  <2>1. spi \in Nat
    BY LKnown DEF L!Own, LSa
  <2>2. outs[c] = <<>> \/ outs[c] = <<m>>
    BY DEF L!Msg
  <2>3. m \in LMsg /\ m.op \notin L!Asking
    BY <2>1 DEF LMsg, LOps, L!Asking
  <2> DEFINE out == outs[c]
  <2> HIDE DEF m, out
  <2>4. out = <<>> \/ out = <<m>>
    BY <2>2 DEF out
  <2>5. CASE out = <<>>
    <3>1. out \in Seq(LMsg) /\ DOMAIN out = {}
      BY <2>5
    <3>2. QED BY <3>1 DEF out
  <2>6. CASE out = <<m>>
    <3>1. out \in Seq(LMsg) /\ \A i \in DOMAIN out : out[i] = m
      BY <2>3, <2>6
    <3>2. QED BY <2>3, <3>1 DEF out
  <2>7. QED BY <2>4, <2>5, <2>6
<1> HIDE DEF s
<1>5. outs \in [Laptops -> Seq(LMsg)]
  <2>1. outs = [c \in Laptops |-> outs[c]]
    OBVIOUS
  <2> HIDE DEF outs
  <2>2. QED BY <1>4, <2>1
<1> HIDE DEF outs
<1>6. QED BY <1>1, <1>3, <1>4, <1>5, LForgotten

LEMMA LClears ==
  ASSUME LInv, L!ClearServer
  PROVE  LInv'
<1> DEFINE s == [l2tpServer EXCEPT !.mm = L!Nothing, !.authed = L!Nothing, !.sas = L!NoSas]
           outs == [c \in Laptops |-> <<>>]
<1>1. l2tpServer' = s /\ l2tp' = l2tp /\ toServer' = toServer /\ toLaptop' = toLaptop
  BY DEF L!ClearServer
<1>2. {} \in LSpis
  BY FS_EmptySet DEF LSpis
<1>3. s \in LServer /\ s.sas = L!NoSas
  <2>1. L!Nothing \in [Laptops -> LSpis] /\ L!NoSas \in [Laptops -> LSa]
    BY <1>2, LNoSa DEF L!Nothing, L!NoSas
  <2>2. l2tpServer \in LServer
    BY DEF LInv, LType
  <2>3. QED BY <2>1, <2>2 DEF LServer
<1>4. outs \in [Laptops -> Seq(LMsg)] /\ \A c \in Laptops : \A i \in DOMAIN outs[c] : outs[c][i].op \notin L!Asking
  OBVIOUS
<1>5. toLaptop = [c \in Laptops |-> toLaptop[c] \o outs[c]]
  <2>1. \A c \in Laptops : toLaptop[c] \o outs[c] = toLaptop[c]
    BY DEF LInv, LType
  <2>2. toLaptop = [c \in Laptops |-> toLaptop[c]]
    BY DEF LInv, LType
  <2> HIDE DEF outs
  <2>3. QED BY <2>1, <2>2
<1> HIDE DEF s, outs
<1>6. toLaptop' = [c \in Laptops |-> toLaptop[c] \o outs[c]]
  BY <1>1, <1>5
<1>7. QED BY <1>1, <1>3, <1>4, <1>6, LForgotten

LEMMA LBegins ==
  L!Init => LInv
<1> SUFFICES ASSUME L!Init PROVE LInv
  OBVIOUS
<1>1. {} \in LSpis
  BY FS_EmptySet DEF LSpis
<1>2. L!Down \in LLaptop /\ L!Down.phase = "off"
  BY DEF L!Down, LLaptop
<1>3. l2tp = [c \in Laptops |-> L!Down]
  BY DEF L!Init
<1>4. l2tpServer = [mm |-> L!Nothing, authed |-> L!Nothing, sas |-> L!NoSas, leases |-> [c \in Laptops |-> 0]]
  BY DEF L!Init
<1>5. toServer = [c \in Laptops |-> <<>>] /\ toLaptop = [c \in Laptops |-> <<>>]
  BY DEF L!Init
<1>6. l2tpServer \in LServer
  BY <1>1, <1>4, LNoSa DEF LServer, L!Nothing, L!NoSas
<1>7. LType
  BY <1>2, <1>3, <1>5, <1>6 DEF LType
<1>8. LHolders(l2tpServer)
  BY <1>4, LNoSa DEF LHolders, L!NoSas
<1>9. \A c \in Laptops : l2tp[c].phase = "off"
  BY <1>2, <1>3
<1>10. QED BY <1>7, <1>8, <1>9 DEF LInv, LLine, L!Asking

LEMMA LSteps ==
  LInv /\ L!Next => LInv'
<1> SUFFICES ASSUME LInv, L!Next PROVE LInv'
  OBVIOUS
<1>1. CASE L!SetServer BY <1>1, LSets
<1>2. CASE L!ClearServer BY <1>2, LClears
<1>3. ASSUME NEW c \in Laptops, L!ServerHandle(c) PROVE LInv' BY <1>3, LServerHandles
<1>4. ASSUME NEW c \in Laptops, L!LaptopHandle(c) PROVE LInv' BY <1>4, LLaptopHandles
<1>5. ASSUME NEW c \in Laptops, L!OnTimer(c) PROVE LInv' BY <1>5, LTimes
<1>6. ASSUME NEW c \in Laptops, L!Connect(c) PROVE LInv' BY <1>6, LConnects
<1>7. ASSUME NEW c \in Laptops, L!Intercept(c) PROVE LInv' BY <1>7, LIntercepts
<1>8. ASSUME NEW c \in Laptops, L!Reconnect(c) PROVE LInv' BY <1>8, LReconnects
<1>9. ASSUME NEW c \in Laptops, L!Lost(c) PROVE LInv' BY <1>9, LLoses
<1>10. ASSUME NEW c \in Laptops, L!Drop(c) PROVE LInv' BY <1>10, LDrops
<1>11. QED BY <1>1, <1>2, <1>3, <1>4, <1>5, <1>6, <1>7, <1>8, <1>9, <1>10 DEF L!Next

LEMMA LAgrees ==
  LInv => L!OneHolder /\ L!SameAddress
<1> SUFFICES ASSUME LInv PROVE L!OneHolder /\ L!SameAddress
  OBVIOUS
<1>1. L!OneHolder
  BY DEF LInv, LHolders, L!OneHolder, L!Own
<1>2. L!SameAddress
  BY DEF LInv, LLine, L!SameAddress, L!Own
<1>3. QED BY <1>1, <1>2

-------------------------------------------------------------------------------
(* Remote access: the server *)

AOps    == {"init", "auth", "eap", "dpd", "delete", "esp", "alive", "invalid", "refused", "assigned", "none"}
AMsg    == [op : AOps, spi : Nat, v : Nat]
AClient == [spi : Nat, vip : Nat]
AAnswer == [op : {"none", "refused", "assigned"}, spi : Nat, v : Nat, eap : BOOLEAN]
AServer == [pool : SUBSET (Nat \ {0}), accounts : BOOLEAN, pending : [RaClients -> LSpis], eapPending : [RaClients -> LSpis],
            clients : [RaClients -> AClient], leases : [RaClients -> Nat], lastAuth : [RaClients -> AAnswer]]
ALaptop == [state : {"off", "init", "auth", "up", "failed"}, asked : {"none", "init", "auth", "eap", "dpd"}, tries : Nat,
            spi : Nat, vip : Nat, dpd : BOOLEAN, why : {"none", "timeout", "dpd", "refused"}]

AType ==
  /\ ra \in [RaClients -> ALaptop]
  /\ raServer \in AServer
  /\ raAsks \in [RaClients -> Seq(AMsg)]
  /\ raTells \in [RaClients -> Seq(AMsg)]

\* A!OneHolder, of any server; and the answer it would give again names the address it gave
AHolders(s) ==
  /\ \A c, d \in RaClients : c # d /\ s.leases[c] # 0 => s.leases[c] # s.leases[d]
  /\ \A c \in RaClients : s.clients[c].vip # 0 => s.leases[c] = s.clients[c].vip
  /\ \A c \in RaClients : s.lastAuth[c].op = "assigned" /\ s.clients[c].spi = s.lastAuth[c].spi
                            => s.clients[c].vip = s.lastAuth[c].v

\* What is asked in an attempt, and what is answered to that
ABeside   == {"dpd", "delete", "esp"}
AAskOps   == AOps \ ABeside
AReplyOps == AOps \ {"alive", "invalid"}

\* What a message m does to a client, which was a and becomes b, and what is answered
ASays(m, b, out) ==
  \/ out = <<>>
  \/ \E n \in AMsg : /\ out = <<n>> /\ n.spi = m.spi
                     /\ n.op \in AReplyOps => m.op \in AAskOps
                     /\ n.op = "assigned" /\ b.spi = m.spi => b.vip = n.v
ADoes(m, a, b) == \/ b = a
                  \/ b.spi = m.spi /\ m.op \in AAskOps
                  \/ b.spi = 0

ADone(clients, c, m, x, out) ==
  /\ x \in AServer /\ out \in Seq(AMsg)
  /\ ADoes(m, clients[c], x.clients[c]) /\ ASays(m, x.clients[c], out)
  /\ \A d \in RaClients \ {c} : x.clients[d] = clients[d]
  /\ AHolders(x)

LEMMA AAnswers ==
  ASSUME NEW op \in AOps, NEW spi \in Nat, NEW v \in Nat
  PROVE  /\ A!Msg(op, spi, v) \in Seq(AMsg)
         /\ \E n \in AMsg : A!Msg(op, spi, v) = <<n>> /\ n.op = op /\ n.spi = spi /\ n.v = v
<1> DEFINE n == [op |-> op, spi |-> spi, v |-> v]
<1>1. n \in AMsg /\ n.op = op /\ n.spi = spi /\ n.v = v
  BY DEF AMsg
<1>2. A!Msg(op, spi, v) = <<n>>
  BY DEF A!Msg
<1> HIDE DEF n
<1>3. QED BY <1>1, <1>2

LEMMA ASaysNothing ==
  ASSUME NEW m, NEW b
  PROVE  <<>> \in Seq(AMsg) /\ ASays(m, b, <<>>)
BY DEF ASays

LEMMA ASaysPlain ==
  ASSUME NEW m \in AMsg, NEW b, NEW op \in AOps, NEW v \in Nat, op # "assigned" \/ (b.spi = m.spi => b.vip = v),
         op \in AReplyOps => m.op \in AAskOps
  PROVE  A!Msg(op, m.spi, v) \in Seq(AMsg) /\ ASays(m, b, A!Msg(op, m.spi, v))
<1>1. m.spi \in Nat
  BY DEF AMsg
<1>2. QED BY <1>1, AAnswers DEF ASays

\* Clients and leases stay, and the last answer does or is a refusal.
LEMMA ADoneStill ==
  ASSUME NEW s \in AServer, AHolders(s), NEW c \in RaClients, NEW m \in AMsg, NEW out \in Seq(AMsg), NEW x \in AServer,
         x.clients = s.clients, x.leases = s.leases,
         \A d \in RaClients : x.lastAuth[d] = s.lastAuth[d] \/ x.lastAuth[d].op # "assigned",
         ASays(m, s.clients[c], out)
  PROVE  ADone(s.clients, c, m, x, out)
<1>1. AHolders(x)
  <2>1. \A d, e \in RaClients : d # e /\ x.leases[d] # 0 => x.leases[d] # x.leases[e]
    BY DEF AHolders
  <2>2. \A d \in RaClients : x.clients[d].vip # 0 => x.leases[d] = x.clients[d].vip
    BY DEF AHolders
  <2>3. \A d \in RaClients : x.lastAuth[d].op = "assigned" /\ x.clients[d].spi = x.lastAuth[d].spi
                               => x.clients[d].vip = x.lastAuth[d].v
    BY DEF AHolders
  <2>4. QED BY <2>1, <2>2, <2>3 DEF AHolders
<1>2. QED BY <1>1 DEF ADone, ADoes

LEMMA AFinal ==
  ASSUME NEW s \in AServer, NEW c \in RaClients, NEW eap \in BOOLEAN, NEW op \in {"refused", "assigned"}, NEW spi \in Nat,
         NEW v \in Nat
  PROVE  LET step == A!FinalAuth(s, c, eap, op, spi, v)
         IN  /\ step.s \in AServer /\ step.s.clients = s.clients /\ step.s.leases = s.leases
             /\ step.s.lastAuth[c].op = op /\ step.s.lastAuth[c].spi = spi /\ step.s.lastAuth[c].v = v
             /\ \A d \in RaClients \ {c} : step.s.lastAuth[d] = s.lastAuth[d]
             /\ step.out = A!Msg(op, spi, v)
<1> DEFINE e == [op |-> op, spi |-> spi, v |-> v, eap |-> eap]
           x == [s EXCEPT !.lastAuth[c] = e]
<1>1. e \in AAnswer /\ e.op = op /\ e.spi = spi /\ e.v = v
  BY DEF AAnswer
<1>2. A!FinalAuth(s, c, eap, op, spi, v) = [s |-> x, out |-> A!Msg(op, spi, v)]
  BY DEF A!FinalAuth, A!Serve
<1> HIDE DEF e
<1>3. x \in AServer /\ x.clients = s.clients /\ x.leases = s.leases /\ x.lastAuth[c] = e
      /\ \A d \in RaClients \ {c} : x.lastAuth[d] = s.lastAuth[d]
  BY <1>1 DEF AServer
<1> HIDE DEF x
<1>4. QED BY <1>1, <1>2, <1>3

\* A refusal.
LEMMA ARefuses ==
  ASSUME NEW s \in AServer, AHolders(s), NEW c \in RaClients, NEW m \in AMsg, m.op \in AAskOps, NEW eap \in BOOLEAN
  PROVE  LET step == A!FinalAuth(s, c, eap, "refused", m.spi, 0) IN ADone(s.clients, c, m, step.s, step.out)
<1> DEFINE step == A!FinalAuth(s, c, eap, "refused", m.spi, 0)
<1> SUFFICES ADone(s.clients, c, m, step.s, step.out)
  OBVIOUS
<1>1. m.spi \in Nat
  BY DEF AMsg
<1>2. /\ step.s \in AServer /\ step.s.clients = s.clients /\ step.s.leases = s.leases
      /\ step.s.lastAuth[c].op = "refused" /\ \A d \in RaClients \ {c} : step.s.lastAuth[d] = s.lastAuth[d]
      /\ step.out = A!Msg("refused", m.spi, 0)
  BY <1>1, AFinal
<1>3. A!Msg("refused", m.spi, 0) \in Seq(AMsg) /\ ASays(m, s.clients[c], A!Msg("refused", m.spi, 0))
  BY ASaysPlain DEF AOps
<1> DEFINE x == step.s
           out == step.out
<1>4. x \in AServer /\ x.clients = s.clients /\ x.leases = s.leases /\ out \in Seq(AMsg) /\ ASays(m, s.clients[c], out)
      /\ \A d \in RaClients : x.lastAuth[d] = s.lastAuth[d] \/ x.lastAuth[d].op # "assigned"
  BY <1>2, <1>3
<1> HIDE DEF x, out
<1>5. ADone(s.clients, c, m, x, out)
  BY <1>4, ADoneStill
<1>6. QED BY <1>5 DEF x, out

\* An address that may be given is an address, and nobody connected has it.
LEMMA AAllocated ==
  ASSUME NEW s \in AServer, NEW c \in RaClients, NEW v \in A!Allocate(s, c)
  PROVE  v \in Nat /\ v # 0 /\ v \notin A!InUse(s, c)
<1>1. A!Leased(s, c) \subseteq Nat \ {0} /\ s.leases[c] \in Nat /\ s.pool \subseteq Nat \ {0}
  BY DEF AServer, A!Leased
<1> DEFINE S == s.pool \ (A!InUse(s, c) \cup A!Leased(s, c))
           own == s.leases[c] # 0 /\ s.leases[c] \notin A!InUse(s, c)
<1>2. CASE own
  BY <1>1, <1>2 DEF A!Allocate
<1>3. CASE ~ own /\ S # {}
  <2>1. v = (CHOOSE a \in S : \A b \in S : a <= b)
    BY <1>3 DEF A!Allocate, A!Min
  <2>2. S \in SUBSET Nat
    BY <1>1
  <2>3. S \subseteq s.pool /\ S \cap A!InUse(s, c) = {}
    OBVIOUS
  <2> HIDE DEF S
  <2>4. v \in S
    BY <1>3, <2>1, <2>2, FirstAddress
  <2>5. QED BY <1>1, <2>3, <2>4
<1>4. CASE ~ own /\ S = {}
  <2>1. v \in A!Leased(s, c) \ A!InUse(s, c)
    BY <1>4 DEF A!Allocate
  <2>2. QED BY <1>1, <2>1
<1>5. QED BY <1>2, <1>3, <1>4

\* The address is given: nobody else has it, and the lease goes with it.
LEMMA AGrants ==
  ASSUME NEW s \in AServer, AHolders(s), NEW c \in RaClients, NEW m \in AMsg, m.op \in AAskOps, NEW eap \in BOOLEAN,
         NEW step \in A!Grant(s, c, m.spi, eap)
  PROVE  ADone(s.clients, c, m, step.s, step.out)
<1>0. m.spi \in Nat
  BY DEF AMsg
<1>1. CASE A!Allocate(s, c) = {}
  <2>1. step = A!FinalAuth(s, c, eap, "refused", m.spi, 0)
    BY <1>1 DEF A!Grant
  <2>2. QED BY <2>1, ARefuses
<1>2. CASE A!Allocate(s, c) # {}
  <2> DEFINE Given(v) == [s EXCEPT !.clients[c] = [spi |-> m.spi, vip |-> v],
                                   !.leases = [d \in RaClients |-> IF d = c THEN v ELSE IF @[d] = v THEN 0 ELSE @[d]]]
  <2>1. step \in {A!FinalAuth(Given(v), c, eap, "assigned", m.spi, v) : v \in A!Allocate(s, c)}
    BY <1>2 DEF A!Grant
  <2>2. PICK v \in A!Allocate(s, c) : step = A!FinalAuth(Given(v), c, eap, "assigned", m.spi, v)
    BY <2>1, Zenon
  <2>3. v \in Nat /\ v # 0 /\ v \notin A!InUse(s, c)
    BY AAllocated
  <2> DEFINE b == [spi |-> m.spi, vip |-> v]
             leases == [d \in RaClients |-> IF d = c THEN v ELSE IF s.leases[d] = v THEN 0 ELSE s.leases[d]]
             t == Given(v)
             x == step.s
             out == step.out
  <2>4. t = [s EXCEPT !.clients[c] = b, !.leases = leases]
    OBVIOUS
  <2>5. b \in AClient /\ b.spi = m.spi /\ b.vip = v
    BY <1>0, <2>3 DEF AClient
  <2>6. leases \in [RaClients -> Nat] /\ leases[c] = v
        /\ \A d \in RaClients \ {c} : leases[d] = IF s.leases[d] = v THEN 0 ELSE s.leases[d]
    BY <2>3 DEF AServer
  <2>7. step = A!FinalAuth(t, c, eap, "assigned", m.spi, v)
    BY <2>2
  <2> HIDE DEF b, leases, t
  <2>8. t \in AServer /\ t.clients[c] = b /\ (\A d \in RaClients \ {c} : t.clients[d] = s.clients[d]) /\ t.leases = leases
        /\ t.lastAuth = s.lastAuth
    BY <2>4, <2>5, <2>6 DEF AServer
  <2>9. /\ x \in AServer /\ x.clients = t.clients /\ x.leases = t.leases
        /\ x.lastAuth[c].op = "assigned" /\ x.lastAuth[c].spi = m.spi /\ x.lastAuth[c].v = v
        /\ (\A d \in RaClients \ {c} : x.lastAuth[d] = t.lastAuth[d])
        /\ out = A!Msg("assigned", m.spi, v)
    BY SMTT(60), <1>0, <2>3, <2>7, <2>8, AFinal
  <2> HIDE DEF x, out
  <2>10. \A d \in RaClients \ {c} : s.clients[d].vip # v
    BY <2>3 DEF A!InUse
  <2>11. AHolders(x)
    <3>1. ASSUME NEW d \in RaClients, NEW e \in RaClients, d # e, x.leases[d] # 0 PROVE x.leases[d] # x.leases[e]
      BY <2>3, <2>6, <2>8, <2>9, <3>1 DEF AHolders
    <3>2. ASSUME NEW d \in RaClients, x.clients[d].vip # 0 PROVE x.leases[d] = x.clients[d].vip
      BY <2>5, <2>6, <2>8, <2>9, <2>10, <3>2 DEF AHolders
    <3>3. ASSUME NEW d \in RaClients, x.lastAuth[d].op = "assigned", x.clients[d].spi = x.lastAuth[d].spi
          PROVE  x.clients[d].vip = x.lastAuth[d].v
      BY <2>5, <2>8, <2>9, <3>3 DEF AHolders
    <3>4. QED BY <3>1, <3>2, <3>3 DEF AHolders
  <2>12. A!Msg("assigned", m.spi, v) \in Seq(AMsg) /\ ASays(m, b, A!Msg("assigned", m.spi, v))
    BY <2>3, <2>5, ASaysPlain DEF AOps
  <2>13. ADone(s.clients, c, m, x, out)
    BY <2>5, <2>8, <2>9, <2>11, <2>12 DEF ADone, ADoes
  <2>14. QED BY <2>13 DEF x, out
<1>3. QED BY <1>1, <1>2

\* Negotiations begin and end: the server stays as good as it was.
AStays(s, t) == t \in AServer /\ t.clients = s.clients /\ t.leases = s.leases /\ t.lastAuth = s.lastAuth /\ AHolders(t)

LEMMA APends ==
  ASSUME NEW s \in AServer, AHolders(s), NEW c \in RaClients, NEW spi \in Nat
  PROVE  LET t1 == [s EXCEPT !.pending[c] = @ \ {spi}]
         IN  /\ AStays(s, [s EXCEPT !.pending[c] = @ \cup {spi}]) /\ AStays(s, t1)
             /\ AStays(s, [t1 EXCEPT !.eapPending[c] = @ \cup {spi}])
             /\ AStays(s, [s EXCEPT !.eapPending[c] = @ \ {spi}])
<1> DEFINE Pend(S, U) == [s EXCEPT !.pending[c] = S, !.eapPending[c] = U]
<1>1. ASSUME NEW S \in LSpis, NEW U \in LSpis PROVE AStays(s, Pend(S, U))
  <2> DEFINE t == Pend(S, U)
  <2>1. t \in AServer /\ t.clients = s.clients /\ t.leases = s.leases /\ t.lastAuth = s.lastAuth
    BY DEF AServer
  <2> HIDE DEF t
  <2>2. AHolders(t)
    BY <2>1 DEF AHolders
  <2>3. AStays(s, t)
    BY <2>1, <2>2 DEF AStays
  <2>4. QED BY <2>3 DEF t
<1>2. s.pending[c] \in LSpis /\ s.eapPending[c] \in LSpis
  BY DEF AServer
<1>3. s.pending[c] \cup {spi} \in LSpis /\ s.pending[c] \ {spi} \in LSpis
      /\ s.eapPending[c] \cup {spi} \in LSpis /\ s.eapPending[c] \ {spi} \in LSpis
  BY <1>2, LSpisMore
<1> DEFINE t1 == [s EXCEPT !.pending[c] = @ \ {spi}]
<1>4. [s EXCEPT !.pending[c] = @ \cup {spi}] = Pend(s.pending[c] \cup {spi}, s.eapPending[c])
  BY DEF AServer
<1>5. t1 = Pend(s.pending[c] \ {spi}, s.eapPending[c])
  BY DEF AServer
<1>6. [t1 EXCEPT !.eapPending[c] = @ \cup {spi}] = Pend(s.pending[c] \ {spi}, s.eapPending[c] \cup {spi})
  BY DEF AServer
<1>7. [s EXCEPT !.eapPending[c] = @ \ {spi}] = Pend(s.pending[c], s.eapPending[c] \ {spi})
  BY DEF AServer
<1>8. AStays(s, Pend(s.pending[c] \cup {spi}, s.eapPending[c]))
  BY <1>1, <1>2, <1>3
<1>9. AStays(s, Pend(s.pending[c] \ {spi}, s.eapPending[c]))
  BY <1>1, <1>2, <1>3
<1>10. AStays(s, Pend(s.pending[c] \ {spi}, s.eapPending[c] \cup {spi}))
  BY <1>1, <1>2, <1>3
<1>11. AStays(s, Pend(s.pending[c], s.eapPending[c] \ {spi}))
  BY <1>1, <1>2, <1>3
<1> HIDE DEF Pend
<1>12. QED BY <1>4, <1>5, <1>6, <1>7, <1>8, <1>9, <1>10, <1>11

\* The server says at most something, and stays.
LEMMA ATells ==
  ASSUME NEW s \in AServer, AHolders(s), NEW c \in RaClients, NEW m \in AMsg, NEW x \in AServer, x.clients = s.clients,
         x.leases = s.leases, x.lastAuth = s.lastAuth, NEW op \in AOps \ {"assigned"}, op \in AReplyOps => m.op \in AAskOps
  PROVE  ADone(s.clients, c, m, x, A!Msg(op, m.spi, 0)) /\ ADone(s.clients, c, m, x, <<>>)
<1>1. A!Msg(op, m.spi, 0) \in Seq(AMsg) /\ ASays(m, s.clients[c], A!Msg(op, m.spi, 0))
  BY ASaysPlain
<1>2. <<>> \in Seq(AMsg) /\ ASays(m, s.clients[c], <<>>)
  BY ASaysNothing
<1>3. \A d \in RaClients : x.lastAuth[d] = s.lastAuth[d] \/ x.lastAuth[d].op # "assigned"
  OBVIOUS
<1>4. ADone(s.clients, c, m, x, A!Msg(op, m.spi, 0))
  BY <1>1, <1>3, ADoneStill
<1>5. ADone(s.clients, c, m, x, <<>>)
  BY <1>2, <1>3, ADoneStill
<1>6. QED BY <1>4, <1>5

LEMMA AAuths ==
  ASSUME NEW s \in AServer, AHolders(s), NEW c \in RaClients, NEW m \in AMsg, m.op \in AAskOps, NEW step \in A!Auth(s, c, m)
  PROVE  ADone(s.clients, c, m, step.s, step.out)
<1> DEFINE t == [s EXCEPT !.pending[c] = @ \ {m.spi}]
           u == [t EXCEPT !.eapPending[c] = @ \cup {m.spi}]
<1>1. m.spi \in Nat
  BY DEF AMsg
<1>2. /\ t \in AServer /\ t.clients = s.clients /\ t.leases = s.leases /\ t.lastAuth = s.lastAuth /\ AHolders(t)
      /\ u \in AServer /\ u.clients = s.clients /\ u.leases = s.leases /\ u.lastAuth = s.lastAuth
  <2>1. AStays(s, t) /\ AStays(s, u)
    BY <1>1, APends
  <2>2. QED BY <2>1 DEF AStays
<1>3. "eap" \in AOps \ {"assigned"} /\ FALSE \in BOOLEAN
  BY DEF AOps
<1>4. \A x, out : A!Serve(x, out).s = x /\ A!Serve(x, out).out = out
  BY DEF A!Serve
<1>5. CASE m.spi \notin s.pending[c]
  <2>1. step.s = s /\ (step.out = A!Msg("eap", m.spi, 0) \/ step.out = <<>>)
    BY <1>5 DEF A!Auth, A!Serve
  <2>2. ADone(s.clients, c, m, s, A!Msg("eap", m.spi, 0)) /\ ADone(s.clients, c, m, s, <<>>)
    BY <1>3, ATells
  <2>3. QED BY <2>1, <2>2
<1>6. CASE m.spi \in s.pending[c] /\ raWrong[c] = "psk"
  <2>1. step = A!FinalAuth(t, c, FALSE, "refused", m.spi, 0)
    BY <1>6 DEF A!Auth
  <2> HIDE DEF t
  <2>2. ADone(t.clients, c, m, step.s, step.out)
    BY <1>2, <1>3, <2>1, ARefuses
  <2>3. QED BY <1>2, <2>2
<1>7. CASE m.spi \in s.pending[c] /\ raWrong[c] # "psk" /\ s.accounts
  <2>1. step = A!Serve(u, A!Msg("eap", m.spi, 0))
    BY <1>7 DEF A!Auth
  <2> HIDE DEF t, u
  <2>2. ADone(s.clients, c, m, u, A!Msg("eap", m.spi, 0))
    BY <1>2, <1>3, ATells
  <2>3. QED BY <1>4, <2>1, <2>2
<1>8. CASE m.spi \in s.pending[c] /\ raWrong[c] # "psk" /\ ~ s.accounts
  <2>1. step \in A!Grant(t, c, m.spi, FALSE)
    BY <1>8 DEF A!Auth
  <2> HIDE DEF t, u
  <2>2. ADone(t.clients, c, m, step.s, step.out)
    BY <1>2, <1>3, <2>1, AGrants
  <2>3. QED BY <1>2, <2>2
<1>9. QED BY <1>5, <1>6, <1>7, <1>8

LEMMA AEaps ==
  ASSUME NEW s \in AServer, AHolders(s), NEW c \in RaClients, NEW m \in AMsg, m.op \in AAskOps, NEW step \in A!Eap(s, c, m)
  PROVE  ADone(s.clients, c, m, step.s, step.out)
<1> DEFINE t == [s EXCEPT !.eapPending[c] = @ \ {m.spi}]
<1>1. m.spi \in Nat
  BY DEF AMsg
<1>2. t \in AServer /\ t.clients = s.clients /\ t.leases = s.leases /\ t.lastAuth = s.lastAuth /\ AHolders(t)
  <2>1. AStays(s, t)
    BY <1>1, APends
  <2>2. QED BY <2>1 DEF AStays
<1>3. "eap" \in AOps \ {"assigned"} /\ TRUE \in BOOLEAN
  BY DEF AOps
<1>4. CASE m.spi \notin s.eapPending[c]
  <2>1. step.s = s /\ step.out = <<>>
    BY <1>4 DEF A!Eap, A!Serve
  <2>2. ADone(s.clients, c, m, s, <<>>)
    BY <1>3, ATells
  <2>3. QED BY <2>1, <2>2
<1>5. CASE m.spi \in s.eapPending[c] /\ s.accounts /\ raWrong[c] = "account"
  <2>1. step = A!FinalAuth(t, c, TRUE, "refused", m.spi, 0)
    BY <1>5 DEF A!Eap
  <2> HIDE DEF t
  <2>2. ADone(t.clients, c, m, step.s, step.out)
    BY <1>2, <1>3, <2>1, ARefuses
  <2>3. QED BY <1>2, <2>2
<1>6. CASE m.spi \in s.eapPending[c] /\ ~ (s.accounts /\ raWrong[c] = "account")
  <2>1. step \in A!Grant(t, c, m.spi, TRUE)
    BY <1>6 DEF A!Eap
  <2> HIDE DEF t
  <2>2. ADone(t.clients, c, m, step.s, step.out)
    BY <1>2, <1>3, <2>1, AGrants
  <2>3. QED BY <1>2, <2>2
<1>7. QED BY <1>4, <1>5, <1>6

\* A tunnel is taken down at the server: lease, client and last answer are gone.
LEMMA ADeletes ==
  ASSUME NEW s \in AServer, AHolders(s), NEW c \in RaClients, NEW m \in AMsg
  PROVE  ADone(s.clients, c, m, [s EXCEPT !.clients[c] = A!NoClient, !.leases[c] = 0, !.lastAuth[c] = A!NoAnswer], <<>>)
<1> DEFINE x == [s EXCEPT !.clients[c] = A!NoClient, !.leases[c] = 0, !.lastAuth[c] = A!NoAnswer]
<1>1. A!NoClient \in AClient /\ A!NoClient.spi = 0 /\ A!NoClient.vip = 0
  BY DEF A!NoClient, AClient
<1>2. A!NoAnswer \in AAnswer /\ A!NoAnswer.op # "assigned"
  BY DEF A!NoAnswer, AAnswer
<1>3. /\ x \in AServer /\ x.clients[c] = A!NoClient /\ x.leases[c] = 0 /\ x.lastAuth[c] = A!NoAnswer
      /\ \A d \in RaClients \ {c} : x.clients[d] = s.clients[d] /\ x.leases[d] = s.leases[d] /\ x.lastAuth[d] = s.lastAuth[d]
  BY <1>1, <1>2 DEF AServer
<1> HIDE DEF x
<1>4. AHolders(x)
  <2>1. ASSUME NEW d \in RaClients, NEW e \in RaClients, d # e, x.leases[d] # 0 PROVE x.leases[d] # x.leases[e]
    BY <1>3, <2>1 DEF AHolders
  <2>2. ASSUME NEW d \in RaClients, x.clients[d].vip # 0 PROVE x.leases[d] = x.clients[d].vip
    BY <1>1, <1>3, <2>2 DEF AHolders
  <2>3. ASSUME NEW d \in RaClients, x.lastAuth[d].op = "assigned", x.clients[d].spi = x.lastAuth[d].spi
        PROVE  x.clients[d].vip = x.lastAuth[d].v
    BY <1>2, <1>3, <2>3 DEF AHolders
  <2>4. QED BY <2>1, <2>2, <2>3 DEF AHolders
<1>5. <<>> \in Seq(AMsg) /\ ASays(m, x.clients[c], <<>>)
  BY ASaysNothing
<1>6. ADone(s.clients, c, m, x, <<>>)
  BY <1>1, <1>3, <1>4, <1>5 DEF ADone, ADoes
<1>7. QED BY <1>6 DEF x

LEMMA AIkeDone ==
  ASSUME NEW s \in AServer, AHolders(s), NEW c \in RaClients, NEW m \in AMsg, NEW step \in A!HandleIke(s, c, m)
  PROVE  ADone(s.clients, c, m, step.s, step.out)
<1>1. m.spi \in Nat
  BY DEF AMsg
<1>2. CASE m.op = "init"
  <2> DEFINE t == [s EXCEPT !.pending[c] = @ \cup {m.spi}]
  <2>1. step.s = t /\ step.out = A!Msg("init", m.spi, 0)
    BY <1>2 DEF A!HandleIke, A!Serve
  <2>2. t \in AServer /\ t.clients = s.clients /\ t.leases = s.leases /\ t.lastAuth = s.lastAuth
    <3>1. AStays(s, t)
      BY <1>1, APends
    <3>2. QED BY <3>1 DEF AStays
  <2> HIDE DEF t
  <2>3. "init" \in AOps \ {"assigned"} /\ m.op \in AAskOps
    BY <1>2 DEF AOps, AAskOps, ABeside
  <2>4. ADone(s.clients, c, m, t, A!Msg("init", m.spi, 0))
    BY <2>2, <2>3, ATells
  <2>5. QED BY <2>1, <2>4
<1>3. CASE m.op = "dpd" \/ m.op = "esp"
  <2>1. step.s = s /\ step.out \in {A!Msg("alive", m.spi, 0), A!Msg("invalid", m.spi, 0), <<>>}
    BY <1>3 DEF A!HandleIke, A!Serve
  <2>2. "alive" \in AOps \ {"assigned"} /\ "invalid" \in AOps \ {"assigned"} /\ "alive" \notin AReplyOps /\ "invalid" \notin AReplyOps
    BY DEF AOps, AReplyOps
  <2>3. ADone(s.clients, c, m, s, A!Msg("alive", m.spi, 0)) /\ ADone(s.clients, c, m, s, <<>>)
    BY <2>2, ATells
  <2>4. ADone(s.clients, c, m, s, A!Msg("invalid", m.spi, 0))
    BY <2>2, ATells
  <2>5. QED BY <2>1, <2>3, <2>4
<1>4. CASE m.op = "delete"
  <2> DEFINE x == [s EXCEPT !.clients[c] = A!NoClient, !.leases[c] = 0, !.lastAuth[c] = A!NoAnswer]
  <2>1. step.s = x /\ step.out = <<>>
    BY <1>4 DEF A!HandleIke, A!Serve
  <2>2. ADone(s.clients, c, m, x, <<>>)
    BY ADeletes
  <2> HIDE DEF x
  <2>3. QED BY <2>1, <2>2
<1> DEFINE other == m.op \notin {"init", "dpd", "esp", "delete"}
<1>5. other => m.op \in AAskOps
  BY DEF AMsg, AAskOps, ABeside
<1>6. CASE other /\ A!Answered(s, c, m)
  <2> DEFINE e == s.lastAuth[c]
  <2>1. step.s = s /\ step.out = A!Msg(e.op, m.spi, e.v)
    BY <1>6 DEF A!HandleIke, A!Serve
  <2>2. e \in AAnswer /\ e.spi = m.spi
    BY <1>6 DEF AServer, A!Answered
  <2>3. e.op = "assigned" => (s.clients[c].spi = m.spi => s.clients[c].vip = e.v)
    BY <2>2 DEF AHolders
  <2> HIDE DEF e
  <2>4. e.op \in AOps /\ e.v \in Nat
    BY <2>2 DEF AAnswer, AOps
  <2>5. A!Msg(e.op, m.spi, e.v) \in Seq(AMsg) /\ ASays(m, s.clients[c], A!Msg(e.op, m.spi, e.v))
    BY <1>5, <1>6, <2>3, <2>4, ASaysPlain
  <2>6. ADone(s.clients, c, m, s, A!Msg(e.op, m.spi, e.v))
    BY <2>5, ADoneStill
  <2>7. QED BY <2>1, <2>6
<1>7. CASE other /\ ~ A!Answered(s, c, m) /\ m.op = "auth"
  <2>1. step \in A!Auth(s, c, m)
    BY <1>7 DEF A!HandleIke
  <2>2. QED BY <1>5, <1>7, <2>1, AAuths
<1>8. CASE other /\ ~ A!Answered(s, c, m) /\ m.op # "auth"
  <2>1. step \in A!Eap(s, c, m)
    BY <1>8 DEF A!HandleIke
  <2>2. QED BY <1>5, <1>8, <2>1, AEaps
<1>9. QED BY <1>2, <1>3, <1>4, <1>6, <1>7, <1>8

-------------------------------------------------------------------------------
(* Remote access: a laptop and the server's record of it *)

AAskOf(spi)   == {m \in AMsg : m.op \in AAskOps /\ m.spi = spi}
AReplyOf(spi) == {m \in AMsg : m.op \in AReplyOps /\ m.spi = spi}

\* While a laptop, its lines to (q) and from (r) the server and the server's record (a) of it are in an attempt or a tunnel,
\* one request (of what was asked last) or answer is under way at most, and the address named to it last is the recorded one.
ALine(x, q, r, a) ==
  x.state \in {"init", "auth", "up"} =>
    /\ x.spi # 0
    /\ Token(q, r, AAskOf(x.spi), AReplyOf(x.spi))
    /\ x.state # "up" => x.asked \in {"init", "auth", "eap"} /\ \A i \in Mine(q, AAskOf(x.spi)) : q[i].op = x.asked
    /\ x.state = "up" => NoToken(q, r, AAskOf(x.spi), AReplyOf(x.spi)) /\ (a.spi = x.spi => a.vip = x.vip)
                         /\ x.asked \in {"none", "dpd"}
    /\ \A i \in Mine(r, AReplyOf(x.spi)) : r[i].op = "assigned" /\ a.spi = x.spi => a.vip = r[i].v

LEMMA ALineServed ==
  ASSUME NEW x \in ALaptop, NEW q \in Seq(AMsg), NEW r \in Seq(AMsg), NEW a \in AClient, NEW b \in AClient, NEW out \in Seq(AMsg),
         q # <<>>, ALine(x, q, r, a), ADoes(Head(q), a, b), ASays(Head(q), b, out)
  PROVE  ALine(x, Tail(q), r \o out, b)
<1> DEFINE Qs == AAskOf(x.spi)
           Rs == AReplyOf(x.spi)
           m == Head(q)
<1> SUFFICES ASSUME x.state \in {"init", "auth", "up"} PROVE ALine(x, Tail(q), r \o out, b)
  BY DEF ALine
<1>1. x.spi # 0 /\ Token(q, r, Qs, Rs)
  BY DEF ALine
<1>2. m \in AMsg /\ (m \in Qs <=> m.spi = x.spi /\ m.op \in AAskOps)
  BY SeqOf DEF AAskOf
<1>3. Few(Mine(out, Rs)) /\ (Mine(out, Rs) # {} => m \in Qs)
  <2>1. CASE out = <<>>
    BY <2>1, FewOne
  <2>2. ASSUME NEW n \in AMsg, out = <<n>>, n.spi = m.spi, n.op \in AReplyOps => m.op \in AAskOps
        PROVE  Few(Mine(out, Rs)) /\ (Mine(out, Rs) # {} => m \in Qs)
    <3>1. n \in Rs => m \in Qs
      BY <1>2, <2>2 DEF AReplyOf
    <3>2. QED BY <2>2, <3>1, FewOne
  <2>3. QED BY <2>1, <2>2 DEF ASays
<1>4. Token(Tail(q), r \o out, Qs, Rs)
  BY <1>1, <1>3, TokenTurn
<1>5. m \notin Qs /\ b.spi = x.spi => a = b
  BY <1>1, <1>2 DEF ADoes
<1>6. ASSUME x.state = "up" PROVE NoToken(Tail(q), r \o out, Qs, Rs) /\ (b.spi = x.spi => b.vip = x.vip)
  <2>1. NoToken(q, r, Qs, Rs) /\ (a.spi = x.spi => a.vip = x.vip)
    BY <1>6 DEF ALine
  <2>2. NoToken(Tail(q), r \o out, Qs, Rs) /\ m \notin Qs
    BY <1>3, <2>1, NoTokenTurn
  <2>3. QED BY <1>5, <2>1, <2>2
<1>7. ASSUME x.state # "up" PROVE \A i \in Mine(Tail(q), Qs) : Tail(q)[i].op = x.asked
  <2>1. \A i \in Mine(Tail(q), Qs) : i + 1 \in Mine(q, Qs) /\ Tail(q)[i] = q[i + 1]
    BY SeqOf DEF Mine
  <2>2. QED BY <1>7, <2>1 DEF ALine
<1>8. ASSUME NEW i \in Mine(r \o out, Rs), (r \o out)[i].op = "assigned", b.spi = x.spi PROVE b.vip = (r \o out)[i].v
  <2>1. CASE i \in DOMAIN r /\ (r \o out)[i] = r[i]
    <3>1. i \in Mine(r, Rs)
      BY <1>8, <2>1 DEF Mine
    <3>2. m \notin Qs
      <4>1. Mine(q, Qs) = {}
        BY <1>1, <3>1 DEF Token
      <4>2. QED BY <4>1, SeqOf DEF Mine
    <3>3. a = b
      BY <1>5, <1>8, <3>2
    <3>4. QED BY <1>8, <2>1, <3>1, <3>3 DEF ALine
  <2>2. CASE i \in Nat /\ i > Len(r) /\ i - Len(r) \in DOMAIN out /\ (r \o out)[i] = out[i - Len(r)]
    <3>1. PICK n \in AMsg : out = <<n>> /\ n.spi = m.spi /\ (n.op = "assigned" /\ b.spi = m.spi => b.vip = n.v)
      BY <2>2 DEF ASays
    <3>2. (r \o out)[i] = n
      BY <2>2, <3>1
    <3>3. n.spi = x.spi
      BY <1>8, <3>2 DEF Mine, AReplyOf
    <3>4. QED BY <1>8, <3>1, <3>2, <3>3
  <2>3. i \in DOMAIN (r \o out)
    BY <1>8 DEF Mine
  <2>4. QED BY <2>1, <2>2, <2>3, SeqMore
<1> HIDE DEF Qs, Rs
<1>9. QED BY <1>1, <1>4, <1>6, <1>7, <1>8 DEF ALine, Qs, Rs

\* A message is lost on the way, or taken without effect.
LEMMA ALineLost ==
  ASSUME NEW x \in ALaptop, NEW q \in Seq(AMsg), NEW r \in Seq(AMsg), NEW a \in AClient, ALine(x, q, r, a)
  PROVE  /\ q # <<>> => ALine(x, Tail(q), r, a)
         /\ r # <<>> => ALine(x, q, Tail(r), a)
<1> DEFINE Qs == AAskOf(x.spi)
           Rs == AReplyOf(x.spi)
<1> SUFFICES ASSUME x.state \in {"init", "auth", "up"}
             PROVE  (q # <<>> => ALine(x, Tail(q), r, a)) /\ (r # <<>> => ALine(x, q, Tail(r), a))
  BY DEF ALine
<1>1. ASSUME q # <<>> PROVE ALine(x, Tail(q), r, a)
  <2>1. Token(Tail(q), r, Qs, Rs) /\ (NoToken(q, r, Qs, Rs) => NoToken(Tail(q), r, Qs, Rs))
    BY <1>1, TokenLost DEF ALine
  <2>2. \A i \in Mine(Tail(q), Qs) : i + 1 \in Mine(q, Qs) /\ Tail(q)[i] = q[i + 1]
    BY <1>1, SeqOf DEF Mine
  <2>3. QED BY <2>1, <2>2 DEF ALine
<1>2. ASSUME r # <<>> PROVE ALine(x, q, Tail(r), a)
  <2>1. Token(q, Tail(r), Qs, Rs) /\ (NoToken(q, r, Qs, Rs) => NoToken(q, Tail(r), Qs, Rs))
    BY <1>2, TokenLost, TokenBack DEF ALine
  <2>2. \A i \in Mine(Tail(r), Rs) : i + 1 \in Mine(r, Rs) /\ Tail(r)[i] = r[i + 1]
    BY <1>2, SeqOf DEF Mine
  <2>3. QED BY <2>1, <2>2 DEF ALine
<1>3. QED BY <1>1, <1>2

\* What a laptop asks, of its attempt: nothing of it was under way.
LEMMA ALineAsks ==
  ASSUME NEW x \in ALaptop, x.state \in {"init", "auth"}, x.asked \in {"init", "auth", "eap"}, x.spi # 0,
         NEW q \in Seq(AMsg), NEW r \in Seq(AMsg), NEW a, NEW v \in Nat, NoToken(q, r, AAskOf(x.spi), AReplyOf(x.spi))
  PROVE  A!Msg(x.asked, x.spi, v) \in Seq(AMsg) /\ ALine(x, q \o A!Msg(x.asked, x.spi, v), r, a)
<1> DEFINE Qs == AAskOf(x.spi)
           Rs == AReplyOf(x.spi)
           out == A!Msg(x.asked, x.spi, v)
<1>1. x.asked \in AOps /\ x.spi \in Nat
  BY DEF AOps, ALaptop
<1>2. out \in Seq(AMsg) /\ \E n \in AMsg : out = <<n>> /\ n.op = x.asked
  BY <1>1, AAnswers
<1> HIDE DEF Qs, Rs, out
<1>3. Few(Mine(out, Qs))
  BY <1>2, FewOne
<1>4. Token(q \o out, r, Qs, Rs)
  BY <1>2, <1>3, TokenAsked DEF Qs, Rs
<1>5. \A i \in Mine(q \o out, Qs) : (q \o out)[i].op = x.asked
  <2>1. Mine(q, Qs) = {}
    BY DEF NoToken, Qs
  <2>2. \A i \in DOMAIN out : out[i].op = x.asked
    BY <1>2
  <2>3. QED BY <1>2, <2>1, <2>2, SeqMore DEF Mine
<1>6. Mine(r, Rs) = {}
  BY DEF NoToken, Rs
<1>7. QED BY <1>2, <1>4, <1>5, <1>6 DEF ALine, Qs, Rs, out

\* What a laptop says beside.
LEMMA ALineBeside ==
  ASSUME NEW x \in ALaptop, NEW q \in Seq(AMsg), NEW r \in Seq(AMsg), NEW a \in AClient, ALine(x, q, r, a),
         NEW y \in ALaptop, y.state = x.state, y.spi = x.spi, y.vip = x.vip, x.state = "up", y.asked \in {"none", "dpd"},
         NEW op \in ABeside, NEW v \in Nat
  PROVE  A!Msg(op, x.spi, v) \in Seq(AMsg) /\ ALine(y, q \o A!Msg(op, x.spi, v), r, a)
<1> DEFINE Qs == AAskOf(x.spi)
           Rs == AReplyOf(x.spi)
           out == A!Msg(op, x.spi, v)
<1>1. op \in AOps /\ x.spi \in Nat /\ op \notin AAskOps
  BY DEF AOps, ALaptop, ABeside, AAskOps
<1>2. out \in Seq(AMsg) /\ \E n \in AMsg : out = <<n>> /\ n.op = op
  BY <1>1, AAnswers
<1> HIDE DEF out
<1>3. Mine(out, Qs) = {} /\ Few(Mine(out, Qs))
  BY <1>1, <1>2, FewOne DEF AAskOf
<1>4. x.spi # 0 /\ NoToken(q, r, Qs, Rs) /\ (a.spi = x.spi => a.vip = x.vip)
  BY DEF ALine
<1>5. Token(q \o out, r, Qs, Rs) /\ (Mine(out, Qs) = {} => NoToken(q \o out, r, Qs, Rs))
  BY <1>2, <1>3, <1>4, TokenAsked
<1>6. Mine(r, Rs) = {}
  BY <1>4 DEF NoToken
<1>7. ALine(y, q \o out, r, a)
  BY <1>3, <1>4, <1>5, <1>6 DEF ALine
<1>8. QED BY <1>2, <1>7 DEF out

\* The server forgets the laptop.
LEMMA ALineForgotten ==
  ASSUME NEW x, NEW q, NEW r, NEW a, NEW b, ALine(x, q, r, a), b.spi = 0
  PROVE  ALine(x, q, r, b)
BY DEF ALine

\* A new number is one, and no message under way has it.
LEMMA ANewSpi ==
  ASSUME AType, NEW c \in RaClients
  PROVE  /\ A!NewSpi(c) \in Nat \ {0}
         /\ \A i \in DOMAIN raAsks[c] : raAsks[c][i].spi # A!NewSpi(c)
         /\ \A i \in DOMAIN raTells[c] : raTells[c][i].spi # A!NewSpi(c)
<1> DEFINE U == A!UsedSpis(c)
           q == raAsks[c]
           r == raTells[c]
           A1 == {ra[c].spi, raServer.clients[c].spi}
           A2 == {raServer.lastAuth[c].spi, raServer.lastAuth[c].spi}
           B1 == raServer.pending[c]
           B2 == raServer.eapPending[c]
<1>1. q \in Seq(AMsg) /\ r \in Seq(AMsg)
  BY DEF AType
<1>2. IsFiniteSet(B1) /\ IsFiniteSet(B2)
  BY DEF AType, AServer, LSpis
<1>3. IsFiniteSet(A1) /\ IsFiniteSet(A2)
  <2> HIDE DEF q, r
  <2>1. QED BY PairFinite
<1>4. IsFiniteSet(A!Spis(q))
  <2> DEFINE f == [i \in DOMAIN q |-> q[i].spi]
             S == A!Spis(q)
  <2> SUFFICES IsFiniteSet(S)
    OBVIOUS
  <2>1. DOMAIN f = DOMAIN q /\ S = {f[i] : i \in DOMAIN q}
    BY DEF A!Spis
  <2> HIDE DEF f, q, S
  <2>2. QED BY <1>1, <2>1, NumbersFinite
<1>5. IsFiniteSet(A!Spis(r))
  <2> DEFINE f == [i \in DOMAIN r |-> r[i].spi]
             S == A!Spis(r)
  <2> SUFFICES IsFiniteSet(S)
    OBVIOUS
  <2>1. DOMAIN f = DOMAIN r /\ S = {f[i] : i \in DOMAIN r}
    BY DEF A!Spis
  <2> HIDE DEF f, r, S
  <2>2. QED BY <1>1, <2>1, NumbersFinite
<1>6. U = A1 \cup A2 \cup B1 \cup B2 \cup A!Spis(q) \cup A!Spis(r)
  BY DEF A!UsedSpis
<1> HIDE DEF A1, A2, B1, B2, U
<1>7. IsFiniteSet(U)
  <2>1. IsFiniteSet(A1 \cup A2)
    BY <1>3, FS_Union
  <2>2. IsFiniteSet(A1 \cup A2 \cup B1)
    BY <1>2, <2>1, FS_Union
  <2>3. IsFiniteSet(A1 \cup A2 \cup B1 \cup B2)
    BY <1>2, <2>2, FS_Union
  <2>4. IsFiniteSet(A1 \cup A2 \cup B1 \cup B2 \cup A!Spis(q))
    BY <1>4, <2>3, FS_Union
  <2>5. QED BY <1>5, <1>6, <2>4, FS_Union
<1>8. A!NewSpi(c) = (CHOOSE n \in 1 .. Cardinality(U) + 1 : n \notin U)
  <2>1. A!Cardinality(U) = Cardinality(U)
    BY DEF A!Cardinality, Cardinality
  <2>2. QED BY <2>1 DEF A!NewSpi, U
<1>9. A!NewSpi(c) \in Nat \ {0} /\ A!NewSpi(c) \notin U
  BY <1>7, <1>8, ChosenIs DEF Chosen
<1>10. \A i \in DOMAIN q : q[i].spi \in U
  BY <1>6 DEF A!Spis
<1>11. \A i \in DOMAIN r : r[i].spi \in U
  BY <1>6 DEF A!Spis
<1>12. QED BY <1>9, <1>10, <1>11

\* A laptop gives up, asks, hears that the server is alive, or is up.
AAlive(x) == [x EXCEPT !.asked = "none", !.tries = 0]
AUp(x, v) == [x EXCEPT !.state = "up", !.asked = "none", !.tries = 0, !.vip = v]

LEMMA AFails ==
  ASSUME NEW x \in ALaptop, NEW why \in {"none", "timeout", "dpd", "refused"}
  PROVE  A!Fail(x, why).x \in ALaptop /\ A!Fail(x, why).x.state = "failed" /\ A!Fail(x, why).out = <<>>
<1> DEFINE y == [x EXCEPT !.state = "failed", !.asked = "none", !.tries = 0, !.vip = 0, !.why = why]
<1>1. y \in ALaptop /\ y.state = "failed"
  BY DEF ALaptop
<1>2. A!Fail(x, why) = [x |-> y, out |-> <<>>]
  BY DEF A!Fail, A!Still
<1> HIDE DEF y
<1>3. QED BY <1>1, <1>2

LEMMA ARequests ==
  ASSUME NEW x \in ALaptop, NEW op \in {"init", "auth", "eap", "dpd"}
  PROVE  /\ A!Request(x, op).x \in ALaptop /\ A!Request(x, op).x.asked = op /\ A!Request(x, op).x.state = x.state
         /\ A!Request(x, op).x.spi = x.spi /\ A!Request(x, op).x.vip = x.vip
         /\ A!Request(x, op).out = A!Msg(op, x.spi, x.vip)
<1> DEFINE y == [x EXCEPT !.asked = op, !.tries = 0]
<1>1. y \in ALaptop /\ y.asked = op /\ y.state = x.state /\ y.spi = x.spi /\ y.vip = x.vip
  BY DEF ALaptop
<1>2. A!Request(x, op) = [x |-> y, out |-> A!Msg(op, x.spi, x.vip)]
  BY DEF A!Request
<1> HIDE DEF y
<1>3. QED BY <1>1, <1>2

LEMMA AComesUp ==
  ASSUME NEW x \in ALaptop, NEW v \in Nat
  PROVE  /\ AUp(x, v) \in ALaptop /\ AUp(x, v).state = "up" /\ AUp(x, v).vip = v /\ AUp(x, v).spi = x.spi
         /\ AUp(x, v).asked = "none"
         /\ AAlive(x) \in ALaptop /\ AAlive(x).state = x.state /\ AAlive(x).vip = x.vip /\ AAlive(x).spi = x.spi
         /\ AAlive(x).asked = "none"
BY DEF ALaptop, AUp, AAlive

\* An attempt begins, with a number that is not in use.
LEMMA ALineBegins ==
  ASSUME NEW c \in RaClients, NEW q \in Seq(AMsg), NEW r \in Seq(AMsg), NEW a \in AClient, NEW bye \in Seq(AMsg), AType,
         \A i \in DOMAIN q : q[i].spi # A!NewSpi(c), \A i \in DOMAIN r : r[i].spi # A!NewSpi(c),
         \A i \in DOMAIN bye : bye[i].op \in ABeside, A!NewSpi(c) \in Nat \ {0}
  PROVE  /\ A!Connect(c).x \in ALaptop /\ A!Connect(c).out \in Seq(AMsg)
         /\ ALine(A!Connect(c).x, q \o (bye \o A!Connect(c).out), r, a)
<1> DEFINE spi == A!NewSpi(c)
           Qs == AAskOf(spi)
           Rs == AReplyOf(spi)
           y == [A!Off(ra[c].dpd) EXCEPT !.spi = A!NewSpi(c), !.state = "init"]
           x == A!Connect(c).x
           out == A!Connect(c).out
<1>1. A!Connect(c) = A!Request(y, "init")
  BY DEF A!Connect
<1>2. y \in ALaptop /\ y.state = "init" /\ y.spi = spi /\ y.vip = 0
  <2>1. ra[c].dpd \in BOOLEAN
    BY DEF AType, ALaptop
  <2>2. QED BY <2>1 DEF A!Off, ALaptop
<1> HIDE DEF y
<1>3. x \in ALaptop /\ x.state = "init" /\ x.spi = spi /\ x.asked = "init" /\ out = A!Msg("init", spi, 0)
  BY <1>1, <1>2, ARequests
<1> DEFINE p == q \o bye
<1>4. p \in Seq(AMsg)
  BY SeqMore
<1>5. NoToken(q, r, Qs, Rs)
  BY DEF NoToken, Mine, AAskOf, AReplyOf
<1>6. Mine(bye, Qs) = {}
  BY DEF Mine, AAskOf, AAskOps
<1>7. NoToken(p, r, Qs, Rs)
  <2>1. Mine(p, Qs) = {}
    BY <1>5, <1>6, MineMore DEF NoToken
  <2>2. QED BY <1>5, <2>1 DEF NoToken
<1>8. spi # 0
  OBVIOUS
<1> HIDE DEF x, out, p, spi
<1>9. out \in Seq(AMsg) /\ ALine(x, p \o out, r, a)
  BY <1>3, <1>4, <1>7, <1>8, ALineAsks
<1>10. p \o out = q \o (bye \o out)
  BY <1>9 DEF p
<1>11. QED BY <1>3, <1>9, <1>10 DEF x, out

\* An answer to the laptop, of its attempt.
LEMMA ALineHeard ==
  ASSUME AType, NEW c \in RaClients, NEW a \in AClient, ALine(ra[c], raAsks[c], raTells[c], a),
         raTells[c] # <<>>, Head(raTells[c]).spi = ra[c].spi
  PROVE  LET step == A!Heard(c, ra[c], Head(raTells[c]))
         IN  step.x \in ALaptop /\ step.out \in Seq(AMsg) /\ ALine(step.x, raAsks[c] \o step.out, Tail(raTells[c]), a)
<1> DEFINE x == ra[c]
           q == raAsks[c]
           r == raTells[c]
           m == Head(r)
           step == A!Heard(c, x, m)
           Qs == AAskOf(x.spi)
           Rs == AReplyOf(x.spi)
<1>1. x \in ALaptop /\ q \in Seq(AMsg) /\ r \in Seq(AMsg) /\ r # <<>> /\ ALine(x, q, r, a) /\ m.spi = x.spi
  BY DEF AType
<1>2. m \in AMsg /\ Tail(r) \in Seq(AMsg) /\ r[1] = m /\ 1 \in DOMAIN r
  BY <1>1, SeqOf
<1>3. q \o <<>> = q
  BY <1>1
<1>4. ALine(x, q, Tail(r), a)
  <2> HIDE DEF x, q, r
  <2>1. QED BY <1>1, ALineLost
<1> SUFFICES step.x \in ALaptop /\ step.out \in Seq(AMsg) /\ ALine(step.x, q \o step.out, Tail(r), a)
  OBVIOUS
<1> DEFINE renews == m.op = "invalid" /\ x.state = "up"
           lives  == m.op = "alive" /\ x.asked = "dpd"
           begins == m.op = "init" /\ x.state = "init"
<1>5. CASE renews
  <2>1. step = A!Connect(c)
    BY <1>5 DEF A!Heard
  <2>2. \A i \in DOMAIN Tail(r) : Tail(r)[i].spi # A!NewSpi(c)
    BY <1>1, ANewSpi, SeqOf
  <2>3. /\ A!Connect(c).x \in ALaptop /\ A!Connect(c).out \in Seq(AMsg)
        /\ ALine(A!Connect(c).x, q \o (<<>> \o A!Connect(c).out), Tail(r), a)
    <3>1. <<>> \in Seq(AMsg) /\ \A i \in DOMAIN <<>> : <<>>[i].op \in ABeside
      OBVIOUS
    <3> HIDE DEF x, q, r
    <3>2. QED BY <1>1, <1>2, <2>2, <3>1, ANewSpi, ALineBegins DEF q
  <2>4. <<>> \o A!Connect(c).out = A!Connect(c).out
    BY <2>3
  <2>5. QED BY <2>1, <2>3, <2>4
<1>6. CASE ~ renews /\ lives
  <2>1. step = A!Still(AAlive(x))
    BY <1>6 DEF A!Heard, AAlive
  <2>2. step.x = AAlive(x) /\ step.out = <<>>
    BY <2>1 DEF A!Still
  <2> HIDE DEF x, q, r, step
  <2>3. AAlive(x) \in ALaptop /\ AAlive(x).state = x.state /\ AAlive(x).vip = x.vip /\ AAlive(x).spi = x.spi
        /\ AAlive(x).asked = "none"
    BY <1>1, AComesUp
  <2>4. x.state \in {"init", "auth", "up"} => x.state = "up"
    BY <1>1, <1>6 DEF ALine
  <2> DEFINE y == AAlive(x)
  <2> HIDE DEF y
  <2>5. ALine(y, q, Tail(r), a)
    BY <1>4, <2>3, <2>4 DEF ALine, y
  <2>6. QED BY <1>3, <2>2, <2>3, <2>5 DEF y
<1>7. ASSUME x.state \in {"init", "auth"}, m \in Rs, NEW z \in ALaptop, z.state \in {"init", "auth"}, z.spi = x.spi,
             NEW op \in {"init", "auth", "eap"}, step = A!Request(z, op)
      PROVE  step.x \in ALaptop /\ step.out \in Seq(AMsg) /\ ALine(step.x, q \o step.out, Tail(r), a)
  <2> DEFINE y == step.x
  <2> HIDE DEF x, q, r, m, step
  <2>1. y \in ALaptop /\ y.asked = op /\ y.state = z.state /\ y.spi = x.spi /\ step.out = A!Msg(op, y.spi, z.vip)
    BY <1>7, ARequests
  <2>2. Token(q, r, Qs, Rs) /\ x.spi # 0
    BY <1>1, <1>7 DEF ALine
  <2>3. NoToken(q, Tail(r), Qs, Rs)
    BY <1>1, <1>7, <2>2, TokenEnds, TokenBack DEF m
  <2>4. z.vip \in Nat
    BY DEF ALaptop
  <2> HIDE DEF y
  <2>5. A!Msg(op, y.spi, z.vip) \in Seq(AMsg) /\ ALine(y, q \o A!Msg(op, y.spi, z.vip), Tail(r), a)
    BY <1>1, <1>2, <1>7, <2>1, <2>2, <2>3, <2>4, ALineAsks
  <2>6. QED BY <2>1, <2>5 DEF y
<1>8. CASE ~ renews /\ ~ lives /\ begins
  <2> DEFINE z == [x EXCEPT !.state = "auth"]
  <2>1. step = A!Request(z, "auth")
    BY <1>8 DEF A!Heard
  <2>2. z \in ALaptop /\ z.state = "auth" /\ z.spi = x.spi
    BY <1>1 DEF ALaptop
  <2>3. m \in Rs /\ x.state = "init"
    BY <1>1, <1>2, <1>8 DEF AReplyOf, AReplyOps, AMsg
  <2> HIDE DEF x, q, r, m, step, z
  <2>4. QED BY <1>7, <2>1, <2>2, <2>3
<1> DEFINE other == ~ renews /\ ~ lives /\ ~ begins
<1>9. CASE other /\ (x.state # "auth" \/ m.op \notin {"eap", "refused", "assigned"})
  <2>1. step.x = x /\ step.out = <<>>
    BY <1>9 DEF A!Heard, A!Still
  <2> HIDE DEF x, q, r, m, step
  <2>2. QED BY <1>1, <1>3, <1>4, <2>1
<1>10. CASE other /\ x.state = "auth" /\ m.op = "eap"
  <2>1. step = A!Request(x, "eap")
    BY <1>10 DEF A!Heard
  <2>2. m \in Rs
    BY <1>1, <1>2, <1>10 DEF AReplyOf, AReplyOps, AMsg
  <2> HIDE DEF x, q, r, m, step
  <2>3. QED BY <1>1, <1>7, <1>10, <2>1, <2>2
<1>11. CASE other /\ x.state = "auth" /\ m.op = "refused"
  <2>1. step = A!Fail(x, "refused")
    BY <1>11 DEF A!Heard
  <2> HIDE DEF x, q, r, m, step
  <2>2. step.x \in ALaptop /\ step.x.state = "failed" /\ step.out = <<>>
    BY <1>1, <2>1, AFails
  <2>3. QED BY <2>2 DEF ALine
<1>12. CASE other /\ x.state = "auth" /\ m.op = "assigned"
  <2>1. step.x = AUp(x, m.v) /\ step.out = <<>>
    BY <1>12 DEF A!Heard, A!Still, AUp
  <2>2. m \in Rs /\ m.v \in Nat
    BY <1>1, <1>2, <1>12 DEF AReplyOf, AReplyOps, AMsg
  <2>3. 1 \in Mine(r, Rs) /\ r[1].op = "assigned"
    BY <1>2, <1>12, <2>2 DEF Mine
  <2> DEFINE y == AUp(x, m.v)
  <2> HIDE DEF x, q, r, step, y
  <2>4. y \in ALaptop /\ y.state = "up" /\ y.vip = m.v /\ y.spi = x.spi /\ y.asked = "none"
    BY <1>1, <2>2, AComesUp DEF y
  <2>5. x.spi # 0 /\ Token(q, r, Qs, Rs) /\ (a.spi = x.spi => a.vip = m.v)
    BY <1>1, <1>2, <1>12, <2>3 DEF ALine
  <2>6. NoToken(q, Tail(r), Qs, Rs) /\ Token(q, Tail(r), Qs, Rs)
    BY <1>1, <2>2, <2>5, TokenEnds, TokenBack
  <2>7. Mine(Tail(r), Rs) = {}
    BY <2>6 DEF NoToken
  <2>8. ALine(y, q, Tail(r), a)
    BY <2>4, <2>5, <2>6, <2>7 DEF ALine
  <2>9. QED BY <1>3, <2>1, <2>4, <2>8 DEF y
<1>13. QED BY <1>5, <1>6, <1>8, <1>9, <1>10, <1>11, <1>12

-------------------------------------------------------------------------------
(* Remote access: every step *)

AInv ==
  /\ AType
  /\ AHolders(raServer)
  /\ \A c \in RaClients : ALine(ra[c], raAsks[c], raTells[c], raServer.clients[c])

\* What a step changes is of one laptop.
LEMMA AOneLaptop ==
  ASSUME AInv, NEW c \in RaClients, NEW x \in ALaptop, NEW q \in Seq(AMsg), NEW r \in Seq(AMsg), NEW s \in AServer,
         ra' = [ra EXCEPT ![c] = x], raAsks' = [raAsks EXCEPT ![c] = q], raTells' = [raTells EXCEPT ![c] = r],
         raServer' = s, \A d \in RaClients \ {c} : s.clients[d] = raServer.clients[d], AHolders(s),
         ALine(x, q, r, s.clients[c])
  PROVE  AInv'
<1>1. AType'
  BY DEF AInv, AType
<1>2. AHolders(raServer)'
  BY DEF AHolders
<1>3. ASSUME NEW d \in RaClients PROVE ALine(ra[d], raAsks[d], raTells[d], raServer.clients[d])'
  <2>1. CASE d = c
    <3>1. ra'[d] = x /\ raAsks'[d] = q /\ raTells'[d] = r /\ raServer'.clients[d] = s.clients[c]
      BY <2>1 DEF AInv, AType
    <3>2. QED BY <3>1 DEF ALine
  <2>2. CASE d # c
    <3>1. /\ ra'[d] = ra[d] /\ raAsks'[d] = raAsks[d] /\ raTells'[d] = raTells[d]
          /\ raServer'.clients[d] = raServer.clients[d]
      BY <2>2 DEF AInv, AType
    <3>2. ALine(ra[d], raAsks[d], raTells[d], raServer.clients[d])
      BY DEF AInv
    <3>3. QED BY <3>1, <3>2 DEF ALine
  <2>3. QED BY <2>1, <2>2
<1>4. QED BY <1>1, <1>2, <1>3 DEF AInv

\* What is known of one laptop.
LEMMA AKnown ==
  ASSUME AInv, NEW c \in RaClients
  PROVE  /\ AType /\ AHolders(raServer) /\ raServer \in AServer /\ raServer.clients[c] \in AClient
         /\ ra[c] \in ALaptop /\ raAsks[c] \in Seq(AMsg) /\ raTells[c] \in Seq(AMsg)
         /\ ALine(ra[c], raAsks[c], raTells[c], raServer.clients[c])
         /\ ra = [ra EXCEPT ![c] = ra[c]] /\ raAsks = [raAsks EXCEPT ![c] = raAsks[c]]
         /\ raTells = [raTells EXCEPT ![c] = raTells[c]]
BY DEF AInv, AType, AServer

LEMMA AServerHandles ==
  ASSUME AInv, NEW c \in RaClients, A!ServerHandle(c)
  PROVE  AInv'
<1> DEFINE q == raAsks[c]
           r == raTells[c]
           m == Head(q)
           s == raServer
<1>1. /\ AType /\ AHolders(s) /\ s \in AServer /\ s.clients[c] \in AClient /\ ra[c] \in ALaptop /\ q \in Seq(AMsg)
      /\ r \in Seq(AMsg) /\ ALine(ra[c], q, r, s.clients[c]) /\ ra = [ra EXCEPT ![c] = ra[c]]
  BY AKnown
<1>2. q # <<>> /\ ra' = ra /\ raAsks' = [raAsks EXCEPT ![c] = Tail(q)]
  BY DEF A!ServerHandle
<1>3. m \in AMsg /\ Tail(q) \in Seq(AMsg)
  BY <1>1, <1>2, SeqOf
<1>4. PICK step \in A!HandleIke(s, c, m) : raServer' = step.s /\ raTells' = [raTells EXCEPT ![c] = r \o step.out]
  BY DEF A!ServerHandle
<1> DEFINE x == step.s
           out == step.out
<1> HIDE DEF q, r, s, m
<1>5. ADone(s.clients, c, m, x, out)
  BY <1>1, <1>3, <1>4, AIkeDone
<1> HIDE DEF x, out
<1>6. x \in AServer /\ out \in Seq(AMsg) /\ ADoes(m, s.clients[c], x.clients[c]) /\ ASays(m, x.clients[c], out)
      /\ (\A d \in RaClients \ {c} : x.clients[d] = s.clients[d]) /\ AHolders(x)
  BY <1>5 DEF ADone
<1>7. x.clients[c] \in AClient /\ r \o out \in Seq(AMsg)
  BY <1>1, <1>6 DEF AServer
<1>8. ALine(ra[c], Tail(q), r \o out, x.clients[c])
  BY <1>1, <1>2, <1>6, <1>7, ALineServed DEF m
<1>9. ra' = [ra EXCEPT ![c] = ra[c]] /\ raServer' = x /\ raTells' = [raTells EXCEPT ![c] = r \o out]
  BY <1>1, <1>2, <1>4 DEF x, out
<1>10. \A d \in RaClients \ {c} : x.clients[d] = raServer.clients[d]
  BY <1>6 DEF s
<1>11. QED BY <1>1, <1>2, <1>3, <1>6, <1>7, <1>8, <1>9, <1>10, AOneLaptop

\* A laptop becomes x and says out: nothing else changes but its line.
LEMMA ABecomes ==
  ASSUME AInv, NEW c \in RaClients, NEW x \in ALaptop, NEW out \in Seq(AMsg), NEW r \in Seq(AMsg),
         ra' = [ra EXCEPT ![c] = x], raAsks' = [raAsks EXCEPT ![c] = @ \o out], raTells' = [raTells EXCEPT ![c] = r],
         raServer' = raServer, ALine(x, raAsks[c] \o out, r, raServer.clients[c])
  PROVE  AInv'
<1>1. raServer \in AServer /\ AHolders(raServer) /\ raAsks[c] \in Seq(AMsg)
  BY AKnown
<1>2. raAsks[c] \o out \in Seq(AMsg)
  BY <1>1, SeqMore
<1> DEFINE q == raAsks[c] \o out
<1>3. q \in Seq(AMsg) /\ raAsks' = [raAsks EXCEPT ![c] = q] /\ ALine(x, q, r, raServer.clients[c])
  BY <1>2
<1> HIDE DEF q
<1>4. \A d \in RaClients \ {c} : raServer.clients[d] = raServer.clients[d]
  OBVIOUS
<1>5. QED BY <1>1, <1>3, <1>4, AOneLaptop

LEMMA AClientHandles ==
  ASSUME AInv, NEW c \in RaClients, A!ClientHandle(c)
  PROVE  AInv'
<1> DEFINE q == raAsks[c]
           r == raTells[c]
           m == Head(r)
           step == IF m.spi = ra[c].spi THEN A!Heard(c, ra[c], m) ELSE A!Still(ra[c])
           a == raServer.clients[c]
<1>1. AType /\ a \in AClient /\ ra[c] \in ALaptop /\ q \in Seq(AMsg) /\ r \in Seq(AMsg) /\ ALine(ra[c], q, r, a)
  BY AKnown
<1>2. r # <<>> /\ raTells' = [raTells EXCEPT ![c] = Tail(r)] /\ raServer' = raServer
  BY DEF A!ClientHandle
<1>3. Tail(r) \in Seq(AMsg)
  BY <1>1, <1>2, SeqOf
<1>4. ra' = [ra EXCEPT ![c] = step.x] /\ raAsks' = [raAsks EXCEPT ![c] = @ \o step.out]
  BY DEF A!ClientHandle, A!Become
<1>5. step.x \in ALaptop /\ step.out \in Seq(AMsg) /\ ALine(step.x, q \o step.out, Tail(r), a)
  <2>1. CASE m.spi = ra[c].spi
    <3>1. step = A!Heard(c, ra[c], m)
      BY <2>1
    <3>2. LET st == A!Heard(c, ra[c], m)
          IN  st.x \in ALaptop /\ st.out \in Seq(AMsg) /\ ALine(st.x, q \o st.out, Tail(r), a)
      BY <1>1, <1>2, <2>1, ALineHeard
    <3> HIDE DEF q, r, a, step, m
    <3>3. QED BY <3>1, <3>2
  <2>2. CASE m.spi # ra[c].spi
    <3>1. step.x = ra[c] /\ step.out = <<>>
      BY <2>2 DEF A!Still
    <3> HIDE DEF q, r, a, step, m
    <3>2. ALine(ra[c], q, Tail(r), a)
      BY <1>1, <1>2, ALineLost
    <3>3. q \o <<>> = q
      BY <1>1
    <3>4. QED BY <1>1, <3>1, <3>2, <3>3
  <2>3. QED BY <2>1, <2>2
<1> DEFINE x == step.x
           out == step.out
<1>6. x \in ALaptop /\ out \in Seq(AMsg) /\ ALine(x, q \o out, Tail(r), a)
  BY <1>5
<1>7. ra' = [ra EXCEPT ![c] = x] /\ raAsks' = [raAsks EXCEPT ![c] = @ \o out]
  BY <1>4
<1> HIDE DEF r, x, out
<1>8. QED BY <1>2, <1>3, <1>6, <1>7, ABecomes

\* What was asked is not under way, nor is an answer: asked again, or given up.
LEMMA ATimes ==
  ASSUME AInv, NEW c \in RaClients, A!OnTimer(c)
  PROVE  AInv'
<1> DEFINE x == ra[c]
           q == raAsks[c]
           r == raTells[c]
           a == raServer.clients[c]
           Qs == AAskOf(x.spi)
           Rs == AReplyOf(x.spi)
<1>1. AType /\ a \in AClient /\ x \in ALaptop /\ q \in Seq(AMsg) /\ r \in Seq(AMsg) /\ ALine(x, q, r, a)
      /\ raTells = [raTells EXCEPT ![c] = r]
  BY AKnown
<1>2. r = <<>> /\ (\A i \in DOMAIN q : q[i].op # x.asked) /\ x.asked # "none" /\ raTells' = raTells /\ raServer' = raServer
  BY DEF A!OnTimer, A!Unheard
<1>3. CASE x.tries >= RaRetransmits
  <2> DEFINE why == IF x.asked = "dpd" THEN "dpd" ELSE "timeout"
             y == A!Fail(x, why).x
             out == A!Fail(x, why).out
  <2>1. ra' = [ra EXCEPT ![c] = y] /\ raAsks' = [raAsks EXCEPT ![c] = @ \o out]
    BY <1>3 DEF A!OnTimer, A!Become
  <2>2. why \in {"none", "timeout", "dpd", "refused"}
    OBVIOUS
  <2> HIDE DEF why, x
  <2>3. y \in ALaptop /\ y.state = "failed" /\ out = <<>>
    BY <1>1, <2>2, AFails
  <2> HIDE DEF y, out, q, r, a
  <2>4. out \in Seq(AMsg) /\ ALine(y, q \o out, r, a)
    BY <2>3 DEF ALine
  <2>5. QED BY <1>1, <1>2, <2>1, <2>3, <2>4, ABecomes DEF q, r, a
<1>4. CASE ~ (x.tries >= RaRetransmits)
  <2> DEFINE y == [x EXCEPT !.tries = @ + 1]
             out == A!Msg(x.asked, x.spi, x.vip)
  <2>1. ra' = [ra EXCEPT ![c] = y] /\ raAsks' = [raAsks EXCEPT ![c] = @ \o out]
    BY <1>4 DEF A!OnTimer, A!Become
  <2>2. y \in ALaptop /\ y.state = x.state /\ y.spi = x.spi /\ y.vip = x.vip /\ y.asked = x.asked
    BY <1>1 DEF ALaptop
  <2>3. x.spi \in Nat /\ x.vip \in Nat /\ x.asked \in AOps
    BY <1>1 DEF ALaptop, AOps
  <2> HIDE DEF y, x, q, r, a
  <2>4. out \in Seq(AMsg) /\ ALine(y, q \o out, r, a)
    <3>1. CASE x.state \in {"init", "auth"}
      <4>1. x.spi # 0 /\ x.asked \in {"init", "auth", "eap"} /\ \A i \in Mine(q, Qs) : q[i].op = x.asked
        BY <1>1, <3>1 DEF ALine
      <4>2. Mine(q, Qs) = {}
        BY <1>2, <4>1 DEF Mine
      <4>3. Mine(r, Rs) = {}
        BY <1>2 DEF Mine
      <4>4. NoToken(q, r, Qs, Rs)
        BY <4>2, <4>3 DEF NoToken
      <4>5. A!Msg(y.asked, y.spi, x.vip) \in Seq(AMsg) /\ ALine(y, q \o A!Msg(y.asked, y.spi, x.vip), r, a)
        BY <1>1, <2>2, <2>3, <3>1, <4>1, <4>4, ALineAsks
      <4>6. QED BY <2>2, <4>5
    <3>2. CASE x.state = "up"
      <4>1. x.asked \in ABeside /\ x.asked \in {"none", "dpd"}
        BY <1>1, <1>2, <3>2 DEF ALine, ABeside
      <4>2. QED BY <1>1, <2>2, <2>3, <3>2, <4>1, ALineBeside
    <3>3. CASE x.state \notin {"init", "auth", "up"}
      <4>1. out \in Seq(AMsg)
        BY <2>3, AAnswers
      <4>2. QED BY <2>2, <3>3, <4>1 DEF ALine
    <3>4. QED BY <3>1, <3>2, <3>3
  <2> HIDE DEF out
  <2>5. QED BY <1>1, <1>2, <2>1, <2>2, <2>4, ABecomes DEF q, r, a
<1>5. QED BY <1>3, <1>4

\* What a laptop that begins says before is to the old tunnel.
LEMMA ABeginsAnew ==
  ASSUME AInv, NEW c \in RaClients, NEW bye \in Seq(AMsg), \A i \in DOMAIN bye : bye[i].op \in ABeside,
         ra' = [ra EXCEPT ![c] = A!Connect(c).x], raAsks' = [raAsks EXCEPT ![c] = @ \o (bye \o A!Connect(c).out)],
         raTells' = raTells, raServer' = raServer
  PROVE  AInv' /\ A!Connect(c).out \in Seq(AMsg)
<1> DEFINE q == raAsks[c]
           r == raTells[c]
           a == raServer.clients[c]
           x == A!Connect(c).x
           out == A!Connect(c).out
<1>1. AType /\ a \in AClient /\ q \in Seq(AMsg) /\ r \in Seq(AMsg) /\ raTells = [raTells EXCEPT ![c] = r]
  BY AKnown
<1>2. /\ A!NewSpi(c) \in Nat \ {0}
      /\ \A i \in DOMAIN q : q[i].spi # A!NewSpi(c)
      /\ \A i \in DOMAIN r : r[i].spi # A!NewSpi(c)
  BY <1>1, ANewSpi
<1> HIDE DEF q, r, a
<1>3. x \in ALaptop /\ out \in Seq(AMsg) /\ ALine(x, q \o (bye \o out), r, a)
  BY <1>1, <1>2, ALineBegins
<1>4. bye \o out \in Seq(AMsg)
  BY <1>3, SeqMore
<1> HIDE DEF x, out
<1>5. ra' = [ra EXCEPT ![c] = x] /\ raAsks' = [raAsks EXCEPT ![c] = @ \o (bye \o out)]
      /\ raTells' = [raTells EXCEPT ![c] = r] /\ raServer' = raServer
  BY <1>1 DEF x, out
<1> DEFINE words == bye \o out
<1>6. words \in Seq(AMsg) /\ raAsks' = [raAsks EXCEPT ![c] = @ \o words] /\ ALine(x, raAsks[c] \o words, r, raServer.clients[c])
  BY <1>3, <1>4, <1>5 DEF q, a
<1> HIDE DEF words
<1>7. AInv'
  BY <1>1, <1>3, <1>5, <1>6, ABecomes
<1>8. QED BY <1>3, <1>7 DEF out

LEMMA AStarts ==
  ASSUME AInv, NEW c \in RaClients, A!Start(c)
  PROVE  AInv'
<1> DEFINE out == A!Connect(c).out
           none == <<>>
<1>1. ra' = [ra EXCEPT ![c] = A!Connect(c).x] /\ raAsks' = [raAsks EXCEPT ![c] = @ \o out]
      /\ raTells' = raTells /\ raServer' = raServer
  BY DEF A!Start, A!Become
<1>2. none \in Seq(AMsg) /\ \A i \in DOMAIN none : none[i].op \in ABeside
  OBVIOUS
<1>3. out \in Seq(AMsg)
  <2>1. AType /\ raAsks[c] \in Seq(AMsg) /\ raTells[c] \in Seq(AMsg) /\ raServer.clients[c] \in AClient
    BY AKnown
  <2> HIDE DEF none
  <2>2. QED BY <1>2, <2>1, ANewSpi, ALineBegins
<1>4. none \o out = out
  BY <1>3
<1> HIDE DEF none
<1>5. QED BY <1>1, <1>2, <1>4, ABeginsAnew

LEMMA AReconnects ==
  ASSUME AInv, NEW c \in RaClients, A!Reconnect(c)
  PROVE  AInv'
<1> DEFINE b == A!Connect(c)
           bye == IF ra[c].state = "up" THEN A!Msg("delete", ra[c].spi, 0) ELSE <<>>
           step == [b EXCEPT !.out = bye \o @]
<1>1. ra' = [ra EXCEPT ![c] = step.x] /\ raAsks' = [raAsks EXCEPT ![c] = @ \o step.out]
      /\ raTells' = raTells /\ raServer' = raServer
  BY DEF A!Reconnect, A!Become
<1>2. step.x = b.x /\ step.out = bye \o b.out
  BY DEF A!Connect, A!Request
<1>3. ra[c].spi \in Nat
  BY AKnown DEF ALaptop
<1>4. bye \in Seq(AMsg) /\ \A i \in DOMAIN bye : bye[i].op \in ABeside
  <2> DEFINE m == [op |-> "delete", spi |-> ra[c].spi, v |-> 0]
  <2>1. m \in AMsg /\ m.op \in ABeside
    BY <1>3 DEF AMsg, AOps, ABeside
  <2>2. bye = <<m>> \/ bye = <<>>
    BY DEF A!Msg
  <2> HIDE DEF m, bye
  <2>3. CASE bye = <<m>>
    <3>1. bye \in Seq(AMsg) /\ \A i \in DOMAIN bye : bye[i] = m
      BY <2>1, <2>3
    <3>2. QED BY <2>1, <3>1
  <2>4. CASE bye = <<>>
    BY <2>4
  <2>5. QED BY <2>2, <2>3, <2>4
<1> HIDE DEF bye
<1>5. QED BY <1>1, <1>2, <1>4, ABeginsAnew

\* What a laptop that is up says, and what becomes of it.
LEMMA ASaysBeside ==
  ASSUME AInv, NEW c \in RaClients, ra[c].state = "up", NEW y \in ALaptop, y.state = "up", y.spi = ra[c].spi, y.vip = ra[c].vip,
         y.asked \in {"none", "dpd"}, NEW op \in ABeside, ra' = [ra EXCEPT ![c] = y],
         raAsks' = [raAsks EXCEPT ![c] = @ \o A!Msg(op, ra[c].spi, ra[c].vip)], raTells' = raTells, raServer' = raServer
  PROVE  AInv'
<1> DEFINE x == ra[c]
           q == raAsks[c]
           r == raTells[c]
           a == raServer.clients[c]
           out == A!Msg(op, x.spi, x.vip)
<1>1. a \in AClient /\ x \in ALaptop /\ q \in Seq(AMsg) /\ r \in Seq(AMsg) /\ ALine(x, q, r, a)
      /\ raTells = [raTells EXCEPT ![c] = r]
  BY AKnown
<1>2. y.state = x.state /\ y.spi = x.spi /\ y.vip = x.vip /\ x.state = "up"
  OBVIOUS
<1>3. x.vip \in Nat
  BY <1>1 DEF ALaptop
<1>4. raAsks' = [raAsks EXCEPT ![c] = @ \o out]
  OBVIOUS
<1> HIDE DEF x, q, r, a
<1>5. out \in Seq(AMsg) /\ ALine(y, q \o out, r, a)
  BY <1>1, <1>2, <1>3, ALineBeside
<1> HIDE DEF out
<1>6. QED BY <1>1, <1>4, <1>5, ABecomes DEF q, r, a

LEMMA AIntercepts ==
  ASSUME AInv, NEW c \in RaClients, A!Intercept(c) \/ A!OnDpdTick(c)
  PROVE  AInv'
<1>1. ra[c] \in ALaptop /\ ra[c].state = "up" /\ raTells' = raTells /\ raServer' = raServer
  BY AKnown DEF A!Intercept, A!OnDpdTick
<1>2. ra[c].asked \in {"none", "dpd"}
  BY <1>1, AKnown DEF ALine
<1>3. CASE A!Intercept(c)
  <2>1. ra' = [ra EXCEPT ![c] = ra[c]] /\ raAsks' = [raAsks EXCEPT ![c] = @ \o A!Msg("esp", ra[c].spi, ra[c].vip)]
    BY <1>3 DEF A!Intercept, A!Become
  <2>2. "esp" \in ABeside
    BY DEF ABeside
  <2>3. QED BY <1>1, <1>2, <2>1, <2>2, ASaysBeside
<1>4. CASE A!OnDpdTick(c)
  <2> DEFINE y == A!Request(ra[c], "dpd").x
             out == A!Request(ra[c], "dpd").out
  <2>1. ra' = [ra EXCEPT ![c] = y] /\ raAsks' = [raAsks EXCEPT ![c] = @ \o out]
    BY <1>4 DEF A!OnDpdTick, A!Become
  <2>2. y \in ALaptop /\ y.asked = "dpd" /\ y.state = ra[c].state /\ y.spi = ra[c].spi /\ y.vip = ra[c].vip
        /\ out = A!Msg("dpd", ra[c].spi, ra[c].vip)
    BY <1>1, ARequests
  <2>3. "dpd" \in ABeside
    BY DEF ABeside
  <2> HIDE DEF y, out
  <2>4. raAsks' = [raAsks EXCEPT ![c] = @ \o A!Msg("dpd", ra[c].spi, ra[c].vip)]
    BY <2>1, <2>2
  <2>5. QED BY <1>1, <2>1, <2>2, <2>3, <2>4, ASaysBeside
<1>5. QED BY <1>3, <1>4

\* No address any more: no attempt, and nothing under way to the laptop.
LEMMA ALoses ==
  ASSUME AInv, NEW c \in RaClients, A!Lost(c)
  PROVE  AInv'
<1> DEFINE x == [A!Off(ra[c].dpd) EXCEPT !.spi = ra[c].spi]
           q == raAsks[c]
           none == <<>>
<1>1. ra[c] \in ALaptop /\ q \in Seq(AMsg) /\ raAsks = [raAsks EXCEPT ![c] = q] /\ raServer \in AServer /\ AHolders(raServer)
      /\ AType
  BY AKnown
<1>2. ra' = [ra EXCEPT ![c] = x] /\ raTells' = [raTells EXCEPT ![c] = none] /\ raAsks' = raAsks /\ raServer' = raServer
  BY DEF A!Lost
<1>3. x \in ALaptop /\ x.state = "off"
  BY <1>1 DEF ALaptop, A!Off
<1>4. none \in Seq(AMsg)
  OBVIOUS
<1> HIDE DEF x, q, none
<1>5. ALine(x, q, none, raServer.clients[c])
  BY <1>3 DEF ALine
<1>6. \A d \in RaClients \ {c} : raServer.clients[d] = raServer.clients[d]
  OBVIOUS
<1>7. QED BY <1>1, <1>2, <1>3, <1>4, <1>5, <1>6, AOneLaptop

LEMMA ADrops ==
  ASSUME AInv, NEW c \in RaClients, A!Drop(c)
  PROVE  AInv'
<1> DEFINE x == ra[c]
           q == raAsks[c]
           r == raTells[c]
           s == raServer
<1>1. x \in ALaptop /\ q \in Seq(AMsg) /\ r \in Seq(AMsg) /\ s \in AServer /\ AHolders(s) /\ s.clients[c] \in AClient
      /\ ALine(x, q, r, s.clients[c]) /\ ra = [ra EXCEPT ![c] = x] /\ raAsks = [raAsks EXCEPT ![c] = q]
      /\ raTells = [raTells EXCEPT ![c] = r]
  BY AKnown
<1>2. ra' = ra /\ raServer' = raServer
  BY DEF A!Drop
<1>3. \A d \in RaClients \ {c} : raServer.clients[d] = raServer.clients[d]
  OBVIOUS
<1>4. CASE q # <<>> /\ raAsks' = [raAsks EXCEPT ![c] = Tail(q)] /\ raTells' = raTells
  <2> HIDE DEF x, q, r, s
  <2>1. Tail(q) \in Seq(AMsg) /\ ALine(x, Tail(q), r, s.clients[c])
    BY <1>1, <1>4, SeqOf, ALineLost
  <2>2. QED BY <1>1, <1>2, <1>3, <1>4, <2>1, AOneLaptop DEF s
<1>5. CASE r # <<>> /\ raTells' = [raTells EXCEPT ![c] = Tail(r)] /\ raAsks' = raAsks
  <2> HIDE DEF x, q, r, s
  <2>1. Tail(r) \in Seq(AMsg) /\ ALine(x, q, Tail(r), s.clients[c])
    BY <1>1, <1>5, SeqOf, ALineLost
  <2>2. QED BY <1>1, <1>2, <1>3, <1>5, <2>1, AOneLaptop DEF s
<1>6. QED BY <1>4, <1>5 DEF A!Drop

\* A server as it is made.
LEMMA ANewServer ==
  ASSUME NEW pool \in SUBSET (Nat \ {0}), NEW accounts \in BOOLEAN
  PROVE  LET s == A!NewServer(pool, accounts)
         IN  s \in AServer /\ AHolders(s) /\ \A c \in RaClients : s.clients[c].spi = 0 /\ s.clients[c].vip = 0
                                                                  /\ s.lastAuth[c].op = "none" /\ s.leases[c] = 0
<1> DEFINE s == A!NewServer(pool, accounts)
<1>1. {} \in LSpis
  BY FS_EmptySet DEF LSpis
<1>2. A!NoClient \in AClient /\ A!NoClient.spi = 0 /\ A!NoClient.vip = 0
  BY DEF A!NoClient, AClient
<1>3. A!NoAnswer \in AAnswer /\ A!NoAnswer.op = "none"
  BY DEF A!NoAnswer, AAnswer
<1>4. s \in AServer
  BY <1>1, <1>2, <1>3 DEF A!NewServer, AServer, A!NoSpis
<1>5. \A c \in RaClients : s.clients[c].spi = 0 /\ s.clients[c].vip = 0 /\ s.lastAuth[c].op = "none" /\ s.leases[c] = 0
  BY <1>2, <1>3 DEF A!NewServer
<1> HIDE DEF s
<1>6. AHolders(s)
  BY <1>5 DEF AHolders
<1>7. QED BY <1>4, <1>5, <1>6 DEF s

\* The server has forgotten all clients, or knows them as before.
LEMMA ASetAnew ==
  ASSUME AInv, NEW s \in AServer, AHolders(s), raServer' = s, ra' = ra, raAsks' = raAsks, raTells' = raTells,
         (\A c \in RaClients : s.clients[c].spi = 0) \/ s.clients = raServer.clients
  PROVE  AInv'
<1>1. AType' /\ AHolders(raServer)'
  BY DEF AInv, AType, AHolders
<1>2. ASSUME NEW c \in RaClients PROVE ALine(ra[c], raAsks[c], raTells[c], raServer.clients[c])'
  <2> DEFINE x == ra[c]
             q == raAsks[c]
             r == raTells[c]
             a == raServer.clients[c]
             b == s.clients[c]
  <2>1. ALine(x, q, r, a)
    BY DEF AInv
  <2>2. b = a \/ b.spi = 0
    OBVIOUS
  <2>3. ra'[c] = x /\ raAsks'[c] = q /\ raTells'[c] = r /\ raServer'.clients[c] = b
    OBVIOUS
  <2> HIDE DEF x, q, r, a, b
  <2>4. ALine(x, q, r, b)
    BY <2>1, <2>2, ALineForgotten
  <2>5. QED BY <2>3, <2>4 DEF ALine
<1>3. QED BY <1>1, <1>2 DEF AInv

LEMMA ASets ==
  ASSUME AInv, NEW pool \in RaPools, A!SetServer(pool)
  PROVE  AInv'
<1> DEFINE s == A!NewServer(pool, raServer.accounts)
<1>1. raServer' = s /\ ra' = ra /\ raAsks' = raAsks /\ raTells' = raTells
  BY DEF A!SetServer
<1>2. pool \in SUBSET (Nat \ {0})
  BY PoolsAssumption
<1>3. raServer.accounts \in BOOLEAN
  BY DEF AInv, AType, AServer
<1>4. s \in AServer /\ AHolders(s) /\ \A c \in RaClients : s.clients[c].spi = 0
  BY <1>2, <1>3, ANewServer
<1> HIDE DEF s
<1>5. QED BY <1>1, <1>4, ASetAnew

LEMMA ASetsUsers ==
  ASSUME AInv, A!SetUsers
  PROVE  AInv'
<1> DEFINE s == [raServer EXCEPT !.accounts = ~@]
<1>1. raServer' = s /\ ra' = ra /\ raAsks' = raAsks /\ raTells' = raTells
  BY DEF A!SetUsers
<1>2. raServer \in AServer /\ AHolders(raServer)
  BY DEF AInv, AType
<1>3. s \in AServer /\ s.clients = raServer.clients /\ s.leases = raServer.leases /\ s.lastAuth = raServer.lastAuth
  BY <1>2 DEF AServer
<1> HIDE DEF s
<1>4. AHolders(s)
  BY <1>2, <1>3 DEF AHolders
<1>5. QED BY <1>1, <1>3, <1>4, ASetAnew

LEMMA ADropsAll ==
  ASSUME AInv, A!DropAll
  PROVE  AInv'
<1> DEFINE t == A!NewServer(raServer.pool, raServer.accounts)
           s == [t EXCEPT !.leases = raServer.leases]
<1>1. raServer' = s /\ ra' = ra /\ raAsks' = raAsks /\ raTells' = raTells
  BY DEF A!DropAll
<1>2. raServer \in AServer /\ AHolders(raServer)
  BY DEF AInv, AType
<1>3. raServer.pool \in SUBSET (Nat \ {0}) /\ raServer.accounts \in BOOLEAN /\ raServer.leases \in [RaClients -> Nat]
  BY <1>2 DEF AServer
<1>4. t \in AServer /\ \A c \in RaClients : t.clients[c].spi = 0 /\ t.clients[c].vip = 0 /\ t.lastAuth[c].op = "none"
  BY <1>3, ANewServer
<1> HIDE DEF t
<1>5. s \in AServer /\ s.clients = t.clients /\ s.lastAuth = t.lastAuth /\ s.leases = raServer.leases
  BY <1>3, <1>4 DEF AServer
<1> HIDE DEF s
<1>6. AHolders(s)
  BY <1>2, <1>4, <1>5 DEF AHolders
<1>7. QED BY <1>1, <1>4, <1>5, <1>6, ASetAnew

LEMMA ABegins ==
  A!Init => AInv
<1> SUFFICES ASSUME A!Init PROVE AInv
  OBVIOUS
<1>1. PICK dpd \in BOOLEAN : ra = [c \in RaClients |-> A!Off(dpd)]
  BY DEF A!Init
<1>2. PICK pool \in RaPools, accounts \in BOOLEAN : raServer = A!NewServer(pool, accounts)
  BY DEF A!Init
<1>3. raAsks = [c \in RaClients |-> <<>>] /\ raTells = [c \in RaClients |-> <<>>]
  BY DEF A!Init
<1>4. pool \in SUBSET (Nat \ {0})
  BY PoolsAssumption
<1>5. raServer \in AServer /\ AHolders(raServer)
  BY <1>2, <1>4, ANewServer
<1>6. A!Off(dpd) \in ALaptop /\ A!Off(dpd).state = "off"
  BY DEF A!Off, ALaptop
<1>7. AType
  BY <1>1, <1>3, <1>5, <1>6 DEF AType
<1>8. \A c \in RaClients : ra[c].state = "off"
  BY <1>1, <1>6
<1>9. QED BY <1>5, <1>7, <1>8 DEF AInv, ALine

LEMMA ASteps ==
  AInv /\ A!Next => AInv'
<1> SUFFICES ASSUME AInv, A!Next PROVE AInv'
  OBVIOUS
<1>1. CASE A!DropAll BY <1>1, ADropsAll
<1>2. CASE A!SetUsers BY <1>2, ASetsUsers
<1>3. ASSUME NEW pool \in RaPools, A!SetServer(pool) PROVE AInv' BY <1>3, ASets
<1>4. ASSUME NEW c \in RaClients, A!ServerHandle(c) PROVE AInv' BY <1>4, AServerHandles
<1>5. ASSUME NEW c \in RaClients, A!ClientHandle(c) PROVE AInv' BY <1>5, AClientHandles
<1>6. ASSUME NEW c \in RaClients, A!OnTimer(c) PROVE AInv' BY <1>6, ATimes
<1>7. ASSUME NEW c \in RaClients, A!Start(c) PROVE AInv' BY <1>7, AStarts
<1>8. ASSUME NEW c \in RaClients, A!OnDpdTick(c) \/ A!Intercept(c) PROVE AInv' BY <1>8, AIntercepts
<1>9. ASSUME NEW c \in RaClients, A!Reconnect(c) PROVE AInv' BY <1>9, AReconnects
<1>10. ASSUME NEW c \in RaClients, A!Lost(c) PROVE AInv' BY <1>10, ALoses
<1>11. ASSUME NEW c \in RaClients, A!Drop(c) PROVE AInv' BY <1>11, ADrops
<1>12. QED BY <1>1, <1>2, <1>3, <1>4, <1>5, <1>6, <1>7, <1>8, <1>9, <1>10, <1>11 DEF A!Next

LEMMA AAgrees ==
  AInv => A!OneHolder /\ A!SameAddress
<1> SUFFICES ASSUME AInv PROVE A!OneHolder /\ A!SameAddress
  OBVIOUS
<1>1. A!OneHolder
  BY DEF AInv, AHolders, A!OneHolder
<1>2. A!SameAddress
  BY DEF AInv, ALine, A!SameAddress
<1>3. QED BY <1>1, <1>2

-------------------------------------------------------------------------------
(* Functions on a part of a set *)

Partial(S, T) == UNION {[D -> T] : D \in SUBSET S}

LEMMA PartialIs ==
  ASSUME NEW S, NEW T, NEW f \in Partial(S, T)
  PROVE  DOMAIN f \in SUBSET S /\ (\A x \in DOMAIN f : f[x] \in T) /\ f \in [DOMAIN f -> T]
BY DEF Partial

LEMMA PartialMade ==
  ASSUME NEW S, NEW T, NEW D \in SUBSET S, NEW f \in [D -> T]
  PROVE  f \in Partial(S, T)
BY DEF Partial

Agree(f, g, D) == \A x \in D : f[x] = g[x]

\* The function with a value put in, or left out, and the empty one
LEMMA PutIs ==
  ASSUME NEW S, NEW T, NEW f \in Partial(S, T), NEW k \in S, NEW v \in T
  PROVE  /\ O!Put(f, k, v) \in Partial(S, T) /\ DOMAIN O!Put(f, k, v) = DOMAIN f \cup {k} /\ O!Put(f, k, v)[k] = v
         /\ Agree(O!Put(f, k, v), f, DOMAIN f \ {k})
<1> DEFINE g == O!Put(f, k, v)
<1>1. g = [x \in DOMAIN f \cup {k} |-> IF x = k THEN v ELSE f[x]]
  BY DEF O!Put
<1>2. DOMAIN f \cup {k} \in SUBSET S /\ \A x \in DOMAIN f : f[x] \in T
  BY PartialIs
<1>3. g \in [DOMAIN f \cup {k} -> T]
  BY <1>1, <1>2
<1>4. g \in Partial(S, T)
  BY <1>2, <1>3, PartialMade
<1>5. QED BY <1>1, <1>4 DEF Agree

LEMMA WithoutIs ==
  ASSUME NEW S, NEW T, NEW f \in Partial(S, T), NEW k
  PROVE  /\ O!Without(f, k) \in Partial(S, T) /\ DOMAIN O!Without(f, k) = DOMAIN f \ {k}
         /\ Agree(O!Without(f, k), f, DOMAIN f \ {k})
<1> DEFINE g == O!Without(f, k)
<1>1. g = [x \in DOMAIN f \ {k} |-> f[x]]
  BY DEF O!Without
<1>2. DOMAIN f \ {k} \in SUBSET S /\ \A x \in DOMAIN f : f[x] \in T
  BY PartialIs
<1>3. g \in [DOMAIN f \ {k} -> T]
  BY <1>1, <1>2
<1>4. g \in Partial(S, T)
  BY <1>2, <1>3, PartialMade
<1>5. QED BY <1>1, <1>4 DEF Agree

LEMMA EmptyIs ==
  ASSUME NEW S, NEW T
  PROVE  O!Empty \in Partial(S, T) /\ DOMAIN O!Empty = {}
<1>1. O!Empty = <<>> /\ DOMAIN O!Empty = {}
  BY DEF O!Empty
<1>2. O!Empty \in [{} -> T]
  BY <1>1
<1>3. QED BY <1>1, <1>2, PartialMade

-------------------------------------------------------------------------------
(* OpenVPN: the server *)

ONames   == UNION {{f[c] : c \in OvpnClients} : f \in Certs}
OKeys    == OvpnClients \X {1, 2}
OReqs    == {"reset", "tls", "auth", "push"}
OReplies == {"reset-server", "tls-server", "tls-ok", "tls-fail", "push-reply"}
OBeside  == {"data", "ping", "exit"}
OOps     == OReqs \cup OReplies \cup OBeside \cup {"kicked", "restart"}
OMsg     == [op : OOps, sid : Nat, at : {1, 2}, v : Nat]
OLines   == [OvpnClients -> Seq(OMsg)]
OSession == [sid : Nat, phase : {"reset", "tls", "auth", "up", "failed"}, cn : ONames, vip : Nat, replies : SUBSET OReqs,
             refused : BOOLEAN]
OServer  == [on : BOOLEAN, revoked : SUBSET ONames, sessions : Partial(OKeys, OSession), leases : Partial(ONames, Nat)]

\* Leases are of different addresses, and sessions that are up are of different certificates and of the leased addresses
OGood(srv) ==
  /\ \A n, o \in DOMAIN srv.leases : n # o => srv.leases[n] # srv.leases[o]
  /\ \A k \in O!Up(srv) : /\ srv.sessions[k].cn \in DOMAIN srv.leases
                          /\ srv.sessions[k].vip = srv.leases[srv.sessions[k].cn]
  /\ \A j, k \in O!Up(srv) : j # k => srv.sessions[j].cn # srv.sessions[k].cn

\* If the session of number sid at k is up, its address is v
Means(srv, k, sid, v) == k \in O!Up(srv) /\ srv.sessions[k].sid = sid => srv.sessions[k].vip = v

\* What the server does, and says, on message m of client c
ODoes(srv, c, m, srv2) ==
  /\ srv2 \in OServer /\ OGood(srv2)
  /\ \A k \in OKeys, sid \in Nat, v \in Nat :
       Means(srv, k, sid, v) => Means(srv2, k, sid, v) \/ (k = <<c, m.at>> /\ m.op \notin OBeside /\ sid = m.sid)
OSays(c, m, srv2, outs) ==
  /\ outs \in OLines
  /\ \A d \in OvpnClients : \A i \in DOMAIN outs[d] :
       outs[d][i].op \in OReplies =>
         /\ d = c /\ m.op \notin OBeside /\ outs[d][i].sid = m.sid /\ outs[d][i].at = m.at
         /\ outs[d][i].op = "push-reply" => Means(srv2, <<c, m.at>>, m.sid, outs[d][i].v)
  /\ Few({i \in DOMAIN outs[c] : outs[c][i].op \in OReplies})

LEMMA OKey ==
  ASSUME NEW c \in OvpnClients, NEW m \in OMsg
  PROVE  <<c, m.at>> \in OKeys /\ <<c, m.at>>[1] = c /\ <<c, m.at>>[2] = m.at
BY DEF OKeys, OMsg

LEMMA OAnswers ==
  ASSUME NEW op \in OOps, NEW sid \in Nat, NEW at \in {1, 2}, NEW v \in Nat
  PROVE  /\ O!Msg(op, sid, at, v) \in Seq(OMsg)
         /\ \E n \in OMsg : O!Msg(op, sid, at, v) = <<n>> /\ n.op = op /\ n.sid = sid /\ n.at = at /\ n.v = v
<1> DEFINE n == [op |-> op, sid |-> sid, at |-> at, v |-> v]
<1>1. n \in OMsg /\ n.op = op /\ n.sid = sid /\ n.at = at /\ n.v = v
  BY DEF OMsg
<1>2. O!Msg(op, sid, at, v) = <<n>>
  BY DEF O!Msg
<1> HIDE DEF n
<1>3. QED BY <1>1, <1>2

LEMMA ONobody ==
  O!Nobody \in OLines /\ \A d \in OvpnClients : O!Nobody[d] = <<>>
BY DEF O!Nobody, OLines

LEMMA ONotes ==
  ASSUME NEW k \in OKeys, NEW op \in OOps, NEW s \in OSession
  PROVE  /\ O!Note(k, op, s) \in OLines
         /\ \A d \in OvpnClients : d # k[1] => O!Note(k, op, s)[d] = <<>>
         /\ \E n \in OMsg : O!Note(k, op, s)[k[1]] = <<n>> /\ n.op = op /\ n.sid = s.sid /\ n.at = k[2] /\ n.v = s.vip
<1> DEFINE c == k[1]
           out == O!Msg(op, s.sid, k[2], s.vip)
<1>1. c \in OvpnClients /\ k[2] \in {1, 2} /\ s.sid \in Nat /\ s.vip \in Nat
  BY DEF OKeys, OSession
<1>2. out \in Seq(OMsg) /\ \E n \in OMsg : out = <<n>> /\ n.op = op /\ n.sid = s.sid /\ n.at = k[2] /\ n.v = s.vip
  <2> DEFINE sid == s.sid
             at == k[2]
             v == s.vip
  <2>1. sid \in Nat /\ at \in {1, 2} /\ v \in Nat
    BY <1>1
  <2> HIDE DEF sid, at, v
  <2>2. /\ O!Msg(op, sid, at, v) \in Seq(OMsg)
        /\ \E n \in OMsg : O!Msg(op, sid, at, v) = <<n>> /\ n.op = op /\ n.sid = sid /\ n.at = at /\ n.v = v
    BY <2>1, OAnswers
  <2>3. QED BY <2>2 DEF sid, at, v
<1>3. O!Note(k, op, s) = [O!Nobody EXCEPT ![c] = out]
  BY DEF O!Note
<1> HIDE DEF out, c
<1>4. O!Note(k, op, s)[c] = out /\ O!Note(k, op, s) \in OLines /\ \A d \in OvpnClients : d # c => O!Note(k, op, s)[d] = <<>>
  BY <1>1, <1>2, <1>3, ONobody DEF OLines
<1>5. QED BY <1>2, <1>4 DEF c

LEMMA OTells ==
  ASSUME NEW a \in OLines, NEW b \in OLines
  PROVE  O!Tell(a, b) \in OLines /\ \A c \in OvpnClients : O!Tell(a, b)[c] = a[c] \o b[c]
<1>1. \A c \in OvpnClients : a[c] \o b[c] \in Seq(OMsg)
  BY DEF OLines
<1>2. QED BY <1>1 DEF O!Tell, OLines

\* What is said without effect on an address.
LEMMA OSaysNothing ==
  ASSUME NEW c \in OvpnClients, NEW m, NEW srv
  PROVE  OSays(c, m, srv, O!Nobody)
BY ONobody DEF OSays, Few

LEMMA OSaysNote ==
  ASSUME NEW c \in OvpnClients, NEW m \in OMsg, NEW srv, NEW op \in OOps, NEW t \in OSession,
         op \in OReplies => m.op \notin OBeside /\ t.sid = m.sid,
         op = "push-reply" => Means(srv, <<c, m.at>>, m.sid, t.vip)
  PROVE  OSays(c, m, srv, O!Note(<<c, m.at>>, op, t))
<1> DEFINE k == <<c, m.at>>
           outs == O!Note(k, op, t)
<1>1. k \in OKeys /\ k[1] = c /\ k[2] = m.at
  BY OKey
<1> HIDE DEF k
<1>2. outs \in OLines /\ (\A d \in OvpnClients : d # c => outs[d] = <<>>)
  BY <1>1, ONotes
<1>3. PICK n \in OMsg : outs[c] = <<n>> /\ n.op = op /\ n.sid = t.sid /\ n.at = m.at /\ n.v = t.vip
  <2>1. \E n \in OMsg : outs[k[1]] = <<n>> /\ n.op = op /\ n.sid = t.sid /\ n.at = k[2] /\ n.v = t.vip
    BY <1>1, ONotes
  <2>2. QED BY <1>1, <2>1
<1> HIDE DEF outs
<1>4. ASSUME NEW d \in OvpnClients, NEW i \in DOMAIN outs[d], outs[d][i].op \in OReplies
      PROVE  /\ d = c /\ m.op \notin OBeside /\ outs[d][i].sid = m.sid /\ outs[d][i].at = m.at
             /\ outs[d][i].op = "push-reply" => Means(srv, <<c, m.at>>, m.sid, outs[d][i].v)
  <2>1. d = c
    BY <1>2, <1>4
  <2>2. outs[d][i] = n
    BY <1>3, <2>1
  <2>3. QED BY <1>3, <1>4, <2>1, <2>2
<1>5. Few({i \in DOMAIN outs[c] : outs[c][i].op \in OReplies})
  BY <1>3 DEF Few
<1>6. QED BY <1>2, <1>4, <1>5 DEF OSays, outs, k

\* Nothing is done.
LEMMA ODoesNothing ==
  ASSUME NEW srv \in OServer, OGood(srv), NEW c, NEW m
  PROVE  ODoes(srv, c, m, srv)
BY DEF ODoes

\* The session at the message's place becomes t, which is not up.
LEMMA ODoesPut ==
  ASSUME NEW srv \in OServer, OGood(srv), NEW c \in OvpnClients, NEW m \in OMsg, NEW t \in OSession, t.phase # "up"
  PROVE  ODoes(srv, c, m, [srv EXCEPT !.sessions = O!Put(@, <<c, m.at>>, t)])
<1> DEFINE k == <<c, m.at>>
           e == srv.sessions
           f == O!Put(e, k, t)
           x == [srv EXCEPT !.sessions = f]
<1>1. k \in OKeys
  BY OKey
<1>2. e \in Partial(OKeys, OSession)
  BY DEF OServer
<1> HIDE DEF k, e
<1>3. f \in Partial(OKeys, OSession) /\ DOMAIN f = DOMAIN e \cup {k} /\ f[k] = t
      /\ \A j \in DOMAIN e \ {k} : f[j] = e[j]
  BY <1>1, <1>2, PutIs DEF Agree
<1> HIDE DEF f
<1>4. x \in OServer /\ x.sessions = f /\ x.leases = srv.leases
  BY <1>3 DEF OServer
<1> HIDE DEF x
<1>5. \A j \in O!Up(x) : j \in O!Up(srv) /\ j # k /\ x.sessions[j] = srv.sessions[j]
  BY <1>3, <1>4 DEF O!Up, e
<1>6. OGood(x)
  BY <1>4, <1>5 DEF OGood
<1>7. \A j \in OKeys, sid \in Nat, v \in Nat : Means(srv, j, sid, v) => Means(x, j, sid, v)
  BY <1>5 DEF Means
<1>8. ODoes(srv, c, m, x)
  BY <1>4, <1>6, <1>7 DEF ODoes
<1>9. QED BY <1>8 DEF x, f, e, k

\* Sessions are dropped.
LEMMA ODoesDrop ==
  ASSUME NEW srv \in OServer, OGood(srv), NEW c, NEW m, NEW x \in OServer, x.leases = srv.leases,
         DOMAIN x.sessions \subseteq DOMAIN srv.sessions, \A k \in DOMAIN x.sessions : x.sessions[k] = srv.sessions[k]
  PROVE  ODoes(srv, c, m, x)
<1>1. \A k \in O!Up(x) : k \in O!Up(srv) /\ x.sessions[k] = srv.sessions[k]
  BY DEF O!Up
<1>2. OGood(x)
  BY <1>1 DEF OGood
<1>3. \A k \in OKeys, sid \in Nat, v \in Nat : Means(srv, k, sid, v) => Means(x, k, sid, v)
  BY <1>1 DEF Means
<1>4. QED BY <1>2, <1>3 DEF ODoes

\* Leases that may come of a request of the holder of cn: cn has one, and whoever is up keeps its own.
LEMMA OAllocated ==
  ASSUME NEW srv \in OServer, OGood(srv), NEW cn \in ONames, NEW leases \in O!Allocate(srv, cn)
  PROVE  /\ leases \in Partial(ONames, Nat) /\ cn \in DOMAIN leases
         /\ \A n, o \in DOMAIN leases : n # o => leases[n] # leases[o]
         /\ \A k \in O!Up(srv) : srv.sessions[k].cn # cn => /\ srv.sessions[k].cn \in DOMAIN leases
                                                            /\ leases[srv.sessions[k].cn] = srv.leases[srv.sessions[k].cn]
<1> DEFINE old == srv.leases
           used == {old[n] : n \in DOMAIN old}
           S == VpnPool \ used
           away == {n \in DOMAIN old : \A k \in O!Up(srv) : srv.sessions[k].cn # n}
           UpNames == {srv.sessions[k].cn : k \in O!Up(srv)}
<1>1. old \in Partial(ONames, Nat)
  BY DEF OServer
<1>2. (\A n, o \in DOMAIN old : n # o => old[n] # old[o]) /\ UpNames \subseteq DOMAIN old
  BY DEF OGood
<1>3. VpnPool \subseteq Nat \ {0}
  BY PoolsAssumption
<1>4. DOMAIN old \in SUBSET ONames /\ \A n \in DOMAIN old : old[n] \in Nat
  BY <1>1, PartialIs
<1>5. O!Allocate(srv, cn) = IF cn \in DOMAIN old THEN {old}
                            ELSE IF S # {} THEN {O!Put(old, cn, O!Min(S))}
                            ELSE {O!Put(O!Without(old, n), cn, old[n]) : n \in away}
  BY DEF O!Allocate
<1>6. away \subseteq DOMAIN old /\ away \cap UpNames = {}
  OBVIOUS
<1> SUFFICES /\ leases \in Partial(ONames, Nat) /\ cn \in DOMAIN leases
             /\ \A n, o \in DOMAIN leases : n # o => leases[n] # leases[o]
             /\ \A n \in UpNames : n # cn => n \in DOMAIN leases /\ leases[n] = old[n]
  OBVIOUS
<1>7. \A n \in DOMAIN old : old[n] \in used
  OBVIOUS
<1>8. S \subseteq VpnPool /\ S \cap used = {}
  OBVIOUS
<1> HIDE DEF old, used, S, away, UpNames
<1>9. CASE cn \in DOMAIN old
  <2>1. leases = old
    BY <1>5, <1>9
  <2>2. QED BY <1>1, <1>2, <1>9, <2>1
<1>10. CASE cn \notin DOMAIN old /\ S # {}
  <2> DEFINE v == O!Min(S)
  <2>1. leases = O!Put(old, cn, v)
    BY <1>5, <1>10
  <2>2. v = (CHOOSE a \in S : \A b \in S : a <= b)
    BY DEF O!Min
  <2>3. S \in SUBSET Nat
    BY <1>3, <1>8
  <2> HIDE DEF v
  <2>4. v \in S
    BY <1>10, <2>2, <2>3, FirstAddress
  <2>5. v \in Nat /\ v \notin used
    BY <1>8, <2>3, <2>4
  <2>6. leases \in Partial(ONames, Nat) /\ DOMAIN leases = DOMAIN old \cup {cn} /\ leases[cn] = v
        /\ \A n \in DOMAIN old \ {cn} : leases[n] = old[n]
    <3> DEFINE N == Nat
    <3>1. v \in N /\ old \in Partial(ONames, N)
      BY <1>1, <2>5
    <3> HIDE DEF N
    <3>2. /\ O!Put(old, cn, v) \in Partial(ONames, N) /\ DOMAIN O!Put(old, cn, v) = DOMAIN old \cup {cn}
          /\ O!Put(old, cn, v)[cn] = v
          /\ Agree(O!Put(old, cn, v), old, DOMAIN old \ {cn})
      BY <3>1, PutIs
    <3>3. QED BY <2>1, <3>2 DEF N, Agree
  <2>7. ASSUME NEW n \in DOMAIN leases, NEW o \in DOMAIN leases, n # o PROVE leases[n] # leases[o]
    BY <1>2, <1>7, <2>5, <2>6, <2>7
  <2>8. \A n \in UpNames : n # cn => n \in DOMAIN leases /\ leases[n] = old[n]
    BY <1>2, <2>6
  <2>9. QED BY <2>6, <2>7, <2>8
<1>11. CASE cn \notin DOMAIN old /\ S = {}
  <2>1. PICK a \in away : leases = O!Put(O!Without(old, a), cn, old[a])
    BY <1>5, <1>11
  <2> DEFINE rest == O!Without(old, a)
             v == old[a]
  <2>2. rest \in Partial(ONames, Nat) /\ DOMAIN rest = DOMAIN old \ {a} /\ \A n \in DOMAIN old \ {a} : rest[n] = old[n]
    <3> DEFINE N == Nat
    <3>1. old \in Partial(ONames, N)
      BY <1>1
    <3> HIDE DEF N
    <3>2. /\ O!Without(old, a) \in Partial(ONames, N) /\ DOMAIN O!Without(old, a) = DOMAIN old \ {a}
          /\ Agree(O!Without(old, a), old, DOMAIN old \ {a})
      BY <3>1, WithoutIs
    <3>3. QED BY <3>2 DEF N, Agree
  <2>3. v \in Nat /\ a \in DOMAIN old
    BY <1>4, <1>6
  <2>4. leases = O!Put(rest, cn, v)
    BY <2>1
  <2>5. \A n \in DOMAIN rest : rest[n] # v
    BY <1>2, <2>2, <2>3
  <2> HIDE DEF rest, v
  <2>6. leases \in Partial(ONames, Nat) /\ DOMAIN leases = DOMAIN rest \cup {cn} /\ leases[cn] = v
        /\ \A n \in DOMAIN rest \ {cn} : leases[n] = rest[n]
    <3> DEFINE N == Nat
    <3>1. v \in N /\ rest \in Partial(ONames, N)
      BY <2>2, <2>3 DEF v
    <3> HIDE DEF N
    <3>2. /\ O!Put(rest, cn, v) \in Partial(ONames, N) /\ DOMAIN O!Put(rest, cn, v) = DOMAIN rest \cup {cn}
          /\ O!Put(rest, cn, v)[cn] = v
          /\ Agree(O!Put(rest, cn, v), rest, DOMAIN rest \ {cn})
      BY <3>1, PutIs
    <3>3. QED BY <2>4, <3>2 DEF N, Agree
  <2>7. cn \notin DOMAIN rest
    BY <1>11, <2>2
  <2>8. \A n, o \in DOMAIN rest : n # o => rest[n] # rest[o]
    BY <1>2, <2>2
  <2>9. ASSUME NEW n \in DOMAIN leases, NEW o \in DOMAIN leases, n # o PROVE leases[n] # leases[o]
    BY <2>5, <2>6, <2>7, <2>8, <2>9
  <2>10. \A n \in UpNames : n # cn => n \in DOMAIN leases /\ leases[n] = old[n]
    BY <1>2, <1>6, <2>2, <2>6
  <2>11. QED BY <2>6, <2>9, <2>10
<1>12. QED BY <1>9, <1>10, <1>11

LEMMA TwoMessages ==
  ASSUME NEW T, NEW a \in T, NEW b \in T
  PROVE  \A i \in DOMAIN (<<a>> \o <<b>>) : (<<a>> \o <<b>>)[i] = a \/ (i = 2 /\ (<<a>> \o <<b>>)[i] = b)
<1> DEFINE f == <<a>>
           g == <<b>>
<1>1. f \in Seq(T) /\ Len(f) = 1 /\ DOMAIN f = {1} /\ f[1] = a
  OBVIOUS
<1>2. g \in Seq(T) /\ Len(g) = 1 /\ DOMAIN g = {1} /\ g[1] = b
  OBVIOUS
<1> HIDE DEF f, g
<1>3. \A i \in DOMAIN (f \o g) :
        \/ i \in DOMAIN f /\ (f \o g)[i] = f[i]
        \/ i \in Nat /\ i > Len(f) /\ i - Len(f) \in DOMAIN g /\ (f \o g)[i] = g[i - Len(f)]
  BY <1>1, <1>2, SeqMore
<1>4. \A i \in DOMAIN (f \o g) : (f \o g)[i] = a \/ (i = 2 /\ (f \o g)[i] = b)
  BY <1>1, <1>2, <1>3
<1>5. QED BY <1>4 DEF f, g

\* A client is connected; another one of the same certificate is thrown out.
LEMMA OGrants ==
  ASSUME NEW srv \in OServer, OGood(srv), NEW c \in OvpnClients, NEW m \in OMsg, m.op \notin OBeside,
         O!ServerKnows(srv, <<c, m.at>>, m), srv.sessions[<<c, m.at>>].phase # "up",
         NEW leases \in O!Allocate(srv, srv.sessions[<<c, m.at>>].cn)
  PROVE  LET r == O!Grant(srv, <<c, m.at>>, leases) IN ODoes(srv, c, m, r.srv) /\ OSays(c, m, r.srv, r.out)
<1> DEFINE k == <<c, m.at>>
           e == srv.sessions
           cn == e[k].cn
           s == [e[k] EXCEPT !.phase = "up", !.replies = @ \cup {"push"}, !.vip = leases[cn]]
           out == {o \in O!Up(srv) \ {k} : e[o].cn = s.cn}
           kept == [x \in DOMAIN e \ out |-> IF x = k THEN s ELSE e[x]]
           o1 == CHOOSE o \in out : TRUE
           told == IF out = {} THEN O!Nobody ELSE O!Note(o1, "kicked", e[o1])
           x == [srv EXCEPT !.leases = leases, !.sessions = kept]
           outs == O!Tell(told, O!Note(k, "push-reply", s))
<1>1. O!Grant(srv, k, leases) = [srv |-> x, out |-> outs]
  BY DEF O!Grant
<1>2. O!Grant(srv, <<c, m.at>>, leases).srv = x /\ O!Grant(srv, <<c, m.at>>, leases).out = outs
  <2> HIDE DEF x, outs
  <2>1. QED BY <1>1
<1> SUFFICES ODoes(srv, c, m, x) /\ OSays(c, m, x, outs)
  <2> HIDE DEF x, outs, k
  <2>1. QED BY <1>2
<1>3. k \in OKeys /\ k[1] = c /\ k[2] = m.at /\ k \in DOMAIN e /\ e[k].sid = m.sid /\ k \notin O!Up(srv)
  BY OKey DEF O!ServerKnows, O!Up
<1>4. e \in Partial(OKeys, OSession)
  BY DEF OServer
<1>5. DOMAIN e \in SUBSET OKeys /\ \A j \in DOMAIN e : e[j] \in OSession
  BY <1>4, PartialIs
<1>6. cn \in ONames
  BY <1>3, <1>5 DEF OSession
<1>7. /\ leases \in Partial(ONames, Nat) /\ cn \in DOMAIN leases
      /\ \A n, o \in DOMAIN leases : n # o => leases[n] # leases[o]
      /\ \A j \in O!Up(srv) : e[j].cn # cn => e[j].cn \in DOMAIN leases /\ leases[e[j].cn] = srv.leases[e[j].cn]
  BY <1>6, OAllocated
<1>8. leases[cn] \in Nat
  BY <1>7, PartialIs
<1>9. s \in OSession /\ s.phase = "up" /\ s.vip = leases[cn] /\ s.cn = cn /\ s.sid = m.sid
  <2> DEFINE t == e[k]
  <2>1. t \in OSession /\ t.sid = m.sid
    BY <1>3, <1>5
  <2>2. s = [t EXCEPT !.phase = "up", !.replies = @ \cup {"push"}, !.vip = leases[cn]] /\ cn = t.cn
    OBVIOUS
  <2> HIDE DEF t, cn, s
  <2>3. QED BY <1>8, <2>1, <2>2 DEF OSession, OReqs
<1>10. out = {o \in O!Up(srv) : o # k /\ e[o].cn = cn}
  BY <1>9
<1>11. \A o \in O!Up(srv) : o \in DOMAIN e /\ e[o].phase = "up"
  BY DEF O!Up
<1> HIDE DEF s, cn
<1>12. kept \in [DOMAIN e \ out -> OSession]
  BY <1>5, <1>9
<1>13. kept \in Partial(OKeys, OSession) /\ DOMAIN kept = DOMAIN e \ out
       /\ \A j \in DOMAIN e \ out : kept[j] = IF j = k THEN s ELSE e[j]
  <2>1. DOMAIN e \ out \in SUBSET OKeys
    BY <1>5
  <2>2. kept \in Partial(OKeys, OSession)
    <3> HIDE DEF kept
    <3>1. QED BY <1>12, <2>1, PartialMade
  <2>3. QED BY <2>2
<1> HIDE DEF kept
<1>14. x \in OServer /\ x.sessions = kept /\ x.leases = leases
  BY <1>7, <1>13 DEF OServer
<1> HIDE DEF x, out, e, k
<1>15. \A j \in O!Up(x) : \/ j = k /\ x.sessions[j] = s
                          \/ j # k /\ j \in O!Up(srv) /\ x.sessions[j] = e[j] /\ e[j].cn # cn
  <2> SUFFICES ASSUME NEW j \in O!Up(x)
               PROVE  (j = k /\ x.sessions[j] = s) \/ (j # k /\ j \in O!Up(srv) /\ x.sessions[j] = e[j] /\ e[j].cn # cn)
    OBVIOUS
  <2>1. j \in DOMAIN e \ out /\ kept[j].phase = "up" /\ x.sessions[j] = kept[j]
    BY <1>13, <1>14 DEF O!Up
  <2>2. CASE j = k
    BY <1>13, <2>1, <2>2
  <2>3. CASE j # k
    <3>1. kept[j] = e[j] /\ e[j].phase = "up"
      BY <1>13, <2>1, <2>3
    <3>2. j \in O!Up(srv)
      BY <2>1, <3>1 DEF O!Up, e
    <3>3. QED BY <1>10, <2>1, <2>3, <3>1, <3>2
  <2>4. QED BY <2>2, <2>3
<1>16. OGood(x)
  <2>1. \A n, o \in DOMAIN x.leases : n # o => x.leases[n] # x.leases[o]
    BY <1>7, <1>14
  <2>2. ASSUME NEW j \in O!Up(x)
        PROVE  x.sessions[j].cn \in DOMAIN x.leases /\ x.sessions[j].vip = x.leases[x.sessions[j].cn]
    <3>1. CASE j = k /\ x.sessions[j] = s
      BY <1>7, <1>9, <1>14, <3>1
    <3>2. CASE j \in O!Up(srv) /\ x.sessions[j] = e[j] /\ e[j].cn # cn
      BY <1>7, <1>14, <3>2 DEF OGood, e
    <3>3. QED BY <1>15, <3>1, <3>2
  <2>3. ASSUME NEW i \in O!Up(x), NEW j \in O!Up(x), i # j PROVE x.sessions[i].cn # x.sessions[j].cn
    <3>1. CASE i = k /\ x.sessions[i] = s /\ x.sessions[j] = e[j] /\ e[j].cn # cn
      BY <1>9, <3>1
    <3>2. CASE j = k /\ x.sessions[j] = s /\ x.sessions[i] = e[i] /\ e[i].cn # cn
      BY <1>9, <3>2
    <3>3. CASE i \in O!Up(srv) /\ j \in O!Up(srv) /\ x.sessions[i] = e[i] /\ x.sessions[j] = e[j]
      BY <2>3, <3>3 DEF OGood, e
    <3>4. QED BY <1>15, <2>3, <3>1, <3>2, <3>3
  <2>4. QED BY <2>1, <2>2, <2>3 DEF OGood
<1>17. ASSUME NEW j \in OKeys, NEW sid \in Nat, NEW v \in Nat, Means(srv, j, sid, v), ~ (j = k /\ sid = m.sid)
       PROVE  Means(x, j, sid, v)
  <2>1. ASSUME j \in O!Up(x), x.sessions[j].sid = sid PROVE x.sessions[j].vip = v
    <3>1. CASE j = k /\ x.sessions[j] = s
      BY <1>9, <1>17, <2>1, <3>1
    <3>2. CASE j \in O!Up(srv) /\ x.sessions[j] = e[j]
      BY <1>17, <2>1, <3>2 DEF Means, e
    <3>3. QED BY <1>15, <2>1, <3>1, <3>2
  <2>2. QED BY <2>1 DEF Means
<1>18. ODoes(srv, c, m, x)
  BY <1>14, <1>16, <1>17 DEF ODoes, k
<1>19. told \in OLines /\ \A d \in OvpnClients : told[d] = <<>> \/ \E n \in OMsg : told[d] = <<n>> /\ n.op = "kicked"
  <2>1. CASE out = {}
    <3>1. told = O!Nobody
      BY <2>1
    <3> HIDE DEF told
    <3>2. QED BY <3>1, ONobody
  <2>2. CASE out # {}
    <3>1. o1 \in out
      BY <2>2
    <3> DEFINE t == e[o1]
    <3>2. o1 \in OKeys /\ t \in OSession
      BY <1>5, <1>10, <1>11, <3>1
    <3>3. told = O!Note(o1, "kicked", t)
      BY <2>2
    <3>4. "kicked" \in OOps
      BY DEF OOps
    <3> HIDE DEF told, o1, t
    <3>5. told \in OLines /\ (\A d \in OvpnClients : d # o1[1] => told[d] = <<>>)
      BY <3>2, <3>3, <3>4, ONotes
    <3>6. \E n \in OMsg : told[o1[1]] = <<n>> /\ n.op = "kicked"
      BY SMTT(60), <3>2, <3>3, <3>4, ONotes
    <3>7. QED BY <3>5, <3>6
  <2>3. QED BY <2>1, <2>2
<1> DEFINE note == O!Note(k, "push-reply", s)
<1>20. note \in OLines /\ (\A d \in OvpnClients : d # c => note[d] = <<>>)
  <2>1. "push-reply" \in OOps
    BY DEF OOps, OReplies
  <2> HIDE DEF note
  <2>2. note \in OLines /\ (\A d \in OvpnClients : d # k[1] => note[d] = <<>>)
    BY <1>3, <1>9, <2>1, ONotes DEF note
  <2>3. QED BY <1>3, <2>2
<1>21. PICK n \in OMsg : note[c] = <<n>> /\ n.op = "push-reply" /\ n.sid = m.sid /\ n.at = m.at /\ n.v = leases[cn]
  <2>1. "push-reply" \in OOps
    BY DEF OOps, OReplies
  <2> HIDE DEF note
  <2>2. \E n \in OMsg : note[k[1]] = <<n>> /\ n.op = "push-reply" /\ n.sid = s.sid /\ n.at = k[2] /\ n.v = s.vip
    BY <1>3, <1>9, <2>1, ONotes DEF note
  <2>3. QED BY <1>3, <1>9, <2>2
<1> HIDE DEF told, note
<1>22. outs \in OLines /\ \A d \in OvpnClients : outs[d] = told[d] \o note[d]
  BY <1>19, <1>20, OTells DEF note
<1>23. Means(x, k, m.sid, leases[cn])
  BY <1>9, <1>15 DEF Means
<1> HIDE DEF outs
<1>24. \A d \in OvpnClients \ {c} : \A i \in DOMAIN outs[d] : outs[d][i].op \notin OReplies
  <2> SUFFICES ASSUME NEW d \in OvpnClients \ {c}, NEW i \in DOMAIN outs[d] PROVE outs[d][i].op \notin OReplies
    OBVIOUS
  <2>1. outs[d] = told[d] \o <<>>
    BY <1>20, <1>22
  <2>2. CASE told[d] = <<>>
    BY <2>1, <2>2
  <2>3. ASSUME NEW n1 \in OMsg, told[d] = <<n1>>, n1.op = "kicked" PROVE outs[d][i].op \notin OReplies
    <3>1. outs[d] = <<n1>>
      BY <2>1, <2>3
    <3>2. outs[d][i] = n1
      BY <3>1
    <3>3. QED BY <2>3, <3>2 DEF OReplies
  <2>4. QED BY <1>19, <2>2, <2>3
<1>25. \A i, j \in DOMAIN outs[c] : outs[c][i].op \in OReplies /\ outs[c][j].op \in OReplies => i = j /\ outs[c][i] = n
  <2>1. outs[c] = told[c] \o <<n>>
    BY <1>21, <1>22
  <2>2. CASE told[c] = <<>>
    <3>1. outs[c] = <<n>>
      BY <2>1, <2>2
    <3>2. QED BY <3>1
  <2>3. ASSUME NEW n1 \in OMsg, told[c] = <<n1>>, n1.op = "kicked"
        PROVE  \A i, j \in DOMAIN outs[c] : outs[c][i].op \in OReplies /\ outs[c][j].op \in OReplies => i = j /\ outs[c][i] = n
    <3>1. \A i \in DOMAIN outs[c] : outs[c][i] = n1 \/ (i = 2 /\ outs[c][i] = n)
      BY <2>1, <2>3, TwoMessages
    <3>2. n1.op \notin OReplies
      BY <2>3 DEF OReplies
    <3>3. QED BY <3>1, <3>2
  <2>4. QED BY <1>19, <2>2, <2>3
<1>26. OSays(c, m, x, outs)
  <2>1. ASSUME NEW d \in OvpnClients, NEW i \in DOMAIN outs[d], outs[d][i].op \in OReplies
        PROVE  /\ d = c /\ m.op \notin OBeside /\ outs[d][i].sid = m.sid /\ outs[d][i].at = m.at
               /\ outs[d][i].op = "push-reply" => Means(x, <<c, m.at>>, m.sid, outs[d][i].v)
    <3>1. d = c
      BY <1>24, <2>1
    <3>2. outs[d][i] = n
      BY <1>25, <2>1, <3>1
    <3>3. QED BY <1>21, <1>23, <3>1, <3>2 DEF k
  <2>2. Few({i \in DOMAIN outs[c] : outs[c][i].op \in OReplies})
    BY <1>25 DEF Few
  <2>3. QED BY <1>22, <2>1, <2>2 DEF OSays
<1>27. QED BY <1>18, <1>26

\* What clients ask is asked for one of the four steps, or beside them.
OAsk == [op : OReqs \cup OBeside, sid : Nat, at : {1, 2}, v : Nat]

LEMMA OAskIs ==
  ASSUME NEW m \in OAsk
  PROVE  m \in OMsg /\ m.op \in OReqs \cup OBeside /\ m.sid \in Nat /\ m.at \in {1, 2}
BY DEF OAsk, OMsg, OOps

\* The session at k becomes t, which is not up, and the client is told so.
LEMMA OSaysPut ==
  ASSUME NEW srv \in OServer, OGood(srv), NEW c \in OvpnClients, NEW m \in OMsg, m.op \notin OBeside,
         NEW op \in OReplies, op # "push-reply", NEW t \in OSession, t.phase # "up", t.sid = m.sid
  PROVE  LET x == [srv EXCEPT !.sessions = O!Put(@, <<c, m.at>>, t)]
         IN  ODoes(srv, c, m, x) /\ OSays(c, m, x, O!Note(<<c, m.at>>, op, t))
<1> DEFINE x == [srv EXCEPT !.sessions = O!Put(@, <<c, m.at>>, t)]
<1>1. ODoes(srv, c, m, x)
  BY ODoesPut
<1> HIDE DEF x
<1>2. op \in OOps
  BY DEF OOps
<1>3. OSays(c, m, x, O!Note(<<c, m.at>>, op, t))
  BY <1>2, OSaysNote
<1>4. QED BY <1>1, <1>3 DEF x

LEMMA OHandles ==
  ASSUME NEW srv \in OServer, OGood(srv), NEW c \in OvpnClients, NEW m \in OAsk, cnOf[c] \in ONames,
         NEW r \in O!HandleMessage(srv, <<c, m.at>>, m)
  PROVE  ODoes(srv, c, m, r.srv) /\ OSays(c, m, r.srv, r.out)
<1> DEFINE k == <<c, m.at>>
           e == srv.sessions
           s == e[k]
           keep == [srv |-> srv, out |-> O!Nobody]
           say(op, t) == [srv |-> [srv EXCEPT !.sessions = O!Put(@, k, t)], out |-> O!Note(k, op, t)]
           fresh == [sid |-> m.sid, phase |-> "reset", cn |-> cnOf[c], vip |-> 0, replies |-> {"reset"}, refused |-> FALSE]
           answer == IF m.op = "auth" /\ s.refused THEN "tls-fail" ELSE O!Answer[m.op]
           done(x) == ODoes(srv, c, m, x.srv) /\ OSays(c, m, x.srv, x.out)
<1>1. m \in OMsg /\ m.op \in OReqs \cup OBeside /\ m.sid \in Nat /\ m.at \in {1, 2}
  BY OAskIs
<1>2. k \in OKeys /\ k[1] = c /\ k[2] = m.at
  BY <1>1, OKey
<1>3. e \in Partial(OKeys, OSession)
  BY DEF OServer
<1>4. O!ServerKnows(srv, k, m) => s \in OSession /\ s.sid = m.sid
  BY <1>3, PartialIs DEF O!ServerKnows
<1>5. done(keep)
  <2>1. ODoes(srv, c, m, srv) /\ OSays(c, m, srv, O!Nobody)
    BY ODoesNothing, OSaysNothing
  <2>2. keep.srv = srv /\ keep.out = O!Nobody
    OBVIOUS
  <2> HIDE DEF keep
  <2>3. QED BY <2>1, <2>2
<1>6. ASSUME m.op = "ping", O!ServerKnows(srv, k, m), r = [srv |-> srv, out |-> O!Note(k, "ping", s)] PROVE done(r)
  <2>1. "ping" \in OOps /\ "ping" \notin OReplies
    BY DEF OOps, OReplies, OBeside
  <2>2. s \in OSession
    BY <1>4, <1>6
  <2> HIDE DEF s
  <2>3. OSays(c, m, srv, O!Note(k, "ping", s))
    BY <1>1, <2>1, <2>2, OSaysNote
  <2>4. ODoes(srv, c, m, srv)
    BY ODoesNothing
  <2> HIDE DEF k
  <2>5. r.srv = srv /\ r.out = O!Note(k, "ping", s)
    BY <1>6
  <2>6. QED BY <2>3, <2>4, <2>5
<1>7. ASSUME r = [srv |-> [srv EXCEPT !.sessions = O!Without(@, k)], out |-> O!Nobody] PROVE done(r)
  <2> DEFINE f == O!Without(e, k)
             x == [srv EXCEPT !.sessions = f]
  <2>1. f \in Partial(OKeys, OSession) /\ DOMAIN f = DOMAIN e \ {k} /\ Agree(f, e, DOMAIN e \ {k})
    BY <1>3, WithoutIs
  <2>2. r = [srv |-> x, out |-> O!Nobody]
    BY <1>7
  <2> HIDE DEF f, k, e
  <2>3. x \in OServer /\ x.sessions = f /\ x.leases = srv.leases
    BY <2>1 DEF OServer
  <2> HIDE DEF x
  <2>4. DOMAIN x.sessions \subseteq DOMAIN srv.sessions /\ \A j \in DOMAIN x.sessions : x.sessions[j] = srv.sessions[j]
    BY <2>1, <2>3 DEF Agree, e
  <2>5. ODoes(srv, c, m, x)
    BY <2>3, <2>4, ODoesDrop
  <2>6. OSays(c, m, x, O!Nobody)
    BY OSaysNothing
  <2>7. r.srv = x /\ r.out = O!Nobody
    BY <2>2
  <2>8. QED BY <2>5, <2>6, <2>7
<1>8. ASSUME m.op \notin OBeside, O!ServerKnows(srv, k, m), r = [srv |-> srv, out |-> O!Note(k, answer, s)] PROVE done(r)
  <2>1. answer \in OReplies /\ answer \in OOps
    BY <1>1, <1>8 DEF OReqs, OReplies, OOps, O!Answer
  <2>2. s \in OSession /\ s.sid = m.sid
    BY <1>4, <1>8
  <2>3. Means(srv, k, m.sid, s.vip)
    BY DEF Means
  <2> HIDE DEF s, answer
  <2>4. OSays(c, m, srv, O!Note(k, answer, s))
    BY <1>1, <1>8, <2>1, <2>2, <2>3, OSaysNote
  <2>5. ODoes(srv, c, m, srv)
    BY ODoesNothing
  <2> HIDE DEF k
  <2>6. r.srv = srv /\ r.out = O!Note(k, answer, s)
    BY <1>8
  <2>7. QED BY <2>4, <2>5, <2>6
<1>9. ASSUME m.op \notin OBeside, NEW op \in OReplies, op # "push-reply", NEW t \in OSession, t.phase # "up", t.sid = m.sid,
             r = say(op, t)
      PROVE  done(r)
  <2> DEFINE x == [srv EXCEPT !.sessions = O!Put(@, k, t)]
  <2>1. ODoes(srv, c, m, x) /\ OSays(c, m, x, O!Note(k, op, t))
    BY <1>1, <1>9, OSaysPut
  <2>2. r = [srv |-> x, out |-> O!Note(k, op, t)]
    BY <1>9
  <2> HIDE DEF x, k
  <2>3. r.srv = x /\ r.out = O!Note(k, op, t)
    BY <2>2
  <2>4. QED BY <2>1, <2>3
<1>10. ASSUME m.op \notin OBeside, O!ServerKnows(srv, k, m), s.phase # "up",
              NEW leases \in O!Allocate(srv, s.cn), r = O!Grant(srv, k, leases)
       PROVE  done(r)
  BY <1>1, <1>10, OGrants
<1>11. fresh \in OSession /\ fresh.phase # "up" /\ fresh.sid = m.sid
  BY <1>1 DEF OSession, OReqs
<1> DEFINE asTls == [s EXCEPT !.phase = "tls", !.replies = @ \cup {"tls"}]
           asFailed == [s EXCEPT !.phase = "failed", !.refused = TRUE, !.replies = @ \cup {"auth"}]
           asAuth == [s EXCEPT !.phase = "auth", !.replies = @ \cup {"auth"}]
           leased == O!Allocate(srv, s.cn)
<1>12. ASSUME O!ServerKnows(srv, k, m)
       PROVE  /\ asTls \in OSession /\ asTls.phase # "up" /\ asTls.sid = m.sid
              /\ asFailed \in OSession /\ asFailed.phase # "up" /\ asFailed.sid = m.sid
              /\ asAuth \in OSession /\ asAuth.phase # "up" /\ asAuth.sid = m.sid
  <2>1. s \in OSession /\ s.sid = m.sid
    BY <1>4, <1>12
  <2> HIDE DEF s
  <2>2. QED BY <2>1 DEF OSession, OReqs
<1>13. r \in IF m.op \in {"data", "ping", "exit"}
             THEN IF ~O!ServerKnows(srv, k, m) \/ s.phase # "up" \/ m.op = "data" THEN {keep}
                  ELSE IF m.op = "ping" THEN {[srv |-> srv, out |-> O!Note(k, "ping", s)]}
                  ELSE {[srv |-> [srv EXCEPT !.sessions = O!Without(@, k)], out |-> O!Nobody]}
             ELSE IF O!ServerKnows(srv, k, m) /\ m.op \in s.replies THEN {[srv |-> srv, out |-> O!Note(k, answer, s)]}
             ELSE IF m.op = "reset" THEN {say("reset-server", fresh)}
             ELSE IF ~O!ServerKnows(srv, k, m) THEN {keep}
             ELSE IF m.op = "tls" THEN {say("tls-server", asTls)}
             ELSE IF m.op = "auth" THEN {IF s.cn \in srv.revoked THEN say("tls-fail", asFailed) ELSE say("tls-ok", asAuth)}
             ELSE IF s.phase # "auth" \/ leased = {} THEN {keep}
             ELSE {O!Grant(srv, k, leases) : leases \in leased}
  <2>1. k[1] = c
    OBVIOUS
  <2> HIDE DEF k
  <2>2. QED BY <2>1 DEF O!HandleMessage, k
<1> HIDE DEF k, s, keep, answer, fresh, say, done, asTls, asFailed, asAuth, leased
<1>14. done(r)
  <2>1. CASE m.op \in OBeside
    <3>1. m.op \in {"data", "ping", "exit"}
      BY <2>1 DEF OBeside
    <3>2. QED BY <1>5, <1>6, <1>7, <1>13, <3>1
  <2>2. CASE m.op \notin OBeside
    <3>1. m.op \notin {"data", "ping", "exit"}
      BY <2>2 DEF OBeside
    <3>2. {"reset-server", "tls-server", "tls-ok", "tls-fail"} \subseteq OReplies
      BY DEF OReplies
    <3>3. CASE O!ServerKnows(srv, k, m) /\ m.op \in s.replies
      BY <1>8, <1>13, <2>2, <3>1, <3>3
    <3>4. CASE ~ (O!ServerKnows(srv, k, m) /\ m.op \in s.replies) /\ m.op = "reset"
      <4>1. r = say("reset-server", fresh)
        BY <1>13, <3>1, <3>4
      <4>2. QED BY <1>9, <1>11, <2>2, <3>2, <4>1
    <3>5. CASE m.op # "reset" /\ ~ O!ServerKnows(srv, k, m)
      <4>1. r = keep
        BY <1>13, <3>1, <3>5
      <4>2. QED BY <1>5, <4>1
    <3>6. CASE m.op # "reset" /\ O!ServerKnows(srv, k, m) /\ m.op \notin s.replies
      <4>1. CASE m.op = "tls"
        <5>1. r = say("tls-server", asTls)
          BY <1>13, <3>1, <3>6, <4>1
        <5>2. QED BY <1>9, <1>12, <2>2, <3>2, <3>6, <5>1
      <4>2. CASE m.op = "auth"
        <5>1. r = say("tls-fail", asFailed) \/ r = say("tls-ok", asAuth)
          BY <1>13, <3>1, <3>6, <4>2
        <5>2. QED BY <1>9, <1>12, <2>2, <3>2, <3>6, <5>1
      <4>3. CASE m.op \notin {"tls", "auth"} /\ (s.phase # "auth" \/ leased = {})
        <5>1. r = keep
          BY <1>13, <3>1, <3>6, <4>3
        <5>2. QED BY <1>5, <5>1
      <4>4. CASE m.op \notin {"tls", "auth"} /\ ~ (s.phase # "auth" \/ leased = {})
        <5>1. PICK leases \in leased : r = O!Grant(srv, k, leases)
          BY <1>13, <3>1, <3>6, <4>4
        <5>2. s.phase # "up"
          BY <4>4
        <5>3. QED BY <1>10, <2>2, <3>6, <5>1, <5>2 DEF leased
      <4>5. QED BY <4>1, <4>2, <4>3, <4>4
    <3>7. QED BY <3>3, <3>4, <3>5, <3>6
  <2>3. QED BY <2>1, <2>2
<1>15. QED BY <1>14 DEF done

-------------------------------------------------------------------------------
(* OpenVPN: a client and its lines *)

OPhases  == {"none", "reset", "tls", "auth", "up"}
OTunnel  == [phase : OPhases, sid : Nat, pending : OReqs \cup {"none"}, tries : Nat, vip : Nat, heard : BOOLEAN]
OClient  == [s : OTunnel, enabled : BOOLEAN, failed : {"no", "name", "transient", "kicked", "refused"}, resolving : BOOLEAN,
             resolveTries : Nat, reconnect : BOOLEAN, retry : BOOLEAN]

\* The requests of session sid from place p, and their answers
OAsked(sid, p)    == {m \in OMsg : m.op \notin OBeside /\ m.sid = sid /\ m.at = p}
OAnswered(sid, p) == {m \in OMsg : m.op \in OReplies /\ m.sid = sid /\ m.at = p}

\* The answers under way to session sid that name an address name the one the server has for it
ORight(sid, p, r, srv, c) ==
  \A i \in Mine(r, OAnswered(sid, p)) : r[i].op = "push-reply" => Means(srv, <<c, p>>, sid, r[i].v)

\* A client of session s at place p, its lines q to the server and r from it, and the server
OLine(s, p, q, r, srv, c) ==
  \/ s = O!Off
  \/ /\ s.phase # "none"
     /\ Token(q, r, OAsked(s.sid, p), OAnswered(s.sid, p))
     /\ ORight(s.sid, p, r, srv, c)
     /\ s.phase = "up" => /\ s.pending = "none" /\ NoToken(q, r, OAsked(s.sid, p), OAnswered(s.sid, p))
                          /\ Means(srv, <<c, p>>, s.sid, s.vip)

LEMMA OLineLost ==
  ASSUME NEW s \in OTunnel, NEW p \in {1, 2}, NEW q \in Seq(OMsg), NEW r \in Seq(OMsg), NEW srv, NEW c \in OvpnClients,
         OLine(s, p, q, r, srv, c)
  PROVE  /\ q # <<>> => OLine(s, p, Tail(q), r, srv, c)
         /\ r # <<>> => OLine(s, p, q, Tail(r), srv, c)
<1> DEFINE Qs == OAsked(s.sid, p)
           Rs == OAnswered(s.sid, p)
<1>1. CASE s = O!Off
  BY <1>1 DEF OLine
<1>2. CASE s # O!Off
  <2>1. /\ s.phase # "none" /\ Token(q, r, Qs, Rs) /\ ORight(s.sid, p, r, srv, c)
        /\ s.phase = "up" => s.pending = "none" /\ NoToken(q, r, Qs, Rs) /\ Means(srv, <<c, p>>, s.sid, s.vip)
    BY <1>2 DEF OLine
  <2>2. ASSUME q # <<>> PROVE OLine(s, p, Tail(q), r, srv, c)
    <3> HIDE DEF Qs, Rs
    <3>1. Token(Tail(q), r, Qs, Rs) /\ (NoToken(q, r, Qs, Rs) => NoToken(Tail(q), r, Qs, Rs))
      BY <2>1, <2>2, TokenLost
    <3>2. QED BY <2>1, <3>1 DEF OLine, Qs, Rs
  <2>3. ASSUME r # <<>> PROVE OLine(s, p, q, Tail(r), srv, c)
    <3>1. ORight(s.sid, p, Tail(r), srv, c)
      <4>1. \A i \in Mine(Tail(r), Rs) : i + 1 \in Mine(r, Rs) /\ Tail(r)[i] = r[i + 1]
        BY <2>3, SeqOf DEF Mine
      <4>2. QED BY <2>1, <4>1 DEF ORight
    <3> HIDE DEF Qs, Rs
    <3>2. Token(r, q, Rs, Qs) /\ (NoToken(q, r, Qs, Rs) => NoToken(r, q, Rs, Qs))
      BY <2>1, TokenBack
    <3>3. Token(Tail(r), q, Rs, Qs) /\ (NoToken(q, r, Qs, Rs) => NoToken(Tail(r), q, Rs, Qs))
      BY <2>3, <3>2, TokenLost
    <3>4. Token(q, Tail(r), Qs, Rs) /\ (NoToken(q, r, Qs, Rs) => NoToken(q, Tail(r), Qs, Rs))
      BY <3>3, TokenBack
    <3>5. QED BY <2>1, <3>1, <3>4 DEF OLine, Qs, Rs
  <2>4. QED BY <2>2, <2>3
<1>3. QED BY <1>1, <1>2

\* The server has changed, not what it has for this session, and told the client things beside its requests.
LEMMA OLineTold ==
  ASSUME NEW s \in OTunnel, NEW p \in {1, 2}, NEW q \in Seq(OMsg), NEW r \in Seq(OMsg), NEW out \in Seq(OMsg), NEW srv, NEW srv2,
         NEW c \in OvpnClients, OLine(s, p, q, r, srv, c), Mine(out, OAnswered(s.sid, p)) = {},
         \A v \in Nat : Means(srv, <<c, p>>, s.sid, v) => Means(srv2, <<c, p>>, s.sid, v)
  PROVE  OLine(s, p, q, r \o out, srv2, c)
<1> DEFINE Qs == OAsked(s.sid, p)
           Rs == OAnswered(s.sid, p)
<1>1. CASE s = O!Off
  BY <1>1 DEF OLine
<1>2. CASE s # O!Off
  <2>1. /\ s.phase # "none" /\ Token(q, r, Qs, Rs) /\ ORight(s.sid, p, r, srv, c)
        /\ s.phase = "up" => s.pending = "none" /\ NoToken(q, r, Qs, Rs) /\ Means(srv, <<c, p>>, s.sid, s.vip)
    BY <1>2 DEF OLine
  <2>2. \A i \in DOMAIN (r \o out) : \/ i \in DOMAIN r /\ (r \o out)[i] = r[i]
                                     \/ i - Len(r) \in DOMAIN out /\ (r \o out)[i] = out[i - Len(r)]
    BY SeqMore
  <2>3. \A i \in Mine(r \o out, Rs) : i \in Mine(r, Rs) /\ (r \o out)[i] = r[i]
    <3> HIDE DEF Rs
    <3>1. Mine(out, Rs) = {}
      BY DEF Rs
    <3>2. QED BY <2>2, <3>1 DEF Mine
  <2>4. ORight(s.sid, p, r \o out, srv2, c)
    <3> SUFFICES ASSUME NEW i \in Mine(r \o out, Rs), (r \o out)[i].op = "push-reply"
                 PROVE  Means(srv2, <<c, p>>, s.sid, (r \o out)[i].v)
      BY DEF ORight
    <3>1. i \in Mine(r, Rs) /\ (r \o out)[i] = r[i]
      BY <2>3
    <3>2. r[i].v \in Nat
      <4> HIDE DEF Rs
      <4>1. r[i] \in OMsg
        BY <3>1, SeqOf DEF Mine
      <4>2. QED BY <4>1 DEF OMsg
    <3>3. Means(srv, <<c, p>>, s.sid, r[i].v)
      BY <2>1, <3>1 DEF ORight
    <3>4. QED BY <3>1, <3>2, <3>3
  <2>5. s.vip \in Nat
    BY DEF OTunnel
  <2> HIDE DEF Qs, Rs
  <2>6. Few(Mine(r, Rs)) => Few(Mine(r \o out, Rs))
    BY <2>3 DEF Few
  <2>7. Mine(r, Rs) = {} => Mine(r \o out, Rs) = {}
    BY <2>3
  <2>8. Token(q, r \o out, Qs, Rs) /\ (NoToken(q, r, Qs, Rs) => NoToken(q, r \o out, Qs, Rs))
    BY <2>1, <2>6, <2>7 DEF Token, NoToken
  <2>9. QED BY <2>1, <2>4, <2>5, <2>8 DEF OLine, Qs, Rs
<1>3. QED BY <1>1, <1>2

\* The server answers a request of this session.
LEMMA OLineServed ==
  ASSUME NEW s \in OTunnel, NEW p \in {1, 2}, NEW q \in Seq(OMsg), NEW r \in Seq(OMsg), NEW out \in Seq(OMsg), NEW srv, NEW srv2,
         NEW c \in OvpnClients, OLine(s, p, q, r, srv, c), q # <<>>, Head(q) \in OAsked(s.sid, p),
         Few(Mine(out, OAnswered(s.sid, p))), ORight(s.sid, p, out, srv2, c)
  PROVE  OLine(s, p, Tail(q), r \o out, srv2, c)
<1> DEFINE Qs == OAsked(s.sid, p)
           Rs == OAnswered(s.sid, p)
<1>1. CASE s = O!Off
  BY <1>1 DEF OLine
<1>2. CASE s # O!Off
  <2>1. /\ s.phase # "none" /\ Token(q, r, Qs, Rs)
        /\ s.phase = "up" => NoToken(q, r, Qs, Rs)
    BY <1>2 DEF OLine
  <2>2. Head(q) \in Qs /\ Few(Mine(out, Rs))
    OBVIOUS
  <2> HIDE DEF Qs, Rs
  <2>3. Token(Tail(q), r \o out, Qs, Rs)
    BY <2>1, <2>2, TokenTurn
  <2>4. Mine(q, Qs) # {}
    BY <2>2, SeqOf DEF Mine
  <2>5. s.phase # "up" /\ Mine(r, Rs) = {}
    BY <2>1, <2>4 DEF Token, NoToken
  <2>6. \A i \in DOMAIN (r \o out) : \/ i \in DOMAIN r /\ (r \o out)[i] = r[i]
                                     \/ i - Len(r) \in DOMAIN out /\ (r \o out)[i] = out[i - Len(r)]
    BY SeqMore
  <2>7. \A i \in Mine(r \o out, Rs) : i - Len(r) \in Mine(out, Rs) /\ (r \o out)[i] = out[i - Len(r)]
    BY <2>5, <2>6 DEF Mine
  <2>8. ORight(s.sid, p, r \o out, srv2, c)
    BY <2>7 DEF ORight, Rs
  <2>9. QED BY <2>1, <2>3, <2>5, <2>8 DEF OLine, Qs, Rs
<1>3. QED BY <1>1, <1>2

\* The client asks, with nothing of its session under way.
LEMMA OLineAsks ==
  ASSUME NEW s \in OTunnel, NEW p \in {1, 2}, NEW q \in Seq(OMsg), NEW r \in Seq(OMsg), NEW n \in OMsg, NEW srv, NEW c \in OvpnClients,
         s.phase \notin {"none", "up"}, NoToken(q, r, OAsked(s.sid, p), OAnswered(s.sid, p))
  PROVE  OLine(s, p, q \o <<n>>, r, srv, c)
<1> DEFINE Qs == OAsked(s.sid, p)
           Rs == OAnswered(s.sid, p)
           out == <<n>>
<1>1. Few(Mine(out, Qs))
  BY FewOne
<1>2. out \in Seq(OMsg) /\ NoToken(q, r, Qs, Rs)
  OBVIOUS
<1>3. ORight(s.sid, p, r, srv, c)
  BY DEF ORight, NoToken
<1> HIDE DEF Qs, Rs, out
<1>4. Token(q \o out, r, Qs, Rs)
  BY <1>1, <1>2, TokenAsked
<1>5. OLine(s, p, q \o out, r, srv, c)
  BY <1>3, <1>4 DEF OLine, Qs, Rs
<1>6. QED BY <1>5 DEF out

\* The client says something beside its requests, or nothing, and stays where it is.
LEMMA OLineBeside ==
  ASSUME NEW s \in OTunnel, NEW t \in OTunnel, NEW p \in {1, 2}, NEW q \in Seq(OMsg), NEW r \in Seq(OMsg), NEW out \in Seq(OMsg),
         NEW srv, NEW c \in OvpnClients, OLine(s, p, q, r, srv, c), s # O!Off,
         t.phase = s.phase, t.sid = s.sid, t.pending = s.pending, t.vip = s.vip, \A i \in DOMAIN out : out[i].op \in OBeside
  PROVE  OLine(t, p, q \o out, r, srv, c)
<1> DEFINE Qs == OAsked(s.sid, p)
           Rs == OAnswered(s.sid, p)
<1>1. /\ s.phase # "none" /\ Token(q, r, Qs, Rs) /\ ORight(s.sid, p, r, srv, c)
      /\ s.phase = "up" => s.pending = "none" /\ NoToken(q, r, Qs, Rs) /\ Means(srv, <<c, p>>, s.sid, s.vip)
  BY DEF OLine
<1>2. Mine(out, Qs) = {}
  BY DEF Mine, OAsked
<1> HIDE DEF Qs, Rs
<1>3. /\ Mine(q, Qs) = {} => Mine(q \o out, Qs) = {}
      /\ Few(Mine(q, Qs)) => Few(Mine(q \o out, Qs))
  BY <1>2, MineMore
<1>4. Token(q \o out, r, Qs, Rs) /\ (NoToken(q, r, Qs, Rs) => NoToken(q \o out, r, Qs, Rs))
  BY <1>1, <1>3 DEF Token, NoToken
<1>5. QED BY <1>1, <1>4 DEF OLine, Qs, Rs

-------------------------------------------------------------------------------
(* OpenVPN: the client's steps *)

\* What becomes of the rest of a client when its tunnel changes, and of its tunnel when the rest does.
LEMMA OTunnelPut ==
  ASSUME NEW x \in OClient, NEW t \in OTunnel
  PROVE  [x EXCEPT !.s = t] \in OClient /\ [x EXCEPT !.s = t].s = t
BY DEF OClient

LEMMA OOff ==
  O!Off \in OTunnel /\ O!Off.phase = "none"
BY DEF O!Off, O!NotUp, OTunnel, OPhases

LEMMA OPlain ==
  ASSUME NEW x \in OClient
  PROVE  /\ O!ScheduleReconnect(x) \in OClient /\ O!ScheduleReconnect(x).s = x.s
         /\ O!ScheduleRetry(x) \in OClient /\ O!ScheduleRetry(x).s = x.s
         /\ O!StopRetry(x) \in OClient /\ O!StopRetry(x).s = x.s
BY DEF O!ScheduleReconnect, O!ScheduleRetry, O!StopRetry, OClient

LEMMA OForgets ==
  ASSUME NEW x \in OClient
  PROVE  O!Forget(x) \in OClient /\ O!Forget(x).s = O!Off
<1>1. O!Forget(x) = [x EXCEPT !.s = O!Off]
  BY DEF O!Forget
<1> DEFINE t == O!Off
<1>2. t \in OTunnel
  BY OOff
<1> HIDE DEF t
<1>3. [x EXCEPT !.s = t] \in OClient /\ [x EXCEPT !.s = t].s = t
  BY <1>2, OTunnelPut
<1>4. QED BY <1>1, <1>3 DEF t

LEMMA OFailedAs ==
  ASSUME NEW x \in OClient, NEW why \in {"no", "name", "transient", "kicked", "refused"}
  PROVE  [x EXCEPT !.failed = why] \in OClient /\ [x EXCEPT !.failed = why].s = x.s
BY DEF OClient

LEMMA OFails ==
  ASSUME NEW x \in OClient, NEW why \in {"no", "name", "transient", "kicked", "refused"}
  PROVE  O!Fail(x, why) \in OClient /\ O!Fail(x, why).s = O!Off
<1> DEFINE f == O!Forget(x)
           y == [f EXCEPT !.failed = why]
<1>1. f \in OClient /\ f.s = O!Off
  BY OForgets
<1> HIDE DEF f
<1>2. y \in OClient /\ y.s = O!Off
  BY <1>1, OFailedAs
<1>3. O!Fail(x, why) = IF why = "transient" THEN O!ScheduleRetry(y) ELSE y
  BY DEF O!Fail, f
<1> HIDE DEF y
<1>4. O!ScheduleRetry(y) \in OClient /\ O!ScheduleRetry(y).s = y.s
  BY <1>2, OPlain
<1>5. QED BY <1>2, <1>3, <1>4

LEMMA OConnects ==
  ASSUME NEW x \in OClient
  PROVE  O!Connect(x) \in OClient /\ O!Connect(x).s = x.s
<1> DEFINE y == IF x.failed = "name" /\ ~x.resolving THEN [x EXCEPT !.failed = "no", !.resolveTries = 0] ELSE x
<1>1. y \in OClient /\ y.s = x.s
  BY DEF OClient
<1>2. O!Connect(x) = IF y.enabled /\ y.s = O!Off /\ ~y.resolving /\ y.failed = "no" THEN [y EXCEPT !.resolving = TRUE] ELSE y
  BY DEF O!Connect
<1> HIDE DEF y
<1>3. [y EXCEPT !.resolving = TRUE] \in OClient /\ [y EXCEPT !.resolving = TRUE].s = y.s
  BY <1>1 DEF OClient
<1>4. QED BY <1>1, <1>2, <1>3

LEMMA ORequests ==
  ASSUME NEW x \in OClient, NEW c \in OvpnClients, place[c] \in {1, 2}, NEW phase \in OPhases, NEW op \in OReqs
  PROVE  LET step == O!Request(c, x, phase, op)
         IN  /\ step.x \in OClient /\ step.x.s.phase = phase /\ step.x.s.sid = x.s.sid
             /\ \E n \in OAsk : step.out = <<n>>
<1> DEFINE t == [x.s EXCEPT !.phase = phase, !.pending = op, !.tries = 1]
           z == [x EXCEPT !.s = t]
           n == [op |-> op, sid |-> t.sid, at |-> place[c], v |-> 0]
<1>1. x.s \in OTunnel
  BY DEF OClient
<1>2. t \in OTunnel /\ t.phase = phase /\ t.sid = x.s.sid
  BY <1>1 DEF OTunnel
<1>3. O!Request(c, x, phase, op) = [x |-> z, out |-> <<n>>]
  BY DEF O!Request, O!Msg
<1> HIDE DEF t
<1>4. z \in OClient /\ z.s = t
  BY <1>2, OTunnelPut
<1>5. n \in OAsk
  BY <1>2 DEF OAsk, OTunnel
<1> HIDE DEF z, n
<1>6. QED BY <1>2, <1>3, <1>4, <1>5

\* An answer to the client's session.
LEMMA OLineHeard ==
  ASSUME NEW c \in OvpnClients, ovpn[c] \in OClient, place[c] \in {1, 2}, NEW q \in Seq(OMsg), NEW r \in Seq(OMsg), r # <<>>,
         OLine(ovpn[c].s, place[c], q, r, ovpnServer, c),
         Head(r).at = place[c], ovpn[c].s # O!Off, Head(r).sid = ovpn[c].s.sid
  PROVE  LET step == O!Heard(c, Head(r))
         IN  /\ step.x \in OClient /\ step.out \in Seq(OAsk)
             /\ OLine(step.x.s, place[c], q \o step.out, Tail(r), ovpnServer, c)
<1> DEFINE w == ovpn[c]
           p == place[c]
           m == Head(r)
           hs == [w.s EXCEPT !.heard = TRUE]
           x == [w EXCEPT !.s = hs]
           ys == [hs EXCEPT !.pending = "none"]
           y == [w EXCEPT !.s = ys]
           us == [ys EXCEPT !.vip = m.v, !.phase = "up"]
           u == [w EXCEPT !.s = us]
           Qs == OAsked(w.s.sid, p)
           Rs == OAnswered(w.s.sid, p)
           awaited == w.s.pending # "none" /\ m.op \in {O!Answer[w.s.pending]} \cup (IF w.s.pending = "auth" THEN {"tls-fail"} ELSE {})
           fine(step) == /\ step.x \in OClient /\ step.out \in Seq(OAsk)
                         /\ OLine(step.x.s, p, q \o step.out, Tail(r), ovpnServer, c)
<1>1. m \in OMsg /\ Tail(r) \in Seq(OMsg) /\ m.v \in Nat
  <2>1. m \in OMsg /\ Tail(r) \in Seq(OMsg)
    BY SeqOf
  <2> HIDE DEF m
  <2>2. m.v \in Nat
    BY <2>1 DEF OMsg
  <2>3. QED BY <2>1, <2>2
<1>2. w.s \in OTunnel
  BY DEF OClient
<1>3. hs \in OTunnel /\ hs.phase = w.s.phase /\ hs.sid = w.s.sid /\ hs.pending = w.s.pending /\ hs.vip = w.s.vip
  BY <1>2 DEF OTunnel
<1>4. ys \in OTunnel /\ ys.phase = w.s.phase /\ ys.sid = w.s.sid
  BY <1>2 DEF OTunnel
<1>5. us \in OTunnel /\ us.phase = "up" /\ us.sid = w.s.sid /\ us.pending = "none" /\ us.vip = m.v
  BY <1>1, <1>2 DEF OTunnel, OPhases
<1>6. O!Heard(c, m) =
        IF m.op = "kicked" THEN O!Still([x EXCEPT !.s = O!Off, !.failed = "kicked"])
        ELSE IF m.op = "restart" THEN O!Still(O!ScheduleReconnect(O!Forget(x)))
        ELSE IF ~awaited THEN O!Still(x)
        ELSE IF m.op = "reset-server" THEN O!Request(c, y, "tls", "tls")
        ELSE IF m.op = "tls-server" THEN O!Request(c, y, "auth", "auth")
        ELSE IF m.op = "tls-fail" THEN O!Still([O!Forget(y) EXCEPT !.failed = "refused"])
        ELSE IF m.op = "tls-ok" THEN O!Request(c, y, "auth", "push")
        ELSE O!Still(O!StopRetry(u))
  <2> DEFINE x1 == [ovpn[c] EXCEPT !.s.heard = TRUE]
             y1 == [x1 EXCEPT !.s.pending = "none"]
             u1 == [y1 EXCEPT !.s.vip = m.v, !.s.phase = "up"]
             awaited1 == /\ x1.s.pending # "none"
                         /\ m.op \in {O!Answer[x1.s.pending]} \cup (IF x1.s.pending = "auth" THEN {"tls-fail"} ELSE {})
  <2>1. x1 = x /\ x1.s.pending = w.s.pending
    BY <1>2 DEF OClient, OTunnel
  <2>2. y1 = y
    <3>1. x.s = hs
      BY <1>2 DEF OClient
    <3> HIDE DEF x1, hs
    <3>2. [x EXCEPT !.s.pending = "none"] = [x EXCEPT !.s = [hs EXCEPT !.pending = "none"]]
      BY <3>1
    <3>3. QED BY <2>1, <3>2
  <2>3. u1 = u
    <3>1. y.s = ys
      BY <1>2 DEF OClient
    <3> HIDE DEF y1, ys
    <3>2. [y EXCEPT !.s.vip = m.v, !.s.phase = "up"] = [y EXCEPT !.s = [ys EXCEPT !.vip = m.v, !.phase = "up"]]
      BY <3>1
    <3>3. QED BY <2>2, <3>2
  <2>4. awaited1 = awaited
    BY <2>1
  <2>5. O!Heard(c, m) =
        IF m.op = "kicked" THEN O!Still([x1 EXCEPT !.s = O!Off, !.failed = "kicked"])
        ELSE IF m.op = "restart" THEN O!Still(O!ScheduleReconnect(O!Forget(x1)))
        ELSE IF ~awaited1 THEN O!Still(x1)
        ELSE IF m.op = "reset-server" THEN O!Request(c, y1, "tls", "tls")
        ELSE IF m.op = "tls-server" THEN O!Request(c, y1, "auth", "auth")
        ELSE IF m.op = "tls-fail" THEN O!Still([O!Forget(y1) EXCEPT !.failed = "refused"])
        ELSE IF m.op = "tls-ok" THEN O!Request(c, y1, "auth", "push")
        ELSE O!Still(O!StopRetry(u1))
    <3> HIDE DEF m
    <3>1. QED BY DEF O!Heard
  <2> HIDE DEF x, y, u, awaited, x1, y1, u1, awaited1, w, m
  <2>6. QED BY <2>1, <2>2, <2>3, <2>4, <2>5
<1>7. x \in OClient /\ x.s = hs /\ y \in OClient /\ y.s = ys /\ u \in OClient /\ u.s = us
  <2> HIDE DEF hs, ys, us
  <2>1. QED BY <1>3, <1>4, <1>5, OTunnelPut
<1> HIDE DEF x, y, u, hs, ys, us
<1>8. ASSUME NEW z \in OClient, z.s = O!Off PROVE fine(O!Still(z))
  <2>1. O!Still(z).x = z /\ O!Still(z).out = <<>>
    BY DEF O!Still
  <2>2. OLine(z.s, p, q \o O!Still(z).out, Tail(r), ovpnServer, c)
    BY <1>8, <2>1 DEF OLine
  <2>3. QED BY <2>1, <2>2
<1>9. OLine(w.s, p, q, Tail(r), ovpnServer, c)
  BY <1>2, OLineLost
<1>10. fine(O!Still(x))
  <2>1. O!Still(x).x = x /\ O!Still(x).out = <<>>
    BY DEF O!Still
  <2> DEFINE none == <<>>
  <2>2. none \in Seq(OMsg) /\ (\A i \in DOMAIN none : none[i].op \in OBeside) /\ none \in Seq(OAsk)
    OBVIOUS
  <2> HIDE DEF none
  <2>3. OLine(hs, p, q \o none, Tail(r), ovpnServer, c)
    BY <1>1, <1>2, <1>3, <1>9, <2>2, OLineBeside
  <2>4. QED BY <1>7, <2>1, <2>2, <2>3 DEF none
<1>11. awaited => m.op \in OReplies
  BY <1>2 DEF OTunnel, OReqs, OReplies, O!Answer
<1>12. w.s.phase # "none" /\ Token(q, r, Qs, Rs) /\ ORight(w.s.sid, p, r, ovpnServer, c)
       /\ (w.s.phase = "up" => w.s.pending = "none")
  BY DEF OLine
<1>13. ASSUME awaited PROVE NoToken(q, Tail(r), Qs, Rs)
  <2>1. m \in Rs
    BY <1>1, <1>11, <1>13 DEF OAnswered
  <2> HIDE DEF Qs, Rs
  <2>2. Token(r, q, Rs, Qs)
    BY <1>12, TokenBack
  <2>3. NoToken(Tail(r), q, Rs, Qs)
    BY <2>1, <2>2, TokenEnds
  <2>4. QED BY <2>3, TokenBack
<1>14. ASSUME awaited, NEW phase \in {"tls", "auth"}, NEW op \in {"tls", "auth", "push"} PROVE fine(O!Request(c, y, phase, op))
  <2> DEFINE step == O!Request(c, y, phase, op)
  <2>1. phase \in OPhases /\ op \in OReqs /\ phase \notin {"none", "up"}
    BY DEF OPhases, OReqs
  <2>2. /\ step.x \in OClient /\ step.x.s.phase = phase /\ step.x.s.sid = y.s.sid
        /\ \E n \in OAsk : step.out = <<n>>
    BY <1>7, <2>1, ORequests
  <2> HIDE DEF step
  <2>3. PICK n \in OAsk : step.out = <<n>>
    BY <2>2
  <2>4. n \in OMsg /\ step.x.s \in OTunnel /\ step.x.s.sid = w.s.sid
    BY <1>4, <1>7, <2>2, OAskIs DEF OClient
  <2>5. OLine(step.x.s, p, q \o <<n>>, Tail(r), ovpnServer, c)
    BY <1>1, <1>13, <1>14, <2>1, <2>2, <2>4, OLineAsks
  <2>6. step.out \in Seq(OAsk)
    BY <2>3
  <2>7. QED BY <2>2, <2>3, <2>5, <2>6 DEF step
<1>15. ASSUME awaited, m.op = "push-reply" PROVE fine(O!Still(O!StopRetry(u)))
  <2> DEFINE z == O!StopRetry(u)
  <2>1. z \in OClient /\ z.s = us
    BY <1>7, OPlain
  <2> HIDE DEF z
  <2>2. O!Still(z).x = z /\ O!Still(z).out = <<>>
    BY DEF O!Still
  <2>3. NoToken(q, Tail(r), Qs, Rs) /\ Token(q, Tail(r), Qs, Rs)
    BY <1>13, <1>15, TokenBack
  <2>4. 1 \in Mine(r, Rs) /\ r[1] = m
    BY <1>1, <1>11, <1>15, SeqOf DEF Mine, OAnswered
  <2>5. Means(ovpnServer, <<c, p>>, w.s.sid, m.v)
    BY <1>12, <1>15, <2>4 DEF ORight
  <2>6. ORight(w.s.sid, p, Tail(r), ovpnServer, c)
    BY <2>3 DEF ORight, NoToken
  <2>7. OLine(us, p, q, Tail(r), ovpnServer, c)
    BY <1>5, <2>3, <2>5, <2>6 DEF OLine
  <2>8. q \o <<>> = q /\ <<>> \in Seq(OAsk)
    OBVIOUS
  <2>9. QED BY <2>1, <2>2, <2>7, <2>8 DEF z
<1>16. fine(O!Still([x EXCEPT !.s = O!Off, !.failed = "kicked"]))
  <2> DEFINE z == [x EXCEPT !.s = O!Off, !.failed = "kicked"]
  <2>1. z \in OClient /\ z.s = O!Off
    BY <1>7, OOff DEF OClient
  <2> HIDE DEF z
  <2>2. fine(O!Still(z))
    BY <1>8, <2>1
  <2>3. QED BY <2>2 DEF z
<1>17. fine(O!Still(O!ScheduleReconnect(O!Forget(x))))
  <2> DEFINE f == O!Forget(x)
             z == O!ScheduleReconnect(f)
  <2>1. f \in OClient /\ f.s = O!Off
    BY <1>7, OForgets
  <2> HIDE DEF f
  <2>2. z \in OClient /\ z.s = O!Off
    BY <2>1, OPlain
  <2> HIDE DEF z
  <2>3. fine(O!Still(z))
    BY <1>8, <2>2
  <2>4. QED BY <2>3 DEF z, f
<1>18. fine(O!Still([O!Forget(y) EXCEPT !.failed = "refused"]))
  <2> DEFINE f == O!Forget(y)
             z == [f EXCEPT !.failed = "refused"]
  <2>1. f \in OClient /\ f.s = O!Off
    BY <1>7, OForgets
  <2> HIDE DEF f
  <2>2. z \in OClient /\ z.s = O!Off
    BY <2>1, OFailedAs
  <2> HIDE DEF z
  <2>3. fine(O!Still(z))
    BY <1>8, <2>2
  <2>4. QED BY <2>3 DEF z, f
<1>19. awaited => m.op \in {"reset-server", "tls-server", "tls-fail", "tls-ok", "push-reply"}
  BY <1>11 DEF OReplies
<1> DEFINE step == O!Heard(c, m)
<1> HIDE DEF fine, w, p, m, awaited
<1>20. fine(step)
  <2>1. CASE m.op = "kicked"
    BY <1>6, <1>16, <2>1
  <2>2. CASE m.op = "restart"
    BY <1>6, <1>17, <2>2
  <2>3. CASE m.op \notin {"kicked", "restart"} /\ ~awaited
    BY <1>6, <1>10, <2>3
  <2>4. CASE m.op \notin {"kicked", "restart"} /\ awaited
    <3>1. CASE m.op = "reset-server" BY <1>6, <1>14, <2>4, <3>1
    <3>2. CASE m.op = "tls-server" BY <1>6, <1>14, <2>4, <3>2
    <3>3. CASE m.op = "tls-fail" BY <1>6, <1>18, <2>4, <3>3
    <3>4. CASE m.op = "tls-ok" BY <1>6, <1>14, <2>4, <3>4
    <3>5. CASE m.op = "push-reply" BY <1>6, <1>15, <2>4, <3>5
    <3>6. QED BY <1>19, <2>4, <3>1, <3>2, <3>3, <3>4, <3>5
  <2>5. QED BY <2>1, <2>2, <2>3, <2>4
<1>21. QED BY <1>20 DEF fine, p, m

-------------------------------------------------------------------------------
(* OpenVPN: the invariant *)

OType ==
  /\ ovpn \in [OvpnClients -> OClient]
  /\ ovpnServer \in OServer
  /\ \A c \in OvpnClients : cnOf[c] \in ONames
  /\ place \in [OvpnClients -> {1, 2}]
  /\ asks \in [OvpnClients -> Seq(OAsk)]
  /\ tells \in OLines

OInv ==
  /\ OType
  /\ OGood(ovpnServer)
  /\ \A c \in OvpnClients : OLine(ovpn[c].s, place[c], asks[c], tells[c], ovpnServer, c)

LEMMA OKnown ==
  ASSUME OInv, NEW c \in OvpnClients
  PROVE  /\ OType /\ ovpn[c] \in OClient /\ ovpn[c].s \in OTunnel /\ ovpnServer \in OServer /\ OGood(ovpnServer)
         /\ cnOf[c] \in ONames /\ place[c] \in {1, 2} /\ asks[c] \in Seq(OAsk) /\ tells[c] \in Seq(OMsg)
         /\ OLine(ovpn[c].s, place[c], asks[c], tells[c], ovpnServer, c)
<1>1. ovpn[c] \in OClient
  BY DEF OInv, OType
<1>2. ovpn[c].s \in OTunnel
  BY <1>1 DEF OClient
<1>3. QED BY <1>1, <1>2 DEF OInv, OType, OLines

LEMMA OAsksSaid ==
  ASSUME NEW q \in Seq(OAsk)
  PROVE  q \in Seq(OMsg)
<1>1. \A i \in DOMAIN q : q[i] \in OMsg
  <2> SUFFICES ASSUME NEW i \in DOMAIN q PROVE q[i] \in OMsg
    OBVIOUS
  <2>1. q[i] \in OAsk
    BY SeqOf
  <2>2. QED BY <2>1, OAskIs
<1>2. QED BY <1>1, SeqIn

\* A client becomes x and says out: nothing else changes but its lines and its place.
LEMMA OBecomes ==
  ASSUME OInv, NEW c \in OvpnClients, NEW x \in OClient, NEW out \in Seq(OAsk), NEW r \in Seq(OMsg), NEW p \in {1, 2},
         ovpn' = [ovpn EXCEPT ![c] = x], asks' = [asks EXCEPT ![c] = @ \o out], tells' = [tells EXCEPT ![c] = r],
         place' = [place EXCEPT ![c] = p], ovpnServer' = ovpnServer, cnOf' = cnOf,
         OLine(x.s, p, asks[c] \o out, r, ovpnServer, c)
  PROVE  OInv'
<1> DEFINE q == asks[c] \o out
<1>1. asks[c] \in Seq(OAsk)
  BY OKnown
<1>2. q \in Seq(OAsk)
  BY <1>1, SeqMore
<1>3. asks' = [asks EXCEPT ![c] = q] /\ OLine(x.s, p, q, r, ovpnServer, c)
  OBVIOUS
<1> HIDE DEF q
<1>4. /\ ovpn \in [OvpnClients -> OClient] /\ place \in [OvpnClients -> {1, 2}]
      /\ asks \in [OvpnClients -> Seq(OAsk)] /\ tells \in [OvpnClients -> Seq(OMsg)]
  BY DEF OInv, OType, OLines
<1>5. ovpn' \in [OvpnClients -> OClient] /\ place' \in [OvpnClients -> {1, 2}]
  BY <1>4
<1>6. asks' \in [OvpnClients -> Seq(OAsk)] /\ tells' \in [OvpnClients -> Seq(OMsg)]
  BY <1>2, <1>3, <1>4
<1>7. OType'
  BY <1>5, <1>6 DEF OInv, OType, OLines
<1>8. ovpn'[c] = x /\ place'[c] = p /\ asks'[c] = q /\ tells'[c] = r
  BY <1>3, <1>4
<1>9. \A d \in OvpnClients \ {c} : ovpn'[d] = ovpn[d] /\ place'[d] = place[d] /\ asks'[d] = asks[d] /\ tells'[d] = tells[d]
  BY <1>3, <1>4
<1>10. \A d \in OvpnClients : OLine(ovpn'[d].s, place'[d], asks'[d], tells'[d], ovpnServer, d)
  <2> SUFFICES ASSUME NEW d \in OvpnClients PROVE OLine(ovpn'[d].s, place'[d], asks'[d], tells'[d], ovpnServer, d)
    OBVIOUS
  <2>1. CASE d = c
    BY <1>3, <1>8, <2>1
  <2>2. CASE d # c
    <3>1. OLine(ovpn[d].s, place[d], asks[d], tells[d], ovpnServer, d)
      BY OKnown
    <3>2. QED BY <1>9, <2>2, <3>1
  <2>3. QED BY <2>1, <2>2
<1>11. (\A d \in OvpnClients : OLine(ovpn[d].s, place[d], asks[d], tells[d], ovpnServer, d))'
  <2> SUFFICES ASSUME NEW d \in OvpnClients PROVE OLine(ovpn'[d].s, place'[d], asks'[d], tells'[d], ovpnServer', d)
    BY DEF OLine, ORight, Means, O!Up
  <2>1. OLine(ovpn'[d].s, place'[d], asks'[d], tells'[d], ovpnServer, d)
    BY <1>10
  <2>2. QED BY <2>1
<1>12. OGood(ovpnServer)'
  BY DEF OInv, OGood, O!Up
<1>13. QED BY <1>7, <1>11, <1>12 DEF OInv

\* ... or it is only the client that acts.
LEMMA OActs ==
  ASSUME OInv, NEW c \in OvpnClients, NEW x \in OClient, NEW out \in Seq(OAsk),
         ovpn' = [ovpn EXCEPT ![c] = x], asks' = [asks EXCEPT ![c] = @ \o out],
         ovpnServer' = ovpnServer, cnOf' = cnOf, place' = place, tells' = tells,
         OLine(x.s, place[c], asks[c] \o out, tells[c], ovpnServer, c)
  PROVE  OInv'
<1>1. place[c] \in {1, 2} /\ tells[c] \in Seq(OMsg)
  BY OKnown
<1>2. place \in [OvpnClients -> {1, 2}] /\ tells \in [OvpnClients -> Seq(OMsg)]
  BY DEF OInv, OType, OLines
<1>3. place = [place EXCEPT ![c] = place[c]] /\ tells = [tells EXCEPT ![c] = tells[c]]
  BY <1>2
<1>4. place' = [place EXCEPT ![c] = place[c]] /\ tells' = [tells EXCEPT ![c] = tells[c]]
  BY <1>3
<1>5. QED BY <1>1, <1>4, OBecomes

\* A step by which the client keeps its session or has none
LEMMA OKeeps ==
  ASSUME OInv, NEW c \in OvpnClients, NEW step, step.x \in OClient, step.out \in Seq(OAsk),
         step.x.s = O!Off \/ (step.x.s = ovpn[c].s /\ step.out = <<>>),
         O!Become(c, step), ovpnServer' = ovpnServer, cnOf' = cnOf, place' = place, tells' = tells
  PROVE  OInv'
<1> DEFINE x == step.x
           out == step.out
<1>1. ovpn' = [ovpn EXCEPT ![c] = x] /\ asks' = [asks EXCEPT ![c] = @ \o out]
  BY DEF O!Become
<1>2. asks[c] \in Seq(OAsk) /\ OLine(ovpn[c].s, place[c], asks[c], tells[c], ovpnServer, c)
  BY OKnown
<1>3. OLine(x.s, place[c], asks[c] \o out, tells[c], ovpnServer, c)
  <2>1. CASE x.s = O!Off
    BY <2>1 DEF OLine
  <2>2. CASE x.s = ovpn[c].s /\ out = <<>>
    <3>1. asks[c] \o <<>> = asks[c]
      BY <1>2
    <3> HIDE DEF x, out
    <3>2. QED BY <1>2, <2>2, <3>1
  <2>3. QED BY <2>1, <2>2
<1>4. x \in OClient /\ out \in Seq(OAsk)
  OBVIOUS
<1> HIDE DEF x, out
<1>5. QED BY <1>1, <1>3, <1>4, OActs

LEMMA OStill ==
  ASSUME NEW x
  PROVE  O!Still(x).x = x /\ O!Still(x).out = <<>> /\ O!Still(x).out \in Seq(OAsk)
<1>1. O!Still(x).x = x /\ O!Still(x).out = <<>>
  BY DEF O!Still
<1>2. <<>> \in Seq(OAsk)
  OBVIOUS
<1>3. QED BY <1>1, <1>2

LEMMA OClientHandles ==
  ASSUME OInv, NEW c \in OvpnClients, O!ClientHandle(c)
  PROVE  OInv'
<1> DEFINE q == asks[c]
           r == tells[c]
           m == Head(r)
           mine == m.at = place[c] /\ ovpn[c].s # O!Off /\ m.sid = ovpn[c].s.sid
           step == IF mine THEN O!Heard(c, m) ELSE O!Still(ovpn[c])
           fine(st) == st.x \in OClient /\ st.out \in Seq(OAsk) /\ OLine(st.x.s, place[c], q \o st.out, Tail(r), ovpnServer, c)
<1>1. /\ ovpn[c] \in OClient /\ ovpn[c].s \in OTunnel /\ place[c] \in {1, 2} /\ q \in Seq(OAsk) /\ r \in Seq(OMsg)
      /\ OLine(ovpn[c].s, place[c], q, r, ovpnServer, c)
  BY OKnown
<1>2. r # <<>> /\ tells' = [tells EXCEPT ![c] = Tail(r)] /\ ovpnServer' = ovpnServer /\ cnOf' = cnOf /\ place' = place
  BY DEF O!ClientHandle
<1>3. q \in Seq(OMsg) /\ Tail(r) \in Seq(OMsg)
  <2> HIDE DEF q, r
  <2>1. QED BY <1>1, <1>2, OAsksSaid, SeqOf
<1>4. ovpn' = [ovpn EXCEPT ![c] = step.x] /\ asks' = [asks EXCEPT ![c] = @ \o step.out]
  BY DEF O!ClientHandle, O!Become
<1>5. ASSUME mine PROVE fine(O!Heard(c, m))
  <2>1. m.at = place[c] /\ ovpn[c].s # O!Off /\ m.sid = ovpn[c].s.sid
    BY <1>5
  <2> HIDE DEF q, r
  <2>2. LET st == O!Heard(c, Head(r))
        IN  /\ st.x \in OClient /\ st.out \in Seq(OAsk)
            /\ OLine(st.x.s, place[c], q \o st.out, Tail(r), ovpnServer, c)
    BY <1>1, <1>2, <1>3, <2>1, OLineHeard
  <2>3. QED BY <2>2
<1>6. fine(O!Still(ovpn[c]))
  <2>1. O!Still(ovpn[c]).x = ovpn[c] /\ O!Still(ovpn[c]).out = <<>> /\ O!Still(ovpn[c]).out \in Seq(OAsk)
    BY OStill
  <2>2. OLine(ovpn[c].s, place[c], q, Tail(r), ovpnServer, c)
    <3> HIDE DEF q, r
    <3>1. QED BY <1>1, <1>2, <1>3, OLineLost
  <2>3. q \o <<>> = q
    BY <1>3
  <2> HIDE DEF q, r
  <2>4. QED BY <1>1, <2>1, <2>2, <2>3
<1> HIDE DEF fine, m, mine
<1>7. fine(step)
  BY <1>5, <1>6
<1>8. place' = [place EXCEPT ![c] = place[c]]
  <2>1. place \in [OvpnClients -> {1, 2}]
    BY DEF OInv, OType
  <2>2. place = [place EXCEPT ![c] = place[c]]
    BY <2>1
  <2>3. QED BY <1>2, <2>2
<1> HIDE DEF step
<1>9. step.x \in OClient /\ step.out \in Seq(OAsk) /\ OLine(step.x.s, place[c], asks[c] \o step.out, Tail(r), ovpnServer, c)
  BY <1>7 DEF fine
<1> DEFINE x == step.x
           out == step.out
           t == Tail(r)
<1>10. x \in OClient /\ out \in Seq(OAsk) /\ t \in Seq(OMsg) /\ OLine(x.s, place[c], asks[c] \o out, t, ovpnServer, c)
       /\ ovpn' = [ovpn EXCEPT ![c] = x] /\ asks' = [asks EXCEPT ![c] = @ \o out] /\ tells' = [tells EXCEPT ![c] = t]
  BY <1>2, <1>3, <1>4, <1>9
<1> HIDE DEF x, out, t, q, r
<1>11. QED BY <1>1, <1>2, <1>8, <1>10, OBecomes

\* A session begins with a number that no message under way and no session of the server carries.
LEMMA ONewSid ==
  ASSUME OInv, NEW c \in OvpnClients
  PROVE  /\ O!NewSid(c) \in Nat \ {0}
         /\ \A i \in DOMAIN asks[c] : asks[c][i].sid # O!NewSid(c)
         /\ \A i \in DOMAIN tells[c] : tells[c][i].sid # O!NewSid(c)
<1> DEFINE U == O!UsedSids(c)
           q == asks[c]
           r == tells[c]
           e == ovpnServer.sessions
           A1 == {ovpn[c].s.sid}
           S1 == {q[i].sid : i \in DOMAIN q}
           S2 == {r[i].sid : i \in DOMAIN r}
           A2 == {e[k].sid : k \in {k \in DOMAIN e : k[1] = c}}
<1>1. q \in Seq(OAsk) /\ r \in Seq(OMsg) /\ ovpnServer \in OServer
  BY OKnown
<1>2. DOMAIN e \in SUBSET OKeys
  BY <1>1, PartialIs DEF OServer
<1>3. IsFiniteSet(A1)
  <2> DEFINE a == ovpn[c].s.sid
  <2> HIDE DEF a
  <2>1. IsFiniteSet({a})
    BY FS_Singleton
  <2>2. QED BY <2>1 DEF a
<1>4. IsFiniteSet(S1)
  <2> DEFINE f == [i \in DOMAIN q |-> q[i].sid]
  <2>1. DOMAIN f = DOMAIN q /\ S1 = {f[i] : i \in DOMAIN q}
    OBVIOUS
  <2> HIDE DEF f, q, S1
  <2>2. QED BY <1>1, <2>1, NumbersFinite
<1>5. IsFiniteSet(S2)
  <2> DEFINE f == [i \in DOMAIN r |-> r[i].sid]
  <2>1. DOMAIN f = DOMAIN r /\ S2 = {f[i] : i \in DOMAIN r}
    OBVIOUS
  <2> HIDE DEF f, r, S2
  <2>2. QED BY <1>1, <2>1, NumbersFinite
<1>6. IsFiniteSet(A2)
  <2> DEFINE a == e[<<c, 1>>].sid
             b == e[<<c, 2>>].sid
  <2>1. \A k \in DOMAIN e : k[1] = c => k = <<c, 1>> \/ k = <<c, 2>>
    BY <1>2 DEF OKeys
  <2>2. A2 \in SUBSET {a, b}
    BY <2>1
  <2> HIDE DEF A2, a, b
  <2>3. QED BY <2>2, PairFinite
<1>7. U = A1 \cup S1 \cup S2 \cup A2
  BY DEF O!UsedSids
<1> HIDE DEF A1, A2, S1, S2, U
<1>8. IsFiniteSet(U)
  <2>1. IsFiniteSet(A1 \cup S1)
    BY <1>3, <1>4, FS_Union
  <2>2. IsFiniteSet(A1 \cup S1 \cup S2)
    BY <1>5, <2>1, FS_Union
  <2>3. QED BY <1>6, <1>7, <2>2, FS_Union
<1>9. O!NewSid(c) = (CHOOSE n \in 1 .. Cardinality(U) + 1 : n \notin U)
  <2>1. O!Cardinality(U) = Cardinality(U)
    BY DEF O!Cardinality, Cardinality
  <2>2. QED BY <2>1 DEF O!NewSid, U
<1>10. O!NewSid(c) \in Nat \ {0} /\ O!NewSid(c) \notin U
  BY <1>8, <1>9, ChosenIs DEF Chosen
<1>11. \A i \in DOMAIN q : q[i].sid \in U
  BY <1>7 DEF S1
<1>12. \A i \in DOMAIN r : r[i].sid \in U
  BY <1>7 DEF S2
<1>13. QED BY <1>10, <1>11, <1>12

LEMMA OStarts ==
  ASSUME OInv, NEW c \in OvpnClients, NEW x \in OClient, O!Become(c, O!Start(c, x)),
         ovpnServer' = ovpnServer, cnOf' = cnOf, place' = place, tells' = tells
  PROVE  OInv'
<1> DEFINE sid == O!NewSid(c)
           t == [O!Off EXCEPT !.sid = O!NewSid(c)]
           y == [x EXCEPT !.s = t]
           step == O!Start(c, x)
           q == asks[c]
           r == tells[c]
           p == place[c]
<1>1. p \in {1, 2} /\ q \in Seq(OAsk) /\ r \in Seq(OMsg) /\ q \in Seq(OMsg)
  BY OKnown, OAsksSaid
<1>2. /\ sid \in Nat \ {0}
      /\ \A i \in DOMAIN q : q[i].sid # sid
      /\ \A i \in DOMAIN r : r[i].sid # sid
  BY ONewSid
<1>3. t \in OTunnel /\ t.sid = sid
  <2> DEFINE o == O!Off
  <2>1. o \in OTunnel
    BY OOff
  <2>2. t = [o EXCEPT !.sid = sid]
    OBVIOUS
  <2> HIDE DEF o, t, sid
  <2>3. QED BY <1>2, <2>1, <2>2 DEF OTunnel
<1>4. step = O!Request(c, y, "reset", "reset")
  BY DEF O!Start
<1> HIDE DEF t
<1>5. y \in OClient /\ y.s = t
  BY <1>3, OTunnelPut
<1> HIDE DEF y, step
<1>6. "reset" \in OPhases /\ "reset" \in OReqs
  BY DEF OPhases, OReqs
<1>7. /\ step.x \in OClient /\ step.x.s.phase = "reset" /\ step.x.s.sid = sid
      /\ \E n \in OAsk : step.out = <<n>>
  BY <1>1, <1>3, <1>4, <1>5, <1>6, ORequests
<1>8. PICK n \in OAsk : step.out = <<n>>
  BY <1>7
<1>9. NoToken(q, r, OAsked(sid, p), OAnswered(sid, p))
  BY <1>2 DEF NoToken, Mine, OAsked, OAnswered
<1> DEFINE z == step.x
           out == <<n>>
<1>10. n \in OMsg /\ z.s \in OTunnel /\ out \in Seq(OAsk) /\ z \in OClient
  BY <1>7, OAskIs DEF OClient
<1>11. ovpn' = [ovpn EXCEPT ![c] = z] /\ asks' = [asks EXCEPT ![c] = @ \o out]
  BY <1>8 DEF O!Become, step
<1>12. z.s.phase \notin {"none", "up"} /\ z.s.sid = sid
  BY <1>7
<1> HIDE DEF z, sid, q, r, p
<1>13. OLine(z.s, p, q \o <<n>>, r, ovpnServer, c)
  BY <1>1, <1>9, <1>10, <1>12, OLineAsks
<1>14. OLine(z.s, place[c], asks[c] \o out, tells[c], ovpnServer, c)
  BY <1>13 DEF p, q, r
<1> HIDE DEF out
<1>15. QED BY <1>10, <1>11, <1>14, OActs

LEMMA OResolves ==
  ASSUME OInv, NEW c \in OvpnClients, NEW ok, O!Resolved(c, ok)
  PROVE  OInv'
<1> DEFINE w == ovpn[c]
           x == [w EXCEPT !.resolving = FALSE]
           x0 == [x EXCEPT !.resolveTries = 0]
           tried == [x EXCEPT !.resolveTries = @ + 1]
<1>1. w \in OClient
  BY OKnown
<1>2. x \in OClient /\ x.s = w.s
  BY <1>1 DEF OClient
<1>3. ovpnServer' = ovpnServer /\ cnOf' = cnOf /\ place' = place /\ tells' = tells
  BY DEF O!Resolved
<1>4. O!Become(c, IF ~x.enabled \/ x.s # O!Off THEN O!Still(x)
                  ELSE IF ok THEN O!Start(c, x0)
                  ELSE IF tried.resolveTries < OvpnTries THEN O!Still(O!ScheduleReconnect(tried))
                  ELSE O!Still(O!Fail(tried, "name")))
  BY DEF O!Resolved
<1> HIDE DEF x
<1>5. x0 \in OClient /\ tried \in OClient /\ tried.s = w.s
  BY <1>2 DEF OClient
<1> HIDE DEF x0, tried
<1>6. ASSUME NEW z \in OClient, z.s = O!Off \/ z.s = w.s, O!Become(c, O!Still(z)) PROVE OInv'
  <2> DEFINE step == O!Still(z)
  <2>1. step.x = z /\ step.out = <<>> /\ step.out \in Seq(OAsk)
    BY OStill
  <2>2. O!Become(c, step)
    BY <1>6
  <2> HIDE DEF step
  <2>3. QED BY <1>3, <1>6, <2>1, <2>2, OKeeps
<1>7. O!ScheduleReconnect(tried) \in OClient /\ O!ScheduleReconnect(tried).s = w.s
  BY <1>5, OPlain
<1>8. O!Fail(tried, "name") \in OClient /\ O!Fail(tried, "name").s = O!Off
  BY <1>5, OFails
<1>9. CASE O!Become(c, O!Still(x))
  BY <1>2, <1>6, <1>9
<1>10. CASE O!Become(c, O!Start(c, x0))
  BY <1>3, <1>5, <1>10, OStarts
<1>11. CASE O!Become(c, O!Still(O!ScheduleReconnect(tried)))
  BY <1>6, <1>7, <1>11
<1>12. CASE O!Become(c, O!Still(O!Fail(tried, "name")))
  BY <1>6, <1>8, <1>12
<1>13. QED BY <1>4, <1>9, <1>10, <1>11, <1>12

LEMMA OQuiet ==
  ASSUME NEW c \in OvpnClients, O!Quiet(c), NEW Qs, NEW Rs
  PROVE  NoToken(asks[c], tells[c], Qs, Rs)
BY FewOne DEF O!Quiet, NoToken

LEMMA ORetries ==
  ASSUME OInv, NEW c \in OvpnClients, O!Retry(c)
  PROVE  OInv'
<1> DEFINE x == ovpn[c]
           t == [x.s EXCEPT !.tries = @ + 1]
           y == [x EXCEPT !.s = t]
           n == [op |-> x.s.pending, sid |-> x.s.sid, at |-> place[c], v |-> 0]
<1>1. x \in OClient /\ x.s \in OTunnel /\ place[c] \in {1, 2} /\ asks[c] \in Seq(OMsg) /\ tells[c] \in Seq(OMsg)
      /\ OLine(x.s, place[c], asks[c], tells[c], ovpnServer, c)
  BY OKnown, OAsksSaid
<1>2. ovpnServer' = ovpnServer /\ cnOf' = cnOf /\ place' = place /\ tells' = tells /\ x.s.pending # "none" /\ O!Quiet(c)
  BY DEF O!Retry
<1>3. O!Become(c, IF x.s.tries >= OvpnTries THEN O!Still(O!Fail(x, "transient"))
                  ELSE [x |-> [x EXCEPT !.s.tries = @ + 1], out |-> O!Msg(x.s.pending, x.s.sid, place[c], 0)])
  BY DEF O!Retry
<1>4. CASE O!Become(c, O!Still(O!Fail(x, "transient")))
  <2> DEFINE z == O!Fail(x, "transient")
             step == O!Still(z)
  <2>1. z \in OClient /\ z.s = O!Off
    BY <1>1, OFails
  <2> HIDE DEF z
  <2>2. step.x = z /\ step.out = <<>> /\ step.out \in Seq(OAsk)
    BY OStill
  <2>3. O!Become(c, step)
    BY <1>4 DEF z
  <2> HIDE DEF step
  <2>4. QED BY <1>2, <2>1, <2>2, <2>3, OKeeps
<1>5. CASE O!Become(c, [x |-> [x EXCEPT !.s.tries = @ + 1], out |-> O!Msg(x.s.pending, x.s.sid, place[c], 0)])
  <2>1. [x EXCEPT !.s.tries = @ + 1] = y /\ O!Msg(x.s.pending, x.s.sid, place[c], 0) = <<n>>
    BY DEF O!Msg
  <2>2. t \in OTunnel /\ t.phase = x.s.phase /\ t.sid = x.s.sid
    BY <1>1 DEF OTunnel
  <2>3. n \in OAsk
    BY <1>1, <1>2 DEF OTunnel, OAsk
  <2>4. x.s # O!Off
    BY <1>2 DEF O!Off
  <2>5. t.phase \notin {"none", "up"}
    BY <1>1, <1>2, <2>2, <2>4 DEF OLine
  <2> HIDE DEF t
  <2>6. y \in OClient /\ y.s = t
    BY <1>1, <2>2, OTunnelPut
  <2> HIDE DEF y, n
  <2>7. ovpn' = [ovpn EXCEPT ![c] = y] /\ asks' = [asks EXCEPT ![c] = @ \o <<n>>]
    BY <1>5, <2>1 DEF O!Become
  <2>8. n \in OMsg /\ <<n>> \in Seq(OAsk)
    BY <2>3, OAskIs
  <2>9. NoToken(asks[c], tells[c], OAsked(t.sid, place[c]), OAnswered(t.sid, place[c]))
    BY <1>2, OQuiet
  <2> HIDE DEF x
  <2>10. OLine(t, place[c], asks[c] \o <<n>>, tells[c], ovpnServer, c)
    BY <1>1, <2>2, <2>5, <2>8, <2>9, OLineAsks
  <2> DEFINE out == <<n>>
  <2>11. out \in Seq(OAsk) /\ asks' = [asks EXCEPT ![c] = @ \o out] /\ OLine(y.s, place[c], asks[c] \o out, tells[c], ovpnServer, c)
    BY <2>6, <2>7, <2>8, <2>10
  <2> HIDE DEF out
  <2>12. QED BY <1>2, <2>6, <2>7, <2>11, OActs
<1>6. QED BY <1>3, <1>4, <1>5

LEMMA OReconnects ==
  ASSUME OInv, NEW c \in OvpnClients, O!ConnectRetry(c) \/ O!Reconnect(c)
  PROVE  OInv'
<1> DEFINE w == ovpn[c]
           x1 == [w EXCEPT !.retry = FALSE]
           x2 == [w EXCEPT !.reconnect = FALSE]
           y1 == [x1 EXCEPT !.failed = "no"]
           y2 == [x2 EXCEPT !.failed = "no"]
           z1 == IF x1.s # O!Off \/ x1.resolving \/ ~x1.enabled \/ x1.failed = "no" THEN x1 ELSE O!Connect(y1)
           z2 == IF x2.s # O!Off \/ ~x2.enabled THEN x2 ELSE O!Connect(y2)
<1>1. w \in OClient
  BY OKnown
<1>2. ovpnServer' = ovpnServer /\ cnOf' = cnOf /\ place' = place /\ tells' = tells
  BY DEF O!ConnectRetry, O!Reconnect
<1>3. O!Become(c, O!Still(z1)) \/ O!Become(c, O!Still(z2))
  BY DEF O!ConnectRetry, O!Reconnect
<1>4. x1 \in OClient /\ x1.s = w.s /\ x2 \in OClient /\ x2.s = w.s
  BY <1>1 DEF OClient
<1> HIDE DEF x1, x2
<1>5. y1 \in OClient /\ y1.s = w.s /\ y2 \in OClient /\ y2.s = w.s
  BY <1>4, OFailedAs
<1> HIDE DEF y1, y2
<1>6. O!Connect(y1) \in OClient /\ O!Connect(y1).s = w.s /\ O!Connect(y2) \in OClient /\ O!Connect(y2).s = w.s
  BY <1>5, OConnects
<1>7. z1 \in OClient /\ z1.s = w.s /\ z2 \in OClient /\ z2.s = w.s
  BY <1>4, <1>6
<1> HIDE DEF z1, z2
<1>8. ASSUME NEW z \in OClient, z.s = w.s, O!Become(c, O!Still(z)) PROVE OInv'
  <2> DEFINE step == O!Still(z)
  <2>1. step.x = z /\ step.out = <<>> /\ step.out \in Seq(OAsk)
    BY OStill
  <2>2. O!Become(c, step)
    BY <1>8
  <2> HIDE DEF step
  <2>3. QED BY <1>2, <1>8, <2>1, <2>2, OKeeps
<1>9. QED BY <1>3, <1>7, <1>8

LEMMA OPings ==
  ASSUME OInv, NEW c \in OvpnClients, O!Ping(c)
  PROVE  OInv'
<1> DEFINE x == ovpn[c]
           t == [x.s EXCEPT !.heard = FALSE]
           y == [x EXCEPT !.s = t]
           n == [op |-> "ping", sid |-> x.s.sid, at |-> place[c], v |-> 0]
           out == <<n>>
<1>1. x \in OClient /\ x.s \in OTunnel /\ place[c] \in {1, 2} /\ asks[c] \in Seq(OMsg) /\ tells[c] \in Seq(OMsg)
      /\ OLine(x.s, place[c], asks[c], tells[c], ovpnServer, c)
  BY OKnown, OAsksSaid
<1>2. ovpnServer' = ovpnServer /\ cnOf' = cnOf /\ place' = place /\ tells' = tells /\ x.s.phase = "up"
  BY DEF O!Ping
<1>3. O!Become(c, [x |-> [x EXCEPT !.s.heard = FALSE], out |-> O!Msg("ping", x.s.sid, place[c], 0)])
  BY DEF O!Ping
<1>4. [x EXCEPT !.s.heard = FALSE] = y /\ O!Msg("ping", x.s.sid, place[c], 0) = out
  BY DEF O!Msg
<1>5. t \in OTunnel /\ t.phase = x.s.phase /\ t.sid = x.s.sid /\ t.pending = x.s.pending /\ t.vip = x.s.vip
  BY <1>1 DEF OTunnel
<1>6. n \in OAsk /\ n.op \in OBeside
  BY <1>1 DEF OTunnel, OAsk, OBeside
<1>7. x.s # O!Off
  BY <1>2, OOff
<1> HIDE DEF t
<1>8. y \in OClient /\ y.s = t
  BY <1>1, <1>5, OTunnelPut
<1> HIDE DEF y, n
<1>9. out \in Seq(OAsk) /\ out \in Seq(OMsg) /\ \A i \in DOMAIN out : out[i].op \in OBeside
  BY <1>6, OAskIs
<1>10. ovpn' = [ovpn EXCEPT ![c] = y] /\ asks' = [asks EXCEPT ![c] = @ \o out]
  <2> HIDE DEF out, x
  <2>1. QED BY <1>3, <1>4 DEF O!Become
<1> HIDE DEF out, x
<1>11. OLine(t, place[c], asks[c] \o out, tells[c], ovpnServer, c)
  BY <1>1, <1>5, <1>7, <1>9, OLineBeside
<1>12. QED BY <1>2, <1>8, <1>9, <1>10, <1>11, OActs

LEMMA OPingsOut ==
  ASSUME OInv, NEW c \in OvpnClients, O!PingRestart(c)
  PROVE  OInv'
<1> DEFINE f == O!Forget(ovpn[c])
           z == O!Connect(f)
           step == O!Still(z)
<1>1. ovpn[c] \in OClient
  BY OKnown
<1>2. ovpnServer' = ovpnServer /\ cnOf' = cnOf /\ place' = place /\ tells' = tells /\ O!Become(c, step)
  BY DEF O!PingRestart
<1>3. f \in OClient /\ f.s = O!Off
  BY <1>1, OForgets
<1> HIDE DEF f
<1>4. z \in OClient /\ z.s = O!Off
  BY <1>3, OConnects
<1> HIDE DEF z
<1>5. step.x = z /\ step.out = <<>> /\ step.out \in Seq(OAsk)
  BY OStill
<1> HIDE DEF step
<1>6. QED BY <1>2, <1>4, <1>5, OKeeps

LEMMA OCloses ==
  ASSUME NEW c \in OvpnClients, NEW x \in OClient, place[c] \in {1, 2}
  PROVE  O!Close(c, x).x \in OClient /\ O!Close(c, x).x.s = O!Off /\ O!Close(c, x).out \in Seq(OAsk)
<1> DEFINE f == O!Forget(x)
           n == [op |-> "exit", sid |-> x.s.sid, at |-> place[c], v |-> 0]
           out == IF x.s.phase = "up" THEN <<n>> ELSE <<>>
<1>1. f \in OClient /\ f.s = O!Off
  BY OForgets
<1>2. n \in OAsk
  BY DEF OClient, OTunnel, OAsk, OBeside
<1>3. O!Close(c, x) = [x |-> f, out |-> out]
  BY DEF O!Close, O!Msg
<1> HIDE DEF n, f
<1>4. out \in Seq(OAsk)
  BY <1>2
<1> HIDE DEF out
<1>5. QED BY <1>1, <1>3, <1>4

LEMMA OSwitches ==
  ASSUME OInv, NEW c \in OvpnClients, O!Switch(c) \/ O!Redial(c)
  PROVE  OInv'
<1> DEFINE z == O!Close(c, ovpn[c])
           y1 == [z.x EXCEPT !.failed = "no", !.resolveTries = 0, !.enabled = ~@]
           y2 == [z.x EXCEPT !.failed = "no", !.resolveTries = 0]
           s1 == [x |-> O!Connect(O!StopRetry(y1)), out |-> z.out]
           s2 == [x |-> O!Connect(O!StopRetry(y2)), out |-> z.out]
<1>1. ovpn[c] \in OClient /\ place[c] \in {1, 2}
  BY OKnown
<1>2. ovpnServer' = ovpnServer /\ cnOf' = cnOf /\ place' = place /\ tells' = tells
  BY DEF O!Switch, O!Redial
<1>3. O!Become(c, s1) \/ O!Become(c, s2)
  BY DEF O!Switch, O!Redial
<1>4. z.x \in OClient /\ z.x.s = O!Off /\ z.out \in Seq(OAsk)
  BY <1>1, OCloses
<1> HIDE DEF z
<1>5. y1 \in OClient /\ y1.s = O!Off /\ y2 \in OClient /\ y2.s = O!Off
  BY <1>4 DEF OClient
<1> HIDE DEF y1, y2
<1>6. ASSUME NEW y \in OClient, y.s = O!Off, O!Become(c, [x |-> O!Connect(O!StopRetry(y)), out |-> z.out]) PROVE OInv'
  <2> DEFINE v == O!StopRetry(y)
             u == O!Connect(v)
             step == [x |-> u, out |-> z.out]
  <2>1. v \in OClient /\ v.s = O!Off
    BY <1>6, OPlain
  <2> HIDE DEF v
  <2>2. u \in OClient /\ u.s = O!Off
    BY <2>1, OConnects
  <2> HIDE DEF u
  <2>3. step.x = u /\ step.out = z.out
    OBVIOUS
  <2>4. O!Become(c, step)
    BY <1>6 DEF u, v
  <2> HIDE DEF step
  <2>5. QED BY <1>2, <1>4, <2>2, <2>3, <2>4, OKeeps
<1>7. QED BY <1>3, <1>5, <1>6

LEMMA OMoves ==
  ASSUME OInv, NEW c \in OvpnClients, O!Move(c)
  PROVE  OInv'
<1> DEFINE f == O!Forget(ovpn[c])
           x == O!Connect(f)
           p == 3 - place[c]
           r == tells[c]
           none == <<>>
<1>1. ovpn[c] \in OClient /\ place[c] \in {1, 2} /\ r \in Seq(OMsg) /\ asks[c] \in Seq(OAsk)
  BY OKnown
<1>2. f \in OClient /\ f.s = O!Off
  BY <1>1, OForgets
<1>3. ovpn' = [ovpn EXCEPT ![c] = x] /\ place' = [place EXCEPT ![c] = p] /\ asks' = asks /\ tells' = tells
      /\ ovpnServer' = ovpnServer /\ cnOf' = cnOf
  BY DEF O!Move
<1> HIDE DEF f
<1>4. x \in OClient /\ x.s = O!Off
  BY <1>2, OConnects
<1>5. p \in {1, 2}
  BY <1>1
<1>6. asks[c] \o none = asks[c] /\ none \in Seq(OAsk)
  BY <1>1
<1>7. /\ asks \in [OvpnClients -> Seq(OAsk)] /\ tells \in [OvpnClients -> Seq(OMsg)]
  BY DEF OInv, OType, OLines
<1> HIDE DEF none, x, p
<1>8. asks' = [asks EXCEPT ![c] = @ \o none] /\ tells' = [tells EXCEPT ![c] = r]
  BY <1>3, <1>6, <1>7
<1>9. OLine(x.s, p, asks[c] \o none, r, ovpnServer, c)
  BY <1>4 DEF OLine
<1> HIDE DEF r
<1>10. QED BY ZenonT(60), <1>1, <1>3, <1>4, <1>5, <1>6, <1>8, <1>9, OBecomes

-------------------------------------------------------------------------------
(* OpenVPN: the server's steps *)

\* The server and the lines change, the clients do not.
LEMMA OServes ==
  ASSUME OInv, NEW srv \in OServer, OGood(srv), NEW q \in [OvpnClients -> Seq(OAsk)], NEW r \in OLines,
         ovpn' = ovpn, cnOf' = cnOf, place' = place, ovpnServer' = srv, asks' = q, tells' = r,
         \A d \in OvpnClients : OLine(ovpn[d].s, place[d], q[d], r[d], srv, d)
  PROVE  OInv'
<1>1. OType'
  BY DEF OInv, OType
<1>2. OGood(ovpnServer)'
  BY DEF OGood, O!Up
<1>3. (\A d \in OvpnClients : OLine(ovpn[d].s, place[d], asks[d], tells[d], ovpnServer, d))'
  <2> SUFFICES ASSUME NEW d \in OvpnClients PROVE OLine(ovpn'[d].s, place'[d], asks'[d], tells'[d], ovpnServer', d)
    BY DEF OLine, ORight, Means, O!Up
  <2>1. OLine(ovpn[d].s, place[d], q[d], r[d], srv, d)
    OBVIOUS
  <2>2. QED BY <2>1
<1>4. QED BY <1>1, <1>2, <1>3 DEF OInv

LEMMA OLineAnswered ==
  ASSUME OInv, NEW c \in OvpnClients, NEW d \in OvpnClients, asks[c] # <<>>, NEW srv, NEW outs,
         ODoes(ovpnServer, c, Head(asks[c]), srv), OSays(c, Head(asks[c]), srv, outs)
  PROVE  LET q == IF d = c THEN Tail(asks[d]) ELSE asks[d]
         IN  OLine(ovpn[d].s, place[d], q, tells[d] \o outs[d], srv, d)
<1> DEFINE s == ovpn[d].s
           p == place[d]
           q == asks[d]
           r == tells[d]
           m == Head(asks[c])
           out == outs[d]
           Qs == OAsked(s.sid, p)
           Rs == OAnswered(s.sid, p)
<1>1. s \in OTunnel /\ s.sid \in Nat /\ p \in {1, 2} /\ q \in Seq(OMsg) /\ r \in Seq(OMsg) /\ OLine(s, p, q, r, ovpnServer, d)
  BY OKnown, OAsksSaid DEF OTunnel
<1>2. out \in Seq(OMsg)
  BY DEF OSays, OLines
<1>3. m \in OMsg
  BY OKnown, OAsksSaid, SeqOf
<1>4. <<d, p>> \in OKeys
  BY <1>1 DEF OKeys
<1>5. \A i \in DOMAIN out : out[i].op \in OReplies =>
         /\ d = c /\ m.op \notin OBeside /\ out[i].sid = m.sid /\ out[i].at = m.at
         /\ out[i].op = "push-reply" => Means(srv, <<c, m.at>>, m.sid, out[i].v)
  BY DEF OSays
<1>6. \A v \in Nat : Means(ovpnServer, <<d, p>>, s.sid, v) =>
         Means(srv, <<d, p>>, s.sid, v) \/ (<<d, p>> = <<c, m.at>> /\ m.op \notin OBeside /\ s.sid = m.sid)
  BY <1>1, <1>4 DEF ODoes
<1>7. CASE d = c /\ m \in Qs
  <2>1. Few(Mine(out, Rs))
    <3>1. Few({i \in DOMAIN out : out[i].op \in OReplies})
      BY <1>7 DEF OSays
    <3>2. QED BY <3>1 DEF Few, Mine, OAnswered
  <2>2. s.sid = m.sid /\ p = m.at
    BY <1>7 DEF OAsked
  <2>3. ORight(s.sid, p, out, srv, d)
    <3> SUFFICES ASSUME NEW i \in Mine(out, Rs), out[i].op = "push-reply" PROVE Means(srv, <<d, p>>, s.sid, out[i].v)
      BY DEF ORight
    <3>1. i \in DOMAIN out /\ out[i].op \in OReplies
      BY DEF Mine, OAnswered
    <3>2. Means(srv, <<c, m.at>>, m.sid, out[i].v)
      BY <1>5, <3>1
    <3>3. QED BY <1>7, <2>2, <3>2
  <2>4. q # <<>> /\ Head(q) \in OAsked(s.sid, p)
    BY <1>7
  <2> HIDE DEF s, p, q, r, out, m
  <2>5. OLine(s, p, Tail(q), r \o out, srv, d)
    BY <1>1, <1>2, <2>1, <2>3, <2>4, OLineServed DEF Rs
  <2>6. QED BY <1>7, <2>5 DEF s, p, q, r, out
<1>8. CASE ~ (d = c /\ m \in Qs)
  <2>1. ~ (<<d, p>> = <<c, m.at>> /\ m.op \notin OBeside /\ s.sid = m.sid)
    BY <1>3, <1>8 DEF OAsked
  <2>2. \A v \in Nat : Means(ovpnServer, <<d, p>>, s.sid, v) => Means(srv, <<d, p>>, s.sid, v)
    BY <1>6, <2>1
  <2>3. Mine(out, Rs) = {}
    <3> SUFFICES ASSUME NEW i \in DOMAIN out, out[i] \in Rs PROVE FALSE
      BY DEF Mine
    <3>1. out[i].op \in OReplies /\ out[i].sid = s.sid /\ out[i].at = p
      BY DEF OAnswered
    <3>2. d = c /\ m.op \notin OBeside /\ out[i].sid = m.sid /\ out[i].at = m.at
      BY <1>5, <3>1
    <3>3. QED BY <2>1, <3>1, <3>2
  <2> DEFINE q2 == IF d = c THEN Tail(q) ELSE q
  <2>4. q2 \in Seq(OMsg) /\ OLine(s, p, q2, r, ovpnServer, d)
    <3>1. CASE d = c
      <4>1. q # <<>>
        BY <3>1
      <4> HIDE DEF s, p, q, r
      <4>2. Tail(q) \in Seq(OMsg) /\ OLine(s, p, Tail(q), r, ovpnServer, d)
        BY <1>1, <4>1, SeqOf, OLineLost
      <4>3. QED BY <3>1, <4>2
    <3>2. CASE d # c
      BY <1>1, <3>2
    <3>3. QED BY <3>1, <3>2
  <2>5. Mine(out, OAnswered(s.sid, p)) = {}
    BY <2>3
  <2> HIDE DEF s, p, r, out, m, q2
  <2>6. OLine(s, p, q2, r \o out, srv, d)
    BY <1>1, <1>2, <2>2, <2>4, <2>5, OLineTold
  <2>7. QED BY <2>6 DEF s, p, q, r, out, q2
<1>9. QED BY <1>7, <1>8

LEMMA OServerHandles ==
  ASSUME OInv, NEW c \in OvpnClients, O!ServerHandle(c)
  PROVE  OInv'
<1> DEFINE m == Head(asks[c])
           srv == ovpnServer
           off == [srv |-> srv, out |-> O!Nobody]
<1>1. asks[c] # <<>> /\ asks' = [asks EXCEPT ![c] = Tail(@)] /\ ovpn' = ovpn /\ cnOf' = cnOf /\ place' = place
  BY DEF O!ServerHandle
<1>2. PICK r \in IF srv.on THEN O!HandleMessage(srv, <<c, m.at>>, m) ELSE {off} : ovpnServer' = r.srv /\ tells' = O!Tell(tells, r.out)
  BY DEF O!ServerHandle
<1>3. srv \in OServer /\ OGood(srv) /\ asks[c] \in Seq(OAsk) /\ cnOf[c] \in ONames
  BY OKnown
<1>4. m \in OAsk /\ Tail(asks[c]) \in Seq(OAsk)
  BY <1>1, <1>3, SeqOf
<1>5. ODoes(srv, c, m, r.srv) /\ OSays(c, m, r.srv, r.out)
  <2>1. CASE r \in O!HandleMessage(srv, <<c, m.at>>, m)
    <3> HIDE DEF srv, m
    <3>1. QED BY <1>3, <1>4, <2>1, OHandles
  <2>2. CASE r = off
    <3>1. off.srv = srv /\ off.out = O!Nobody
      OBVIOUS
    <3> HIDE DEF off, srv, m
    <3>2. ODoes(srv, c, m, srv) /\ OSays(c, m, srv, O!Nobody)
      BY <1>3, <1>4, ODoesNothing, OSaysNothing
    <3>3. QED BY <2>2, <3>1, <3>2
  <2>3. QED BY <1>2, <2>1, <2>2
<1> DEFINE x == r.srv
           outs == r.out
           q == [asks EXCEPT ![c] = Tail(@)]
           t == O!Tell(tells, outs)
<1>6. x \in OServer /\ OGood(x) /\ outs \in OLines
  BY <1>5 DEF ODoes, OSays
<1>7. asks \in [OvpnClients -> Seq(OAsk)] /\ tells \in OLines
  BY DEF OInv, OType
<1>8. t \in OLines /\ \A d \in OvpnClients : t[d] = tells[d] \o outs[d]
  <2> HIDE DEF outs
  <2>1. QED BY <1>6, <1>7, OTells
<1>9. q \in [OvpnClients -> Seq(OAsk)] /\ \A d \in OvpnClients : q[d] = IF d = c THEN Tail(asks[d]) ELSE asks[d]
  BY <1>4, <1>7
<1>10. ASSUME NEW d \in OvpnClients PROVE OLine(ovpn[d].s, place[d], q[d], t[d], x, d)
  <2> DEFINE q2 == IF d = c THEN Tail(asks[d]) ELSE asks[d]
  <2>1. ODoes(ovpnServer, c, Head(asks[c]), x) /\ OSays(c, Head(asks[c]), x, outs)
    BY <1>5
  <2> HIDE DEF x, outs
  <2>2. OLine(ovpn[d].s, place[d], q2, tells[d] \o outs[d], x, d)
    BY <1>1, <2>1, OLineAnswered
  <2> HIDE DEF q, t
  <2>3. q[d] = q2 /\ t[d] = tells[d] \o outs[d]
    BY <1>8, <1>9
  <2>4. QED BY <2>2, <2>3
<1>11. ovpnServer' = x /\ asks' = q /\ tells' = t
  BY <1>1, <1>2
<1> HIDE DEF x, q, t
<1>12. QED BY <1>1, <1>6, <1>8, <1>9, <1>10, <1>11, OServes

\* The server drops every session, and may say so.
LEMMA OEmptied ==
  ASSUME OInv, NEW srv \in OServer, srv.sessions = O!Empty, srv.leases = ovpnServer.leases, NEW r \in OLines,
         NEW outs \in OLines, \A d \in OvpnClients : r[d] = tells[d] \o outs[d],
         \A d \in OvpnClients : \A i \in DOMAIN outs[d] : outs[d][i].op \notin OReplies,
         ovpn' = ovpn, cnOf' = cnOf, place' = place, ovpnServer' = srv, asks' = asks, tells' = r
  PROVE  OInv'
<1>1. O!Up(srv) = {}
  BY EmptyIs DEF O!Up
<1>2. OGood(srv)
  BY <1>1 DEF OGood, OInv
<1>3. asks \in [OvpnClients -> Seq(OAsk)]
  BY DEF OInv, OType
<1>4. ASSUME NEW d \in OvpnClients PROVE OLine(ovpn[d].s, place[d], asks[d], r[d], srv, d)
  <2> DEFINE s == ovpn[d].s
             p == place[d]
             out == outs[d]
  <2>1. s \in OTunnel /\ p \in {1, 2} /\ asks[d] \in Seq(OMsg) /\ tells[d] \in Seq(OMsg)
        /\ OLine(s, p, asks[d], tells[d], ovpnServer, d)
    BY OKnown, OAsksSaid
  <2>2. Mine(out, OAnswered(s.sid, p)) = {}
    BY DEF Mine, OAnswered
  <2>3. \A v \in Nat : Means(ovpnServer, <<d, p>>, s.sid, v) => Means(srv, <<d, p>>, s.sid, v)
    BY <1>1 DEF Means
  <2>4. out \in Seq(OMsg) /\ r[d] = tells[d] \o out
    BY DEF OLines
  <2> HIDE DEF s, p, out
  <2>5. OLine(s, p, asks[d], tells[d] \o out, srv, d)
    BY <2>1, <2>2, <2>3, <2>4, OLineTold
  <2>6. QED BY <2>4, <2>5 DEF s, p
<1>5. QED BY <1>2, <1>3, <1>4, OServes

LEMMA OForgetsAll ==
  ASSUME OInv, O!ForgetAll
  PROVE  OInv'
<1> DEFINE none == O!Empty
           srv == [ovpnServer EXCEPT !.sessions = none]
<1>1. ovpnServer' = srv /\ ovpn' = ovpn /\ cnOf' = cnOf /\ place' = place /\ asks' = asks /\ tells' = tells
  BY DEF O!ForgetAll
<1>2. ovpnServer \in OServer /\ tells \in OLines
  BY DEF OInv, OType
<1>3. none \in Partial(OKeys, OSession)
  BY EmptyIs
<1> HIDE DEF none
<1>4. srv \in OServer /\ srv.sessions = none /\ srv.leases = ovpnServer.leases
  BY <1>2, <1>3 DEF OServer
<1>5. O!Nobody \in OLines /\ \A d \in OvpnClients : O!Nobody[d] = <<>>
  BY ONobody
<1>6. \A d \in OvpnClients : tells[d] = tells[d] \o O!Nobody[d]
  BY <1>2, <1>5 DEF OLines
<1>7. \A d \in OvpnClients : \A i \in DOMAIN O!Nobody[d] : O!Nobody[d][i].op \notin OReplies
  BY <1>5
<1>8. srv.sessions = O!Empty
  BY <1>4 DEF none
<1> HIDE DEF srv
<1>9. QED BY <1>1, <1>2, <1>4, <1>5, <1>6, <1>7, <1>8, OEmptied

LEMMA SeqAssociative ==
  ASSUME NEW T, NEW p \in Seq(T), NEW q \in Seq(T), NEW r \in Seq(T)
  PROVE  p \o q \o r = p \o (q \o r)
OBVIOUS

\* What the client of a session is told when the server starts again
OBye(k) == IF k \in DOMAIN ovpnServer.sessions THEN O!Note(k, "restart", ovpnServer.sessions[k]) ELSE O!Nobody

LEMMA OByes ==
  ASSUME OInv, NEW c \in OvpnClients, NEW i \in {1, 2}
  PROVE  OBye(<<c, i>>)[c] \in Seq(OMsg) /\ \A j \in DOMAIN OBye(<<c, i>>)[c] : OBye(<<c, i>>)[c][j].op \notin OReplies
<1> DEFINE k == <<c, i>>
           e == ovpnServer.sessions
           s == e[k]
           b == OBye(k)
<1>1. k \in OKeys /\ k[1] = c
  BY DEF OKeys
<1>2. "restart" \in OOps /\ "restart" \notin OReplies
  BY DEF OOps, OReplies
<1>3. CASE k \in DOMAIN e
  <2>1. e \in Partial(OKeys, OSession)
    BY DEF OInv, OType, OServer
  <2>2. s \in OSession
    <3> HIDE DEF e
    <3>1. QED BY <1>3, <2>1, PartialIs
  <2>3. b = O!Note(k, "restart", s)
    BY <1>3 DEF OBye
  <2> HIDE DEF k, b, s
  <2>4. b \in OLines /\ \E n \in OMsg : b[k[1]] = <<n>> /\ n.op = "restart"
    BY <1>1, <1>2, <2>2, <2>3, ONotes
  <2>5. PICK n \in OMsg : b[c] = <<n>> /\ n.op = "restart"
    BY <1>1, <2>4
  <2>6. b[c] \in Seq(OMsg) /\ \A j \in DOMAIN b[c] : b[c][j] = n
    BY <2>5
  <2>7. \A j \in DOMAIN b[c] : b[c][j].op \notin OReplies
    BY <1>2, <2>5, <2>6
  <2>8. QED BY <2>6, <2>7 DEF b, k
<1>4. CASE k \notin DOMAIN e
  <2>1. b = O!Nobody
    BY <1>4 DEF OBye
  <2> HIDE DEF b, k
  <2>2. b \in OLines /\ b[c] = <<>>
    BY <2>1, ONobody
  <2>3. b[c] \in Seq(OMsg) /\ \A j \in DOMAIN b[c] : b[c][j].op \notin OReplies
    BY <2>2
  <2>4. QED BY <2>3 DEF b, k
<1>5. QED BY <1>3, <1>4

LEMMA OSets ==
  ASSUME OInv, NEW on \in BOOLEAN, NEW revoked \in SUBSET {cnOf[c] : c \in OvpnClients}, O!SetServer(on, revoked)
  PROVE  OInv'
<1> DEFINE none == O!Empty
           srv == [ovpnServer EXCEPT !.on = on, !.revoked = revoked, !.sessions = none]
           outs == [d \in OvpnClients |-> OBye(<<d, 1>>)[d] \o OBye(<<d, 2>>)[d]]
           r == [d \in OvpnClients |-> tells[d] \o OBye(<<d, 1>>)[d] \o OBye(<<d, 2>>)[d]]
<1>1. ovpnServer' = srv /\ ovpn' = ovpn /\ cnOf' = cnOf /\ place' = place /\ asks' = asks
  BY DEF O!SetServer
<1>2. tells' = r
  BY DEF O!SetServer, OBye
<1>3. ovpnServer \in OServer /\ tells \in OLines /\ revoked \in SUBSET ONames
  BY DEF OInv, OType
<1>4. none \in Partial(OKeys, OSession)
  BY EmptyIs
<1> HIDE DEF none
<1>5. srv \in OServer /\ srv.sessions = none /\ srv.leases = ovpnServer.leases
  BY <1>3, <1>4 DEF OServer
<1>6. ASSUME NEW d \in OvpnClients
      PROVE  /\ outs[d] \in Seq(OMsg) /\ r[d] \in Seq(OMsg) /\ r[d] = tells[d] \o outs[d]
             /\ \A i \in DOMAIN outs[d] : outs[d][i].op \notin OReplies
  <2> DEFINE a == OBye(<<d, 1>>)[d]
             b == OBye(<<d, 2>>)[d]
  <2>1. a \in Seq(OMsg) /\ (\A j \in DOMAIN a : a[j].op \notin OReplies)
    BY OByes
  <2>2. b \in Seq(OMsg) /\ (\A j \in DOMAIN b : b[j].op \notin OReplies)
    BY OByes
  <2>3. outs[d] = a \o b /\ r[d] = tells[d] \o a \o b /\ tells[d] \in Seq(OMsg)
    BY <1>3 DEF OLines
  <2> HIDE DEF outs, r, a, b
  <2>4. a \o b \in Seq(OMsg) /\ tells[d] \o a \o b = tells[d] \o (a \o b) /\ tells[d] \o (a \o b) \in Seq(OMsg)
    <3> DEFINE t == tells[d]
    <3>1. t \in Seq(OMsg)
      BY <2>3
    <3> HIDE DEF t
    <3>2. a \o b \in Seq(OMsg) /\ t \o (a \o b) \in Seq(OMsg)
      BY <2>1, <2>2, <3>1, SeqMore
    <3>3. t \o a \o b = t \o (a \o b)
      BY <2>1, <2>2, <3>1, SeqAssociative
    <3>4. QED BY <3>2, <3>3 DEF t
  <2>5. \A i \in DOMAIN (a \o b) : \/ i \in DOMAIN a /\ (a \o b)[i] = a[i]
                                   \/ i - Len(a) \in DOMAIN b /\ (a \o b)[i] = b[i - Len(a)]
    BY <2>1, <2>2, SeqMore
  <2>6. \A i \in DOMAIN (a \o b) : (a \o b)[i].op \notin OReplies
    BY <2>1, <2>2, <2>5
  <2>7. QED BY <2>3, <2>4, <2>6
<1>7. outs \in OLines /\ r \in OLines
  BY <1>6 DEF OLines
<1>8. srv.sessions = O!Empty
  BY <1>5 DEF none
<1> HIDE DEF srv, outs, r
<1>9. QED BY <1>1, <1>2, <1>5, <1>6, <1>7, <1>8, OEmptied

LEMMA OLoses ==
  ASSUME OInv, NEW c \in OvpnClients, O!Lose(c)
  PROVE  OInv'
<1> DEFINE q == asks[c]
           r == tells[c]
           q2 == [asks EXCEPT ![c] = Tail(@)]
           r2 == [tells EXCEPT ![c] = Tail(@)]
<1>1. /\ ovpn[c].s \in OTunnel /\ place[c] \in {1, 2} /\ q \in Seq(OAsk) /\ r \in Seq(OMsg) /\ q \in Seq(OMsg)
      /\ OLine(ovpn[c].s, place[c], q, r, ovpnServer, c)
  BY OKnown, OAsksSaid
<1>2. ovpnServer \in OServer /\ OGood(ovpnServer) /\ asks \in [OvpnClients -> Seq(OAsk)] /\ tells \in OLines
  BY DEF OInv, OType
<1>3. \A d \in OvpnClients : OLine(ovpn[d].s, place[d], asks[d], tells[d], ovpnServer, d)
  BY OKnown
<1>4. ovpn' = ovpn /\ cnOf' = cnOf /\ place' = place /\ ovpnServer' = ovpnServer
  BY DEF O!Lose
<1>5. CASE q # <<>> /\ asks' = q2 /\ tells' = tells
  <2>1. Tail(q) \in Seq(OAsk) /\ OLine(ovpn[c].s, place[c], Tail(q), r, ovpnServer, c)
    <3> HIDE DEF q, r
    <3>1. QED BY <1>1, <1>5, SeqOf, OLineLost
  <2>2. q2 \in [OvpnClients -> Seq(OAsk)] /\ q2[c] = Tail(q) /\ \A d \in OvpnClients \ {c} : q2[d] = asks[d]
    BY <1>2, <2>1
  <2> HIDE DEF q2
  <2>3. \A d \in OvpnClients : OLine(ovpn[d].s, place[d], q2[d], tells[d], ovpnServer, d)
    BY <1>3, <2>1, <2>2
  <2>4. asks' = q2 /\ tells' = tells
    BY <1>5
  <2>5. QED BY <1>2, <1>4, <2>2, <2>3, <2>4, OServes
<1>6. CASE r # <<>> /\ tells' = r2 /\ asks' = asks
  <2>1. Tail(r) \in Seq(OMsg) /\ OLine(ovpn[c].s, place[c], q, Tail(r), ovpnServer, c)
    <3> HIDE DEF q, r
    <3>1. QED BY <1>1, <1>6, SeqOf, OLineLost
  <2>2. r2 \in OLines /\ r2[c] = Tail(r) /\ \A d \in OvpnClients \ {c} : r2[d] = tells[d]
    BY <1>2, <2>1 DEF OLines
  <2> HIDE DEF r2
  <2>3. \A d \in OvpnClients : OLine(ovpn[d].s, place[d], asks[d], r2[d], ovpnServer, d)
    BY <1>3, <2>1, <2>2
  <2>4. tells' = r2 /\ asks' = asks
    BY <1>6
  <2>5. QED BY <1>2, <1>4, <2>2, <2>3, <2>4, OServes
<1>7. QED BY <1>5, <1>6 DEF O!Lose

LEMMA OBegins ==
  O!Init => OInv
<1> SUFFICES ASSUME O!Init PROVE OInv
  OBVIOUS
<1> DEFINE x == O!Connect(O!Idle)
           none == O!Empty
           srv == [on |-> TRUE, revoked |-> {}, sessions |-> none, leases |-> none]
<1>1. cnOf \in Certs /\ ovpn = [c \in OvpnClients |-> x] /\ ovpnServer = srv /\ place = [c \in OvpnClients |-> 1]
      /\ asks = [c \in OvpnClients |-> <<>>] /\ tells = [c \in OvpnClients |-> <<>>]
  BY DEF O!Init
<1>2. O!Idle \in OClient /\ O!Idle.s = O!Off
  <2> DEFINE o == O!Off
  <2>1. o \in OTunnel
    BY OOff
  <2>2. O!Idle = [s |-> o, enabled |-> TRUE, failed |-> "no", resolving |-> FALSE, resolveTries |-> 0,
                  reconnect |-> FALSE, retry |-> FALSE]
    BY DEF O!Idle
  <2> HIDE DEF o
  <2>3. O!Idle \in OClient /\ O!Idle.s = o
    BY <2>1, <2>2 DEF OClient
  <2>4. QED BY <2>3 DEF o
<1>3. x \in OClient /\ x.s = O!Off
  BY <1>2, OConnects
<1>4. none \in Partial(OKeys, OSession) /\ none \in Partial(ONames, Nat) /\ DOMAIN none = {}
  <2>1. O!Empty \in Partial(OKeys, OSession) /\ DOMAIN O!Empty = {}
    BY EmptyIs
  <2> DEFINE N == Nat
  <2> HIDE DEF N
  <2>2. O!Empty \in Partial(ONames, N)
    BY EmptyIs
  <2>3. QED BY <2>1, <2>2 DEF N
<1> HIDE DEF none
<1>5. srv \in OServer /\ srv.sessions = none /\ srv.leases = none
  BY <1>4 DEF OServer
<1> HIDE DEF srv, x
<1>6. OGood(srv)
  BY <1>4, <1>5 DEF OGood, O!Up
<1>7. \A c \in OvpnClients : cnOf[c] \in ONames
  BY <1>1 DEF ONames
<1>8. asks \in [OvpnClients -> Seq(OAsk)] /\ tells \in [OvpnClients -> Seq(OMsg)]
  BY <1>1
<1>9. OType
  BY <1>1, <1>3, <1>5, <1>7, <1>8 DEF OType, OLines
<1>10. \A c \in OvpnClients : ovpn[c].s = O!Off
  BY <1>1, <1>3
<1>11. QED BY <1>1, <1>6, <1>9, <1>10 DEF OInv, OLine

LEMMA OSteps ==
  OInv /\ O!Next => OInv'
<1> SUFFICES ASSUME OInv, O!Next PROVE OInv'
  OBVIOUS
<1>1. CASE O!ForgetAll BY <1>1, OForgetsAll
<1>2. ASSUME NEW on \in BOOLEAN, NEW revoked \in SUBSET {cnOf[c] : c \in OvpnClients}, O!SetServer(on, revoked) PROVE OInv'
  BY <1>2, OSets
<1>3. ASSUME NEW c \in OvpnClients, O!ClientHandle(c) PROVE OInv' BY <1>3, OClientHandles
<1>4. ASSUME NEW c \in OvpnClients, O!ServerHandle(c) PROVE OInv' BY <1>4, OServerHandles
<1>5. ASSUME NEW c \in OvpnClients, O!Resolved(c, TRUE) \/ O!Resolved(c, FALSE) PROVE OInv' BY <1>5, OResolves
<1>6. ASSUME NEW c \in OvpnClients, O!Retry(c) PROVE OInv' BY <1>6, ORetries
<1>7. ASSUME NEW c \in OvpnClients, O!ConnectRetry(c) \/ O!Reconnect(c) PROVE OInv' BY <1>7, OReconnects
<1>8. ASSUME NEW c \in OvpnClients, O!Ping(c) PROVE OInv' BY <1>8, OPings
<1>9. ASSUME NEW c \in OvpnClients, O!PingRestart(c) PROVE OInv' BY <1>9, OPingsOut
<1>10. ASSUME NEW c \in OvpnClients, O!Move(c) PROVE OInv' BY <1>10, OMoves
<1>11. ASSUME NEW c \in OvpnClients, O!Switch(c) \/ O!Redial(c) PROVE OInv' BY <1>11, OSwitches
<1>12. ASSUME NEW c \in OvpnClients, O!Lose(c) PROVE OInv' BY <1>12, OLoses
<1>13. QED BY <1>1, <1>2, <1>3, <1>4, <1>5, <1>6, <1>7, <1>8, <1>9, <1>10, <1>11, <1>12 DEF O!Next, O!Work

LEMMA OAgrees ==
  OInv => O!OneHolder /\ O!SameAddress
<1> SUFFICES ASSUME OInv PROVE O!OneHolder /\ O!SameAddress
  OBVIOUS
<1>1. O!OneHolder
  BY DEF OInv, OGood, O!OneHolder
<1>2. ASSUME NEW c \in OvpnClients, NEW k \in O!Up(ovpnServer), k = <<c, place[c]>>, ovpn[c].s.phase = "up",
             ovpn[c].s.sid = ovpnServer.sessions[k].sid
      PROVE  ovpn[c].s.vip = ovpnServer.sessions[k].vip
  <2>1. OLine(ovpn[c].s, place[c], asks[c], tells[c], ovpnServer, c)
    BY OKnown
  <2>2. ovpn[c].s # O!Off
    BY <1>2, OOff
  <2>3. Means(ovpnServer, k, ovpn[c].s.sid, ovpn[c].s.vip)
    BY <1>2, <2>1, <2>2 DEF OLine
  <2>4. QED BY <1>2, <2>3 DEF Means
<1>3. O!SameAddress
  BY <1>2 DEF O!SameAddress
<1>4. QED BY <1>1, <1>3

-------------------------------------------------------------------------------
(* The theorem *)

Inv ==
  /\ At("openvpn") => OInv
  /\ At("l2tp") => LInv
  /\ At("ravpn") => AInv

LEMMA Begins ==
  Init => Inv
<1> SUFFICES ASSUME Init PROVE Inv
  OBVIOUS
<1>1. At("openvpn") => OInv
  BY OBegins DEF Init
<1>2. At("l2tp") => LInv
  BY LBegins DEF Init
<1>3. At("ravpn") => AInv
  BY ABegins DEF Init
<1>4. QED BY <1>1, <1>2, <1>3 DEF Inv

\* The behaviour stays that of its component, whose variables alone change.
LEMMA OKept ==
  ASSUME OInv, UNCHANGED OVars
  PROVE  OInv'
BY DEF OVars, OInv, OType, OGood, OLine, ORight, Means, O!Up

LEMMA LKept ==
  ASSUME LInv, UNCHANGED LVars
  PROVE  LInv'
BY DEF LVars, LInv, LType, LHolders, LLine

LEMMA AKept ==
  ASSUME AInv, UNCHANGED AVars
  PROVE  AInv'
BY DEF AVars, AInv, AType, AHolders, ALine

LEMMA Steps ==
  Inv /\ [Next]_vars => Inv'
<1> SUFFICES ASSUME Inv, [Next]_vars PROVE Inv'
  OBVIOUS
<1>1. part' = part
  BY DEF Next, vars
<1>2. ASSUME At("openvpn") PROVE OInv'
  <2>1. OInv
    BY <1>2 DEF Inv
  <2>2. O!Next \/ UNCHANGED OVars
    BY <1>2 DEF Next, vars, At
  <2>3. QED BY <2>1, <2>2, OSteps, OKept
<1>3. ASSUME At("l2tp") PROVE LInv'
  <2>1. LInv
    BY <1>3 DEF Inv
  <2>2. L!Next \/ UNCHANGED LVars
    BY <1>3 DEF Next, vars, At
  <2>3. QED BY <2>1, <2>2, LSteps, LKept
<1>4. ASSUME At("ravpn") PROVE AInv'
  <2>1. AInv
    BY <1>4 DEF Inv
  <2>2. A!Next \/ UNCHANGED AVars
    BY <1>4 DEF Next, vars, At
  <2>3. QED BY <2>1, <2>2, ASteps, AKept
<1>5. QED BY <1>1, <1>2, <1>3, <1>4 DEF Inv, At

\* One address, one device, at the three VPN servers of openvpn.ts, l2tp.ts and ravpn.ts: whatever is
\* lost, retried, restarted or taken over, the server has given no address twice, and a client that is up
\* uses the address its server has for it.
THEOREM OneAddress == Spec => []OneAddressEach
<1>1. Init => Inv
  BY Begins
<1>2. Inv /\ [Next]_vars => Inv'
  BY Steps
<1>3. Inv => OneAddressEach
  BY OAgrees, LAgrees, AAgrees DEF Inv, OneAddressEach
<1>4. QED
  <2> HIDE DEF Fairness
  <2>1. QED BY <1>1, <1>2, <1>3, PTL DEF Spec
=============================================================================
