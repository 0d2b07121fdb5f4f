---------------------------------- MODULE Sip ----------------------------------
(***************************************************************************)
(* Internet telephony (src/src/core/nodes/sip.ts): phones register their   *)
(* name with a server, which passes the signals of a call on; the voices   *)
(* go from phone to phone, to the address each told the other.  A phone    *)
(* behind NAT tells a private one unless its router (routersip.ts) rewrites*)
(* it and opens a hole in the translation for the voices of the call.      *)
(* Signals are faster than every timer but the one between two packets of  *)
(* voice, and a packet of voice is faster than a signal by way of the      *)
(* server.                                                                 *)
(***************************************************************************)
EXTENDS Naturals, Sequences, FiniteSets
LOCAL INSTANCE SequencesExt

CONSTANTS
  Phones,
  Named,       \* the name each phone has at first
  Names,       \* the names users may give
  Public,      \* the phones with a public address; each of the others is behind a router
  Packets,     \* packets of voice to a side (RTP_PACKETS)
  MaxSipEdits, MaxCalls  \* bounds: settings, cables and losses; calls

VARIABLES
  phone,    \* phone[p]: settings, registration and calls; of its router, whether it rewrites, the port that
            \* voices come in by ("none", a "dynamic" one or a "hole"), and the calls that have the hole
  users,    \* users[u]: the phone the server takes u to be at
  through,  \* through[id]: the two ends of a call the server passes signals of
  signals,  \* signals under way, oldest first
  sipLost,  \* a signal was lost
  sipEdits, dialled
sipVars == <<phone, users, through, signals, sipLost, sipEdits, dialled>>

Server == "server"
Nobody == "none"
NoSdp == <<Nobody, "none">>
Private == <<"private", "none">>
Ids == Names \X (1..MaxCalls)
NewPhone(user, alg) ==
  [on |-> TRUE, user |-> user, ip |-> TRUE, registered |-> FALSE, asking |-> FALSE, tries |-> 0, background |-> {},
   seq |-> 0, calls |-> <<>>, alg |-> alg, port |-> "none", holders |-> {}]
NewCall(id, role, peer, state, remote) ==
  [id |-> id, role |-> role, peer |-> peer, state |-> state, remote |-> remote,
   sent |-> 0, heard |-> FALSE, acked |-> FALSE, timers |-> {}, byes |-> 0]

-------------------------------------------------------------------------------
(* A step of phone x.p; what it says is x.out, and the calls it speaks in    *)
(* are x.voices.                                                             *)
AtPhone(p) == [p |-> p, f |-> phone[p], out |-> <<>>, voices |-> <<>>]
\* what leaves a phone: its router closes the hole of a call that is over, and opens one for the voices
SipAlg(x, m, told) ==
  LET over == m.kind \in {"bye", "byeok"} /\ m.id \in x.f.holders
      closed == IF over THEN [x EXCEPT !.f.holders = @ \ {m.id}, !.f.port = IF @ = "hole" THEN "none" ELSE @] ELSE x
      port == IF closed.f.port = "none" THEN "hole" ELSE closed.f.port
      rewrites == x.f.alg /\ x.p \notin Public
      sdp == IF ~told THEN NoSdp ELSE IF x.p \in Public THEN <<x.p, "none">> ELSE IF rewrites THEN <<x.p, port>> ELSE Private
      opened == IF told THEN [closed EXCEPT !.f.port = port, !.f.holders = @ \cup {m.id}] ELSE closed
  IN [IF rewrites THEN opened ELSE x EXCEPT !.out = Append(@, [m EXCEPT !.sdp = sdp])]
Say(x, kind, id, b, told) ==
  IF ~x.f.ip THEN x
  ELSE SipAlg(x, [to |-> Server, from |-> x.p, kind |-> kind, id |-> id, a |-> x.f.user, b |-> b, sdp |-> NoSdp], told)
Reply(x, kind, m, told) ==
  IF ~x.f.ip THEN x ELSE SipAlg(x, [m EXCEPT !.to = Server, !.from = x.p, !.kind = kind], told)

NoId == <<Nobody, 0>>
SayRegister(x, kind) == Say(x, kind, NoId, x.f.user, FALSE)
Register(x) ==
  IF ~x.f.ip THEN x
  ELSE SayRegister([x EXCEPT !.f.tries = 1, !.f.asking = TRUE, !.f.background = {}], "register")
EndCall(c) == IF c.state = "ended" THEN c ELSE [c EXCEPT !.state = "ended"]
EndAll(calls) == [i \in DOMAIN calls |-> IF calls[i].state = "failed" THEN calls[i] ELSE EndCall(calls[i])]
Unregistered(x) == [x EXCEPT !.f.registered = FALSE, !.f.asking = FALSE, !.f.background = {}, !.f.calls = EndAll(@)]

\* the first call of that id, if there is one
Found(f, id) == LET at == {i \in DOMAIN f.calls : f.calls[i].id = id} IN IF at = {} THEN 0 ELSE CHOOSE i \in at : \A j \in at : i <= j

RtpStep(x, i) ==
  LET c == x.f.calls[i]
      more == c.sent + 1 < Packets
      next == (c.timers \ {"rtp"}) \cup (IF more THEN {"rtp"} ELSE IF c.role = "caller" THEN {"hangup"} ELSE {})
  IN IF c.state # "talking" \/ ~x.f.ip THEN [x EXCEPT !.f.calls[i].timers = @ \ {"rtp"}]
     ELSE [x EXCEPT !.f.calls[i].sent = @ + 1, !.f.calls[i].timers = next,
                    !.f.port = IF @ = "none" /\ x.p \notin Public THEN "dynamic" ELSE @,
                    !.voices = Append(@, [to |-> c.remote, id |-> c.id])]
StartRtp(x, i) == RtpStep([x EXCEPT !.f.calls[i].timers = @ \cup {"idle"}], i)

OnRegistered(x, m) ==
  IF m.a # x.f.user THEN x
  ELSE [x EXCEPT !.f.asking = FALSE, !.f.registered = TRUE,
                 !.f.background = IF x.f.registered THEN @ ELSE @ \cup {"refresh"}]
OnInvite(x, m) ==
  IF m.b # x.f.user THEN Reply(x, "404", m, FALSE)
  ELSE Reply(Reply([x EXCEPT !.f.calls = Append(@, NewCall(m.id, "callee", m.a, "ringing", m.sdp))], "180", m, FALSE),
             "200", m, TRUE)
OnAnswer(x, m, i) ==
  IF x.f.calls[i].state = "talking" \/ x.f.calls[i].role # "caller" THEN x
  ELSE LET y == [x EXCEPT !.f.calls[i].state = "talking", !.f.calls[i].remote = m.sdp]
       IN StartRtp(Say(y, "ack", m.id, y.f.calls[i].peer, FALSE), i)
OnAck(x, i) ==
  IF x.f.calls[i].role = "callee" /\ x.f.calls[i].state = "ringing"
  THEN StartRtp([x EXCEPT !.f.calls[i].state = "talking"], i) ELSE x
HandleSip(x, m) ==
  LET i == Found(x.f, m.id)
  IN CASE ~x.f.on -> x
       [] x.f.on /\ m.kind = "registered" -> OnRegistered(x, m)
       [] x.f.on /\ m.kind = "invite" -> OnInvite(x, m)
       [] OTHER ->
            IF i = 0 THEN x
            ELSE CASE m.kind = "180" -> [x EXCEPT !.f.calls[i].state = "ringing"]
                   [] m.kind \in {"404", "486"} -> [x EXCEPT !.f.calls[i].state = "failed"]
                   [] m.kind = "200" -> OnAnswer(x, m, i)
                   [] m.kind = "ack" -> OnAck(x, i)
                   [] m.kind = "bye" -> Reply([x EXCEPT !.f.calls[i] = EndCall(@)], "byeok", m, FALSE)
                   [] m.kind = "byeok" -> [x EXCEPT !.f.calls[i].acked = TRUE]

-------------------------------------------------------------------------------
(* The server *)

HandleServer(m) ==
  LET back(kind) == <<[m EXCEPT !.to = m.from, !.from = Server, !.kind = kind]>>
      t == through[m.id]
      pass(to) == <<[m EXCEPT !.to = to, !.from = Server]>>
  IN CASE m.kind = "unregister" -> [users |-> [users EXCEPT ![m.a] = Nobody], through |-> through, out |-> back("registered")]
       [] m.kind = "register" -> [users |-> [users EXCEPT ![m.a] = m.from], through |-> through, out |-> back("registered")]
       [] m.kind = "invite" ->
            IF m.a = m.b \/ users[m.b] = Nobody
            THEN [users |-> users, through |-> through, out |-> back(IF m.a = m.b THEN "486" ELSE "404")]
            ELSE [users |-> users, through |-> [through EXCEPT ![m.id] = <<m.from, users[m.b]>>], out |-> pass(users[m.b])]
       [] OTHER ->
            IF t = <<>> THEN [users |-> users, through |-> through, out |-> <<>>]
            ELSE [users |-> users, out |-> pass(IF m.from = t[2] THEN t[1] ELSE t[2]),
                  through |-> IF m.kind = "byeok" THEN [through EXCEPT ![m.id] = <<>>] ELSE through]

-------------------------------------------------------------------------------
\* a voice is heard in a call that is not over
HandleRtp(f, v) ==
  LET i == Found(f, v.id)
  IN IF ~f.ip \/ i = 0 \/ f.calls[i].state \in {"ended", "failed"} THEN f ELSE [f EXCEPT !.calls[i].heard = TRUE]
Speak(x) ==
  phone' = [p \in Phones |->
              FoldLeft(LAMBDA f, v : IF v.to = <<p, f.port>> THEN HandleRtp(f, v) ELSE f, IF p = x.p THEN x.f ELSE phone[p], x.voices)]
SipStep(x) == Speak(x) /\ signals' = signals \o x.out

QuietSip == signals = <<>>
SipEdit == sipEdits < MaxSipEdits /\ sipEdits' = sipEdits + 1

ReceiveSip ==
  LET m == Head(signals)
      s == HandleServer(m)
      x == HandleSip(AtPhone(m.to), m)
  IN /\ signals # <<>>
     /\ IF m.to = Server
        THEN users' = s.users /\ through' = s.through /\ signals' = Tail(signals) \o s.out /\ UNCHANGED phone
        ELSE /\ IF phone[m.to].ip THEN Speak(x) /\ signals' = Tail(signals) \o x.out
                ELSE UNCHANGED phone /\ signals' = Tail(signals)
             /\ UNCHANGED <<users, through>>
     /\ UNCHANGED <<sipLost, sipEdits, dialled>>
LoseSignal ==
  /\ signals # <<>> /\ SipEdit
  /\ signals' = Tail(signals) /\ sipLost' = TRUE
  /\ UNCHANGED <<phone, users, through, dialled>>

(* Timers *)
RestSip == UNCHANGED <<users, through, sipLost, sipEdits, dialled>>
RegisterTimer(p) ==
  LET x == [AtPhone(p) EXCEPT !.f.asking = FALSE]
      y == IF x.f.tries > 2 THEN [x EXCEPT !.f.background = @ \cup {"retry"}]
           ELSE SayRegister([x EXCEPT !.f.tries = @ + 1, !.f.asking = TRUE], "register")
  IN /\ QuietSip /\ phone[p].asking
     /\ SipStep(y) /\ RestSip
Refresh(p, kind) ==
  LET x == AtPhone(p)
      over == kind = "retry" /\ x.f.registered
  IN /\ QuietSip /\ kind \in phone[p].background
     /\ SipStep(IF over THEN [x EXCEPT !.f.background = @ \ {"retry"}] ELSE SayRegister(x, "register"))
     /\ RestSip
CallTimer(p, i, t) ==
  LET c == phone[p].calls[i]
      x == [AtPhone(p) EXCEPT !.f.calls[i].timers = @ \ {t}]
      bye(y) == Say([y EXCEPT !.f.calls[i].timers = @ \cup {"bye"}, !.f.calls[i].byes = @ + 1], "bye", c.id, c.peer, FALSE)
  IN /\ t \in c.timers
     /\ t # "rtp" => QuietSip
     /\ t = "idle" => \A q \in Phones : \A k \in DOMAIN phone[q].calls : phone[q].calls[k].timers \subseteq {"idle"}
     /\ SipStep(CASE t = "invite" /\ c.state = "calling" -> [x EXCEPT !.f.calls[i].state = "failed"]
                  [] t = "rtp" -> RtpStep(x, i)
                  [] t = "idle" /\ c.state = "talking" -> [x EXCEPT !.f.calls[i] = EndCall(@)]
                  [] t = "hangup" /\ c.state = "talking" -> bye([x EXCEPT !.f.calls[i] = EndCall(@)])
                  [] t = "bye" /\ ~c.acked /\ c.byes <= 2 -> bye(x)
                  [] OTHER -> x)
     /\ RestSip

(* Users *)
SetConfigSip(p, on, user) ==
  LET x == AtPhone(p)
      y == Unregistered(IF x.f.registered THEN SayRegister(x, "unregister") ELSE x)
      z == [y EXCEPT !.f.on = on, !.f.user = user]
  IN /\ SipEdit
     /\ on # x.f.on \/ user # x.f.user
     /\ SipStep(IF on THEN Register(z) ELSE z)
     /\ UNCHANGED <<users, through, sipLost, dialled>>
Cable(p) ==
  LET x == AtPhone(p)
      back == [x EXCEPT !.f.ip = TRUE]
  IN /\ SipEdit
     /\ SipStep(IF x.f.ip THEN [Unregistered(x) EXCEPT !.f.ip = FALSE]
                ELSE IF x.f.on /\ ~x.f.registered THEN Register(back) ELSE back)
     /\ UNCHANGED <<users, through, sipLost, dialled>>
Dial(p, to) ==
  LET x == AtPhone(p)
      id == <<x.f.user, x.f.seq + 1>>
      c == [NewCall(id, "caller", to, "calling", NoSdp) EXCEPT !.timers = {"invite"}]
      y == IF x.f.registered THEN Say([x EXCEPT !.f.seq = @ + 1, !.f.calls = Append(@, c)], "invite", id, to, TRUE)
           ELSE Register(x)
  IN /\ dialled < MaxCalls /\ dialled' = dialled + 1
     /\ x.f.on /\ x.f.ip
     /\ SipStep(y)
     /\ UNCHANGED <<users, through, sipLost, sipEdits>>

SetSipAlg(p) ==
  /\ SipEdit /\ p \notin Public
  /\ phone' = [phone EXCEPT ![p].alg = ~@]
  /\ UNCHANGED <<users, through, signals, sipLost, dialled>>

Begun(p, alg) == Register([p |-> p, f |-> NewPhone(Named[p], alg), out |-> <<>>, voices |-> <<>>])
Init ==
  /\ \E alg \in BOOLEAN : /\ phone = [p \in Phones |-> Begun(p, alg).f]
                         /\ signals = FoldLeft(LAMBDA s, p : s \o Begun(p, alg).out, <<>>, SetToSeq(Phones))
  /\ users = [u \in Names |-> Nobody] /\ through = [id \in Ids |-> <<>>]
  /\ sipLost = FALSE /\ sipEdits = 0 /\ dialled = 0
Next ==
  \/ ReceiveSip \/ LoseSignal
  \/ \E p \in Phones :
       \/ RegisterTimer(p)
       \/ \E kind \in {"refresh", "retry"} : Refresh(p, kind)
       \/ \E i \in DOMAIN phone[p].calls, t \in {"invite", "rtp", "idle", "hangup", "bye"} : CallTimer(p, i, t)
       \/ \E on \in BOOLEAN, user \in Names : SetConfigSip(p, on, user)
       \/ Cable(p)
       \/ SetSipAlg(p)
       \/ \E to \in Names : Dial(p, to)
Spec == Init /\ [][Next]_sipVars

-------------------------------------------------------------------------------
\* A phone that is off is not registered and has no timer of its registration, and no call is talked in without voices due.
TypeOK ==
  \A p \in Phones :
    LET f == phone[p]
    IN /\ f.port = "hole" => f.holders # {}
       /\ ~f.on \/ ~f.ip => ~f.registered /\ ~f.asking /\ f.background = {}
       /\ f.asking => f.tries \in 1..3
       /\ \A i \in DOMAIN f.calls : /\ f.calls[i].state = "talking" => "idle" \in f.calls[i].timers
                                    /\ f.calls[i].sent <= Packets
                                    /\ f.calls[i].byes <= 3

\* Two calls of one phone with one id: the ids are counted by the phone but named by its user.
Clash == \E p \in Phones : \E i, j \in DOMAIN phone[p].calls : i < j /\ phone[p].calls[i].id = phone[p].calls[j].id
DueSip == \E p \in Phones : phone[p].asking \/ \E i \in DOMAIN phone[p].calls : phone[p].calls[i].timers # {}

\* When nothing is due, nobody is left talking or calling, whatever was lost, pulled or changed; a phone can be
\* left ringing, but only then.
CallsEnd ==
  QuietSip /\ ~DueSip /\ ~Clash =>
    \A p \in Phones : \A i \in DOMAIN phone[p].calls :
      LET s == phone[p].calls[i].state IN s \notin {"calling", "talking"} /\ (sipEdits = 0 => s # "ringing")

\* A call that was not disturbed was heard by the ends whose address the other could reach: a phone with a
\* public address, or one whose router keeps the hole open until the call is over.
VoicesHeard ==
  QuietSip /\ ~DueSip /\ sipEdits = 0 =>
    \A p \in Phones : \A i \in DOMAIN phone[p].calls :
      LET c == phone[p].calls[i] IN c.state = "ended" => (c.heard <=> p \in Public \/ phone[p].alg)

\* A registered phone can be called: the server knows its name, and takes it to be at a phone that has it,
\* as long as no signal was lost and no two phones have shared a name.
KnownByName ==
  QuietSip /\ ~sipLost =>
    \A p \in Phones : phone[p].registered =>
      LET u == phone[p].user IN users[u] # Nobody /\ phone[users[u]].user = u
===============================================================================
