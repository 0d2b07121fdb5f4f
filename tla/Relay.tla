--------------------------------- MODULE Relay ---------------------------------
(***************************************************************************)
(* A connection in two halves: a client asks a relay for a target, and the *)
(* relay opens the second half.  A forward proxy (nodes/proxy.ts) fetches  *)
(* the page itself ("get") or ties the halves into a tunnel ("connect"),   *)
(* an SSH jump host (nodes/sshjump.ts) ties them too ("jump"), both by     *)
(* nodes/tcpsplice.ts.  The halves are TCP connections that lose nothing   *)
(* between two ends until a cable is cut for good; what TCP does against   *)
(* losses is in Tcp.tla.                                                   *)
(***************************************************************************)
EXTENDS Naturals, Sequences
LOCAL INSTANCE SequencesExt

CONSTANTS
  Wants,   \* what a client may ask for, of "get", "connect" and "jump"
  Targets, \* what the target does: "answers", "refuses", "silent" (no word at all) or "mute" (no answer)
  Rules,   \* what the relay refuses: "none", "name" (of the target) or "address"
  MaxRelayFaults

VARIABLES
  want, target, rule,
  conn,    \* conn[e]: the ends of the halves: "c" (client) - "d" (relay), "u" (relay) - "t" (target)
  inbox,   \* inbox[e]: what is under way to e
  cut,     \* the halves whose cable was cut
  app,     \* the relay: has it a lookup, a connection pending, a pair of halves tied together
  stage,   \* how far the client is
  heard,   \* heard[e]: what the program at e got of the program at the other end
  log,     \* the relay's log of requests
  relayFaults
relayVars == <<want, target, rule, conn, inbox, cut, app, stage, heard, log, relayFaults>>

Ends == {"c", "d", "u", "t"}
Peer(e) == CASE e = "c" -> "d" [] e = "d" -> "c" [] e = "u" -> "t" [] e = "t" -> "u"
Other(e) == IF e = "d" THEN "u" ELSE "d"
Half(e) == IF e \in {"c", "d"} THEN "near" ELSE "far"
NewConn(st) == [st |-> st, fin |-> FALSE, finAcked |-> FALSE, due |-> FALSE]

-------------------------------------------------------------------------------
(* One step, that of an end or of the relay, as it goes on: x *)
Now == [conn |-> conn, inbox |-> inbox, app |-> app, stage |-> stage, heard |-> heard, log |-> log]
St(x, e) == x.conn[e].st
Over(x, e) == St(x, e) \in {"CLOSED", "FAILED"}

\* what must be acknowledged, and is lost, is due to be given up
Transmit(x, e, kind, wrapped) ==
  IF Half(e) \in cut THEN IF kind \in {"ack", "rst"} THEN x ELSE [x EXCEPT !.conn[e].due = TRUE]
  ELSE [x EXCEPT !.inbox[Peer(e)] = Append(@, [k |-> kind, w |-> wrapped, fa |-> x.conn[e].fin])]
Disconnect(x, e) ==
  IF St(x, e) # "ESTABLISHED" THEN x ELSE Transmit([x EXCEPT !.conn[e].st = "FIN_WAIT_1"], e, "fin", FALSE)
RespondWith(x, e, parts) ==
  IF St(x, e) # "ESTABLISHED" THEN x ELSE Disconnect(FoldLeft(LAMBDA y, p : Transmit(y, e, p, FALSE), x, parts), e)
ChannelFail(x) == IF St(x, "d") # "ESTABLISHED" THEN x ELSE Transmit(x, "d", "fail", FALSE)
Given(x, e, st) == [x EXCEPT !.conn[e].st = st, !.conn[e].due = FALSE]
Log(x, result) == [x EXCEPT !.log = Append(@, result)]

(* Two halves tied together: when one ends, so does the other *)
\* Mutant: the end of either half ends the pair, each time.
UntiedTwice(x, e) == IF Over(x, "d") /\ Over(x, "u") THEN Log([x EXCEPT !.app.pair = FALSE], "closed") ELSE x
Untied(x, e) ==
  IF x.app.pair /\ Over(x, "d") /\ Over(x, "u") THEN Log([x EXCEPT !.app.pair = FALSE], "closed") ELSE x
\* Mutant: a half whose other one failed is not reset.
FinishPairWithoutReset(x, e) ==
  IF St(x, Other(e)) # "ESTABLISHED" THEN Untied(x, e) ELSE Untied(Disconnect(x, Other(e)), e)
FinishPair(x, e) ==
  LET o == Other(e)
  IN IF St(x, o) # "ESTABLISHED" THEN Untied(x, e)
     ELSE IF St(x, e) = "FAILED" THEN Untied(Untied(Transmit(Given(x, o, "FAILED"), o, "rst", FALSE), o), e)
     ELSE Untied(Disconnect(x, o), e)

Answers == <<"answer", "end">>
Kinds(s) == [i \in DOMAIN s |-> s[i].k]
\* the second half ended before it was tied: what is the client told
FinishPending(x) ==
  LET y == [x EXCEPT !.app.pending = FALSE]
      there == St(x, "d") = "ESTABLISHED"
  IN CASE want = "connect" -> IF there THEN RespondWith(Log(y, "503"), "d", <<"503">>) ELSE Log(y, "left")
       [] want = "get" ->
            IF x.heard["u"] # <<>> /\ x.conn["u"].fin THEN RespondWith(Log(y, "200"), "d", Kinds(x.heard["u"]))
            ELSE IF there THEN RespondWith(Log(y, "503"), "d", <<"503">>) ELSE Log(y, "left")
       [] want = "jump" -> IF there THEN ChannelFail(Log(y, "refused")) ELSE y
OnFinish(x, e) ==
  IF e \notin {"d", "u"} THEN x
  ELSE IF x.app.pair THEN FinishPair(x, e)
  ELSE IF e = "u" /\ x.app.pending THEN FinishPending(x) ELSE x
Fail(x, e) == OnFinish(Given(x, e, "FAILED"), e)
Close(x, e) == OnFinish(Given(x, e, "CLOSED"), e)
ResetConn(x, e) == IF Over(x, e) THEN x ELSE OnFinish(Transmit(Given(x, e, "FAILED"), e, "rst", FALSE), e)

(* The relay is asked for a target, by its name *)
Deny(x) == RespondWith(Log(x, "403"), "d", <<"403">>)
Go(x) ==
  IF St(x, "d") # "ESTABLISHED" THEN x
  ELSE IF want # "jump" /\ rule = "address" THEN Deny(x)
  ELSE Transmit([x EXCEPT !.conn["u"] = NewConn("SYN_SENT"), !.app.pending = TRUE], "u", "syn", FALSE)
OnRequest(x) == IF rule = "name" THEN Deny(x) ELSE [x EXCEPT !.app.looking = TRUE]
OnChannelOpen(x) == IF rule # "none" THEN ChannelFail(Log(x, "refused")) ELSE [x EXCEPT !.app.looking = TRUE]

\* the second half is there: it is tied to the first, and the client told so
Tie(x) == [x EXCEPT !.app.pending = FALSE, !.app.pair = TRUE]
TooLate(x) == [x EXCEPT !.app.pending = FALSE]
TunnelOpen(x) ==
  IF St(x, "d") # "ESTABLISHED" THEN Disconnect(Log(TooLate(x), "left"), "u")
  ELSE Transmit(Tie(x), "d", "200", FALSE)
ChannelOpen(x) ==
  IF St(x, "d") # "ESTABLISHED" THEN Disconnect(TooLate(x), "u")
  ELSE Transmit(Log(Tie(x), "open"), "d", "confirm", FALSE)
OnEstablished(x) ==
  CASE want = "get" -> Transmit(x, "u", "request", FALSE)
    [] want = "connect" -> TunnelOpen(x)
    [] want = "jump" -> ChannelOpen(x)
\* what comes through a tied half goes on to the other, as it is
OnRelay(x, e, m) ==
  IF ~x.app.pair \/ St(x, Other(e)) # "ESTABLISHED" THEN x ELSE Transmit(x, Other(e), m.k, FALSE)
\* a jump host unwraps it on the way out and wraps it on the way in
OnChannel(x, e, m) ==
  IF ~x.app.pair \/ St(x, Other(e)) # "ESTABLISHED" THEN x ELSE Transmit(x, Other(e), m.k, e = "u")
Relaying(x, e) == (e = "u" /\ want # "get") \/ (e = "d" /\ x.app.pair)

-------------------------------------------------------------------------------
(* The programs at both ends *)

ClientHears(x, m) ==
  LET y == [x EXCEPT !.heard["c"] = Append(@, m)]
      next(stg, kind) == Transmit([y EXCEPT !.stage = stg], "c", kind, want = "jump")
  IN CASE m.k = "200" /\ x.stage = "asked" -> next("hello", "hello")
       [] m.k = "server-hello" -> next("requested", "request")
       [] m.k = "confirm" -> next("login", "login")
       [] m.k = "fail" -> ResetConn(x, "c")
       [] m.k = "welcome" -> [y EXCEPT !.stage = "open"]
       [] OTHER -> y
TargetHears(x, m) ==
  LET y == [x EXCEPT !.heard["t"] = Append(@, m)]
  IN CASE target = "mute" -> y
       [] target # "mute" /\ m.k = "hello" -> Transmit(y, "t", "server-hello", FALSE)
       [] target # "mute" /\ m.k = "login" -> Transmit(y, "t", "welcome", FALSE)
       [] target # "mute" /\ m.k = "request" -> RespondWith(y, "t", Answers)
OnData(x, e, m) ==
  CASE e = "c" -> ClientHears(x, m)
    [] e = "t" -> TargetHears(x, m)
    [] e \in {"d", "u"} /\ Relaying(x, e) -> IF want = "jump" THEN OnChannel(x, e, m) ELSE OnRelay(x, e, m)
    [] e = "u" /\ ~Relaying(x, e) -> [x EXCEPT !.heard["u"] = Append(@, m)]
    [] e = "d" /\ ~Relaying(x, e) -> IF want = "jump" THEN OnChannelOpen(x) ELSE OnRequest(x)

(* TCP, as far as the halves tell it apart *)
OnRst(x, e) ==
  LET client == e = "u" \/ (e = "c" /\ want # "jump")
      cutShort == St(x, e) = "SYN_SENT" \/ (client /\ ~x.conn[e].fin)
  IN IF Over(x, e) THEN x ELSE IF cutShort THEN Fail(x, e) ELSE Close(x, e)
OnFin(x, e) ==
  LET y == [x EXCEPT !.conn[e].fin = TRUE]
      z == IF St(x, e) = "ESTABLISHED" THEN Transmit([y EXCEPT !.conn[e].st = "LAST_ACK"], e, "fin", FALSE)
           ELSE LET a == Transmit(y, e, "ack", FALSE) IN IF y.conn[e].finAcked THEN Close(a, e) ELSE a
  IN IF Relaying(x, e) /\ z.app.pair THEN Disconnect(z, Other(e)) ELSE z
\* the ACK that a segment carries, at last
Settle(x, e) ==
  IF ~x.conn[e].finAcked THEN x
  ELSE CASE St(x, e) = "FIN_WAIT_1" -> IF x.conn[e].fin THEN Close(x, e) ELSE [x EXCEPT !.conn[e].st = "FIN_WAIT_2"]
         [] St(x, e) = "LAST_ACK" -> Close(x, e)
         [] OTHER -> x
OnSyn(x) ==
  CASE target = "refuses" -> Transmit(x, "t", "rst", FALSE)
    [] target = "silent" -> [x EXCEPT !.conn["u"].due = TRUE]
    [] OTHER -> Transmit([x EXCEPT !.conn["t"] = NewConn("ESTABLISHED")], "t", "synack", FALSE)
Receive(x, e, m) ==
  LET y == [x EXCEPT !.conn[e].finAcked = @ \/ m.fa]
  IN CASE m.k = "syn" -> OnSyn(x)
       [] m.k = "rst" -> OnRst(x, e)
       [] m.k \notin {"syn", "rst"} /\ St(x, e) = "FAILED" ->
            IF m.k = "ack" \/ Over(x, Peer(e)) THEN x ELSE [x EXCEPT !.conn[Peer(e)].due = TRUE]
       [] m.k = "synack" /\ St(x, e) = "SYN_SENT" -> OnEstablished([x EXCEPT !.conn[e].st = "ESTABLISHED"])
       [] m.k \notin {"syn", "rst"} /\ St(x, e) = "CLOSED" -> IF m.k = "ack" THEN x ELSE Transmit(x, e, "ack", FALSE)
       [] OTHER ->
            Settle(CASE m.k = "fin" -> OnFin(y, e) [] m.k = "ack" -> y [] OTHER -> OnData(y, e, m), e)

-------------------------------------------------------------------------------
Becomes(x) ==
  conn' = x.conn /\ inbox' = x.inbox /\ app' = x.app /\ stage' = x.stage /\ heard' = x.heard /\ log' = x.log
Rest == UNCHANGED <<want, target, rule>>
QuietRelay == \A e \in Ends : inbox[e] = <<>>

Deliver(e) ==
  /\ inbox[e] # <<>>
  /\ Becomes(Receive([Now EXCEPT !.inbox[e] = Tail(@)], e, Head(inbox[e])))
  /\ Rest /\ UNCHANGED <<cut, relayFaults>>
LookedUp(found) ==
  LET x == [Now EXCEPT !.app.looking = FALSE]
  IN /\ app.looking
     /\ Becomes(IF found THEN Go(x)
                ELSE IF want = "jump" THEN ChannelFail(Log(x, "refused"))
                ELSE RespondWith(Log(x, "503"), "d", <<"503">>))
     /\ Rest /\ UNCHANGED <<cut, relayFaults>>
RtoTimer(e) ==
  /\ QuietRelay /\ conn[e].due /\ ~Over(Now, e)
  /\ Becomes(Fail(Now, e))
  /\ Rest /\ UNCHANGED <<cut, relayFaults>>
\* a client waits for what comes next, but not in a session that is open
Reading(e) ==
  /\ conn[e].st = "ESTABLISHED"
  /\ (e = "c" /\ stage # "open") \/ (e = "u" /\ want = "get")
ReadTimer(e) ==
  /\ QuietRelay /\ Reading(e)
  /\ Becomes(ResetConn(Now, e))
  /\ Rest /\ UNCHANGED <<cut, relayFaults>>
Leave ==
  /\ stage = "open" /\ conn["c"].st = "ESTABLISHED"
  /\ Becomes(Disconnect(Now, "c"))
  /\ Rest /\ UNCHANGED <<cut, relayFaults>>

Fault == relayFaults < MaxRelayFaults /\ relayFaults' = relayFaults + 1
\* a cable is cut where neither end sees it; what was under way was not acknowledged
Emptied(half) == [e \in Ends |-> IF Half(e) = half THEN <<>> ELSE inbox[e]]
Unacked(half) ==
  [e \in Ends |-> IF Half(e) = half /\ \E i \in DOMAIN inbox[Peer(e)] : inbox[Peer(e)][i].k \notin {"ack", "rst"}
                  THEN [conn[e] EXCEPT !.due = ~Over(Now, e)] ELSE conn[e]]
Cut(half) ==
  /\ Fault /\ half \notin cut /\ cut' = cut \cup {half}
  /\ inbox' = Emptied(half) /\ conn' = Unacked(half)
  /\ Rest /\ UNCHANGED <<app, stage, heard, log>>
\* a station loses its link, and gives up all its connections
AbortAll(x, es) == FoldLeft(LAMBDA y, e : IF St(y, e) = "none" \/ Over(y, e) THEN y ELSE Fail(y, e), x, es)
Unplug(es) ==
  LET halves == {Half(es[i]) : i \in DOMAIN es}
      lost(e) == Half(e) \in halves
      x == [Now EXCEPT !.inbox = [e \in Ends |-> IF lost(e) THEN <<>> ELSE inbox[e]],
                       !.conn = [e \in Ends |-> IF lost(e) THEN Unacked(Half(e))[e] ELSE conn[e]]]
  IN /\ Fault /\ cut' = cut \cup halves
     /\ Becomes(AbortAll(x, es))
     /\ Rest

Init ==
  /\ want \in Wants /\ target \in Targets /\ rule \in Rules
  /\ conn = [e \in Ends |-> NewConn(IF e \in {"c", "d"} THEN "ESTABLISHED" ELSE "none")]
  /\ inbox = [e \in Ends |-> IF e = "d" THEN <<[k |-> "ask", w |-> FALSE, fa |-> FALSE]>> ELSE <<>>]
  /\ cut = {} /\ app = [looking |-> FALSE, pending |-> FALSE, pair |-> FALSE]
  /\ stage = "asked" /\ heard = [e \in Ends |-> <<>>] /\ log = <<>> /\ relayFaults = 0
Next ==
  \/ \E e \in Ends : Deliver(e) \/ RtoTimer(e) \/ ReadTimer(e)
  \/ \E found \in BOOLEAN : LookedUp(found)
  \/ Leave
  \/ \E half \in {"near", "far"} : Cut(half)
  \/ \E es \in {<<"c">>, <<"d", "u">>, <<"t">>} : Unplug(es)
Spec == Init /\ [][Next]_relayVars

-------------------------------------------------------------------------------
\* No request is logged twice (a channel of a jump host: opened, and closed), and halves that are tied are not pending.
TypeOK ==
  /\ ~(app.pending /\ app.pair)
  /\ Len(log) <= 1 \/ (want = "jump" /\ log = <<"open", "closed">>)
  /\ \A e \in Ends : conn[e].due => conn[e].st \notin {"none", "CLOSED", "FAILED"}

Settled ==
  QuietRelay /\ ~app.looking /\ \A e \in Ends : ~conn[e].due /\ ~Reading(e)
Sent(e) == conn[e].st = "ESTABLISHED"
\* Nobody is left hanging: when nothing is due any more, the relay holds no half without the other, and every
\* half is over at both ends or a session is open from end to end; unless a cable was cut, which an idle end
\* cannot see.
NothingLeft ==
  Settled /\ cut = {} =>
    /\ ~app.pending
    /\ app.pair <=> Sent("d")
    /\ \A e \in Ends : conn[e].st \in {"none", "CLOSED", "FAILED"} \/ (stage = "open" /\ \A f \in Ends : Sent(f))

\* What comes out of a tunnel is what went in, in its order, and whole if the client takes it for whole.
Through(e) == SelectSeq(Kinds(heard[e]), LAMBDA k : k \notin {"200", "confirm"})
TunnelIntact ==
  /\ IsPrefix(Kinds(heard["t"]), IF want = "get" THEN <<"request">> ELSE IF want = "jump" THEN <<"login">> ELSE <<"hello", "request">>)
  /\ \A i \in DOMAIN heard["t"] : ~heard["t"][i].w
  /\ want = "connect" => \/ IsPrefix(Through("c"), <<"server-hello">> \o Answers)
                         \/ Through("c") \in {<<"503">>, <<"403">>}
  /\ conn["c"].fin /\ conn["c"].st = "CLOSED" /\ Through("c") # <<>> /\ want # "jump" =>
       Last(Through("c")) \in {"end", "503", "403"}
===============================================================================
