----------------------------- MODULE PrivateCall -----------------------------
(***************************************************************************)
(* One private (radio to radio) call across the federation: a caller at    *)
(* server "A", a called radio at server "B".  Every table is keyed by the  *)
(* call's uuid, so calls do not touch each other.                          *)
(*                                                                         *)
(* At each server two kinds of goroutine work on the call: the read loop   *)
(* of the base station (onCallControlFromClient) and the read loops of the *)
(* federation streams (handleCallStart, handleCallEnd, handleCallReply).   *)
(* They are split where they take or leave Service.callMu (calls) and      *)
(* Hub.callMu (priv).  The servers have one connection or two: connection  *)
(* 1 was dialled by A, connection 2 by B.                                  *)
(***************************************************************************)
EXTENDS Naturals, Sequences

CONSTANT Conn    \* {1} or {1, 2}

\* What the theorem assumes: A and B have the connection A dialled.
CallConstants == 1 \in Conn

Site == {"A", "B"}
Other(n) == IF n = "A" THEN "B" ELSE "A"
Way == Site \X Conn    \* <<n, c>>: from n, on connection c

VARIABLES phone,  \* the radio, as its base station sees it
          out,    \* out[n]: messages of the base station not read yet
          pc,     \* pc[n]: where the base station's read loop stands
          msg,    \* msg[n]: the message it is working on
          found,  \* found[n]: Service.calls[uuid] as that loop read it
          calls,  \* Service.calls[uuid]: none, or who it came from
          priv,   \* is Hub.privateCalls[uuid] bound to the other server?
          net,    \* federation messages under way
          rd      \* rd[s]: where the receiver's read loop for s stands

vars == <<phone, out, pc, msg, found, calls, priv, net, rd>>

\* A ConnectRequest names the answerer as its source ("connect", as the proxy
\* bridge sends it) or keeps the route of the setup it answers ("echoed").
Connects == {"connect", "echoed"}
ClientMsg == {"setup", "accept", "reject", "release", "lost"} \cup Connects
FedMsg == {"start", "end", "accept", "reject", "connect"}

\* A tracked call came from the federation or from the own client; "echo" is an
\* own one that names the radio of this server as the called one.
Origin == {"none", "client", "echo", "peer"}

\* The caller is "calling" and then, if the answer reaches it, "through".
Active == {"calling", "through", "ringing", "accepted", "talking"}
Finished == {"over", "gone"}

\* Also: a base station's loop that holds nothing stands at "idle", and it
\* answers or ends only calls it has found or has just tracked itself.
TypeOK ==
    /\ phone \in [Site -> Active \cup Finished \cup {"idle", "rungBack"}]
    /\ out \in [Site -> Seq(ClientMsg)]
    /\ pc \in [Site -> {"idle", "track", "start", "bind", "reply", "untrack", "end"}]
    /\ msg \in [Site -> ClientMsg \cup {"none"}]
    /\ \A n \in Site : pc[n] = "idle" <=> msg[n] = "none"
    /\ found \in [Site -> Origin]
    /\ \A n \in Site :
          pc[n] \in {"reply", "untrack", "end"} => found[n] # "none" \/ msg[n] \in Connects
    /\ calls \in [Site -> Origin]
    /\ priv \in [Site -> BOOLEAN]
    /\ net \in [Way -> Seq(FedMsg)]
    /\ rd \in [Way -> {"idle", "startTrack", "startBind", "endUntrack", "endUnbind"}]

Init ==
    /\ phone = [n \in Site |-> "idle"]
    /\ out = [n \in Site |-> <<>>]
    /\ pc = [n \in Site |-> "idle"]
    /\ msg = [n \in Site |-> "none"]
    /\ found = [n \in Site |-> "none"]
    /\ calls = [n \in Site |-> "none"]
    /\ priv = [n \in Site |-> FALSE]
    /\ net = [s \in Way |-> <<>>]
    /\ rd = [s \in Way |-> "idle"]

-----------------------------------------------------------------------------
(* The radios and their base stations                                      *)

\* Base station n sends m and its radio goes from one state to another.  The
\* setup may still be in its handler when the answer to it comes.
Signal(n, from, m, to) ==
    /\ phone[n] \in from
    /\ phone' = [phone EXCEPT ![n] = to]
    /\ out' = [out EXCEPT ![n] = Append(@, m)]
    /\ UNCHANGED <<pc, msg, found, calls, priv, net, rd>>

Dial == Signal("A", {"idle"}, "setup", "calling")
Accept(n) == Signal(n, {"ringing"}, "accept", "accepted")
Answer(n) == \E m \in Connects : Signal(n, {"ringing", "accepted"}, m, "talking")
Reject(n) == Signal(n, {"ringing", "accepted"}, "reject", "over")
HangUp(n) == Signal(n, {"calling", "through", "talking"}, "release", "over")
\* The base station's connection breaks.
Lose(n) == Signal(n, Active, "lost", "gone")

-----------------------------------------------------------------------------
(* The base station's read loop: onCallControlFromClient                   *)

Goto(n, l) ==
    /\ pc' = [pc EXCEPT ![n] = l]
    /\ msg' = [msg EXCEPT ![n] = IF l = "idle" THEN "none" ELSE @]

\* The stream a lookup by peer name finds: the outgoing one before the other.
Preferred(n) == <<n, IF n = "B" /\ 2 \in Conn THEN 2 ELSE 1>>

SendControl(s, m) == net' = [net EXCEPT ![s] = Append(@, m)]

\* A message is read and the call looked up.  Setup and connect requests carry
\* their route; anything else about an unknown call is dropped.  OnDisconnect
\* releases only calls this base station started, under the lock of the lookup.
\* The variant has no such test for replies.
AfterLookupAny(m, call) ==
    CASE m = "lost" -> IF call \in {"client", "echo"} THEN "end" ELSE "idle"
      [] m \in {"setup"} \cup Connects -> "track"
      [] m \in {"accept", "reject"} -> "reply"
      [] m = "release" -> IF call = "none" THEN "idle" ELSE "untrack"
AfterLookup(m, call) ==
    CASE m = "lost" -> IF call \in {"client", "echo"} THEN "end" ELSE "idle"
      [] m \in {"setup"} \cup Connects -> "track"
      [] m \in {"accept", "reject"} -> IF call = "none" THEN "idle" ELSE "reply"
      [] m = "release" -> IF call = "none" THEN "idle" ELSE "untrack"

Lookup(n) ==
    LET m == Head(out[n])
        l == AfterLookup(m, calls[n])
    IN  /\ pc[n] = "idle"
        /\ out[n] # <<>>
        /\ out' = [out EXCEPT ![n] = Tail(@)]
        /\ pc' = [pc EXCEPT ![n] = l]
        /\ msg' = [msg EXCEPT ![n] = IF l = "idle" THEN "none" ELSE m]
        /\ found' = [found EXCEPT ![n] = calls[n]]
        /\ calls' = [calls EXCEPT ![n] = IF l = "end" THEN "none" ELSE @]
        /\ UNCHANGED <<phone, priv, net, rd>>

\* The endpoints and the origin of the entry: a connect request of a known call
\* keeps what is there, that of an unknown one goes by its own payload.
Entered(n) ==
    IF msg[n] \in Connects /\ found[n] # "none" THEN found[n]
    ELSE IF msg[n] = "echoed" THEN "echo" ELSE "client"

\* FindPeerForISSI(trackDest): the other radio is at the other server.
DestIsRemote(n) == Entered(n) = "client"

\* A connect request is answered across the federation next.
AfterStart(n) == IF msg[n] \in Connects THEN "reply" ELSE "idle"

\* s.calls[id] is written, overwriting whatever it is by now.
Track(n) ==
    /\ pc[n] = "track"
    /\ calls' = [calls EXCEPT ![n] = Entered(n)]
    /\ Goto(n, IF DestIsRemote(n) THEN "start" ELSE AfterStart(n))
    /\ UNCHANGED <<phone, out, found, priv, net, rd>>

\* RouteCallStartToPeerForISSI: the start is sent on whichever of the two
\* streams FindPeerForISSI met first, then the binding is recorded.
SendStart(n) ==
    /\ pc[n] = "start"
    /\ \E c \in Conn : SendControl(<<n, c>>, "start")
    /\ Goto(n, "bind")
    /\ UNCHANGED <<phone, out, found, calls, priv, rd>>

\* Variant: the binding is not recorded.
BindNot(n) ==
    /\ pc[n] = "bind"
    /\ Goto(n, AfterStart(n))
    /\ UNCHANGED <<phone, out, found, calls, priv, net, rd>>

Bind(n) ==
    /\ pc[n] = "bind"
    /\ priv' = [priv EXCEPT ![n] = TRUE]
    /\ Goto(n, AfterStart(n))
    /\ UNCHANGED <<phone, out, found, calls, net, rd>>

\* A RouteCallReplyForCall that answers group calls only.
ReplyDropped(n) ==
    /\ pc[n] = "reply"
    /\ Goto(n, IF msg[n] = "reject" THEN "untrack" ELSE "idle")
    /\ UNCHANGED <<phone, out, found, calls, priv, net, rd>>

\* What the federation carries of a reply: its kind, without the route.
Carried(m) == IF m = "echoed" THEN "connect" ELSE m

\* NotifyCallReply: across the federation if the call is bound; else the local
\* routing, which finds nobody, the other radio being elsewhere.
Reply(n) ==
    /\ pc[n] = "reply"
    /\ IF priv[n] THEN SendControl(Preferred(n), Carried(msg[n])) ELSE UNCHANGED net
    /\ Goto(n, IF msg[n] = "reject" THEN "untrack" ELSE "idle")
    /\ UNCHANGED <<phone, out, found, calls, priv, rd>>

\* The call is over here (reject, release) ...
Untrack(n) ==
    /\ pc[n] = "untrack"
    /\ calls' = [calls EXCEPT ![n] = "none"]
    /\ Goto(n, "end")
    /\ UNCHANGED <<phone, out, found, priv, net, rd>>

\* A RouteCallEndForCall that forgets the binding but tells nobody.
EndSilently(n) ==
    /\ pc[n] = "end"
    /\ priv' = [priv EXCEPT ![n] = FALSE]
    /\ Goto(n, "idle")
    /\ UNCHANGED <<phone, out, found, calls, net, rd>>

\* ... and RouteCallEndForCall tells the bound peer, or else broadcasts.
End(n) ==
    /\ pc[n] = "end"
    /\ priv' = [priv EXCEPT ![n] = FALSE]
    /\ IF priv[n] THEN SendControl(Preferred(n), "end")
       ELSE \E c \in Conn : SendControl(<<n, c>>, "end")
    /\ Goto(n, "idle")
    /\ UNCHANGED <<phone, out, found, calls, rd>>

-----------------------------------------------------------------------------
(* The read loop of stream s, at server Other(s[1])                        *)

Receive(s, m) ==
    /\ rd[s] = "idle"
    /\ net[s] # <<>>
    /\ Head(net[s]) = m
    /\ net' = [net EXCEPT ![s] = Tail(@)]

Step(s, from, to) == rd[s] = from /\ rd' = [rd EXCEPT ![s] = to]

\* What a setup does to the radio of server n.  The caller is rung back by an
\* answer that came too late and looks like a call of its own; it is not
\* followed further.
Rung(n, state) ==
    IF state \notin {"idle", "over"} THEN state
    ELSE IF n = "A" THEN "rungBack" ELSE "ringing"

\* handleCallStart: OnPeerPrivateCallStart rings the radio and then tracks the
\* call; the binding comes last.
ReceiveStart(s) ==
    LET n == Other(s[1])
    IN  /\ Receive(s, "start")
        /\ Step(s, "idle", "startTrack")
        /\ phone' = [phone EXCEPT ![n] = Rung(n, @)]
        /\ UNCHANGED <<out, pc, msg, found, calls, priv>>

StartTrack(s) ==
    /\ Step(s, "startTrack", "startBind")
    /\ calls' = [calls EXCEPT ![Other(s[1])] = "peer"]
    /\ UNCHANGED <<phone, out, pc, msg, found, priv, net>>

StartBind(s) ==
    /\ Step(s, "startBind", "idle")
    /\ priv' = [priv EXCEPT ![Other(s[1])] = TRUE]
    /\ UNCHANGED <<phone, out, pc, msg, found, calls, net>>

\* handleCallEnd: OnPeerCallEnd releases the radio of a known call and stops
\* tracking it, then the binding goes.
ReceiveEnd(s) ==
    LET n == Other(s[1])
    IN  /\ Receive(s, "end")
        /\ IF calls[n] = "none"
           THEN Step(s, "idle", "endUnbind") /\ UNCHANGED phone
           ELSE /\ Step(s, "idle", "endUntrack")
                /\ phone' = [phone EXCEPT ![n] = IF @ \in Active THEN "over" ELSE @]
        /\ UNCHANGED <<out, pc, msg, found, calls, priv>>

EndUntrack(s) ==
    /\ Step(s, "endUntrack", "endUnbind")
    /\ calls' = [calls EXCEPT ![Other(s[1])] = "none"]
    /\ UNCHANGED <<phone, out, pc, msg, found, priv, net>>

EndUnbind(s) ==
    /\ Step(s, "endUnbind", "idle")
    /\ priv' = [priv EXCEPT ![Other(s[1])] = FALSE]
    /\ UNCHANGED <<phone, out, pc, msg, found, calls, net>>

\* handleCallReply: OnPeerCallReply passes it on for a call it knows.
ReceiveReply(s, m) ==
    LET n == Other(s[1])
    IN  /\ Receive(s, m)
        /\ phone' = [phone EXCEPT ![n] =
               IF calls[n] = "none" \/ @ # "calling" \/ m = "accept" THEN @
               ELSE IF m = "connect" THEN "through" ELSE "over"]
        /\ UNCHANGED <<out, pc, msg, found, calls, priv, rd>>

-----------------------------------------------------------------------------
ClientLoop(n) ==
    \/ Lookup(n) \/ Track(n) \/ SendStart(n) \/ Bind(n) \/ Reply(n) \/ Untrack(n) \/ End(n)

PeerLoop(s) ==
    \/ ReceiveStart(s) \/ StartTrack(s) \/ StartBind(s)
    \/ ReceiveEnd(s) \/ EndUntrack(s) \/ EndUnbind(s)
    \/ \E m \in {"accept", "reject", "connect"} : ReceiveReply(s, m)

Next ==
    \/ Dial
    \/ \E n \in Site : Accept(n)
    \/ \E n \in Site : Answer(n)
    \/ \E n \in Site : Reject(n)
    \/ \E n \in Site : HangUp(n)
    \/ \E n \in Site : Lose(n)
    \/ \E n \in Site : ClientLoop(n)
    \/ \E s \in Way : PeerLoop(s)

Spec == Init /\ [][Next]_vars

\* The servers' goroutines run; nobody has to pick up or hang up.
Fairness ==
    /\ \A n \in Site : WF_vars(ClientLoop(n))
    /\ \A s \in Way : WF_vars(PeerLoop(s))

FairSpec == Spec /\ Fairness

-----------------------------------------------------------------------------
(* Properties                                                              *)

\* When the caller's side is over, by a hang-up or an answer of the other side,
\* the called radio does not go on ringing or talking (RouteCallEndForCall and
\* handleCallEnd against a CallStart that is still under way).  When its base
\* station is lost OnDisconnect does the same, unless a start from B has made
\* the entry one of the federation.
HangUpReaches ==
    /\ <>[](phone["A"] = "over") => <>[](phone["B"] \notin Active)
    /\ [](calls["A"] # "peer") /\ <>[](phone["A"] = "gone") => <>[](phone["B"] \notin Active)

Waiting == phone["A"] \in {"calling", "through"}

\* A reject or a hang-up of the called radio that finds the call at B ends it at
\* the caller, however starts, ends and the caller's own release cross.
EndCarried == Waiting /\ pc["B"] \in {"untrack", "end"} ~> ~Waiting

\* An answer that finds the call bound at B is an answer at the caller, whichever
\* route the request names.  One that is quicker than the setup that rang the radio
\* finds it untracked or unbound and is not sent on, against what OnPeerCallReply is
\* for, "so the originating brew client ... sees the same state transition it would
\* for a non-federated call".
AnswerCarried ==
    pc["B"] = "reply" /\ msg["B"] \in Connects /\ priv["B"] ~> phone["A"] # "calling"

Settled ==
    /\ \A n \in Site : pc[n] = "idle" /\ out[n] = <<>>
    /\ \A s \in Way : rd[s] = "idle" /\ net[s] = <<>>

\* While the two talk, both servers have the call tracked and bound, so voice
\* and the end of the call go to the one peer (RouteVoiceFrameForCall): also
\* when the answer overtook the binding and rang the caller's server in turn.
TalkingBound ==
    Settled /\ phone["A"] = "through" /\ phone["B"] = "talking" =>
        \A n \in Site : priv[n] /\ calls[n] # "none"
=============================================================================
