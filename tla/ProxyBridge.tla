----------------------------- MODULE ProxyBridge -----------------------------
(***************************************************************************)
(* The proxy bridge: a private call to the bridge's ISSI is accepted and a *)
(* second call is placed to the target ISSI; the two legs are tied         *)
(* together in ProxyBridge.sessions.  The bridge is a Brew client          *)
(* (BrewModulePlane): what it sends goes through a queue, and what it is   *)
(* sent is handled by one read loop.  The watchdog and Stop are goroutines *)
(* of their own.  Handlers work on sessions under the lock and send after  *)
(* they have given it up: todo[p] is what goroutine p has still to send.   *)
(***************************************************************************)
EXTENDS Naturals, FiniteSets, Sequences

CONSTANTS Call,           \* bridged calls; <<k, "in">> and <<k, "out">> are their ids
          MaxConcurrent,  \* cfg.Proxy.MaxConcurrent
          MaxFlaps        \* bound: losses of the bridge's connection

ASSUME ProxyConstants ==
    IsFiniteSet(Call) /\ MaxConcurrent \in Nat \ {0} /\ MaxFlaps \in Nat

Leg == Call \X {"in", "out"}
Word == {"setup", "accept", "connect", "confirm", "reject", "release"}
Msg == Leg \X Word
Proc == {"loop", "watchdog", "stop"}

VARIABLES caller,    \* the calling radio of each call
          target,    \* the target radio of each call
          sessions,  \* the keys of ProxyBridge.sessions
          state,     \* proxySession.state
          todo,      \* todo[p]: messages goroutine p has still to enqueue
          send,      \* BrewModulePlane.send
          recv,      \* messages on their way to the bridge's read loop
          up,        \* is the bridge connected to its server?
          flaps,     \* connections lost so far
          life       \* running, cancelled (context done), stopped (Stop ran)

vars == <<caller, target, sessions, state, todo, send, recv, up, flaps, life>>
bridge == <<sessions, state, todo, send, flaps, life, up>>

CallerActive == {"calling", "ringing", "talking"}
TargetActive == {"ringing", "answered", "talking"}

\* Also: a call is indexed by both of its ids or by none, and one that is
\* indexed has been dialled.
TypeOK ==
    /\ caller \in [Call -> CallerActive \cup {"idle", "over"}]
    /\ target \in [Call -> TargetActive \cup {"idle", "refused", "over"}]
    /\ sessions \subseteq Leg
    /\ \A k \in Call : <<k, "in">> \in sessions <=> <<k, "out">> \in sessions
    /\ state \in [Call -> {"none", "dialing", "connected"}]
    /\ \A k \in Call : <<k, "in">> \in sessions => state[k] # "none"
    /\ todo \in [Proc -> Seq(Msg)]
    /\ send \in Seq(Msg)
    /\ recv \in Seq(Msg)
    /\ up \in BOOLEAN
    /\ flaps \in 0..MaxFlaps
    /\ life \in {"running", "cancelled", "stopped"}

Init ==
    /\ caller = [k \in Call |-> "idle"]
    /\ target = [k \in Call |-> "idle"]
    /\ sessions = {}
    /\ state = [k \in Call |-> "none"]
    /\ todo = [p \in Proc |-> <<>>]
    /\ send = <<>>
    /\ recv = <<>>
    /\ up = TRUE
    /\ flaps = 0
    /\ life = "running"

-----------------------------------------------------------------------------
(* The radios and their server                                             *)

\* The server passes a message on to the bridge if the bridge is there.
ToBridge(k, side, w) ==
    /\ recv' = IF up THEN Append(recv, <<<<k, side>>, w>>) ELSE recv
    /\ UNCHANGED bridge

CallerSays(k, from, w, to) ==
    /\ caller[k] \in from
    /\ caller' = [caller EXCEPT ![k] = to]
    /\ ToBridge(k, "in", w)
    /\ UNCHANGED target

TargetSays(k, from, w, to) ==
    /\ target[k] \in from
    /\ target' = [target EXCEPT ![k] = to]
    /\ ToBridge(k, "out", w)
    /\ UNCHANGED caller

Dial(k) == CallerSays(k, {"idle"}, "setup", "calling")
CallerHangsUp(k) == CallerSays(k, CallerActive, "release", "over")
Answer(k) == TargetSays(k, {"ringing"}, "connect", "answered")
Refuse(k) == TargetSays(k, {"ringing"}, "reject", "refused")
TargetHangsUp(k) == TargetSays(k, {"answered", "talking"}, "release", "over")

\* The first message of the queue reaches its radio.  A target's base station
\* acknowledges a setup at once.
Deliver ==
    /\ up
    /\ send # <<>>
    /\ LET k == Head(send)[1][1]
           side == Head(send)[1][2]
           w == Head(send)[2]
       IN  /\ caller' = [caller EXCEPT ![k] =
                  IF side = "out" \/ @ \notin CallerActive THEN @
                  ELSE IF w = "accept" THEN IF @ = "calling" THEN "ringing" ELSE @
                  ELSE IF w = "connect" THEN "talking" ELSE "over"]
           /\ target' = [target EXCEPT ![k] =
                  IF side = "in" THEN @
                  ELSE IF w = "setup" THEN IF @ = "idle" THEN "ringing" ELSE @
                  ELSE IF w = "confirm" THEN IF @ = "answered" THEN "talking" ELSE @
                  ELSE IF @ = "ringing" THEN "refused"
                  ELSE IF @ \in TargetActive THEN "over" ELSE @]
           /\ recv' = IF side = "out" /\ w = "setup"
                      THEN Append(recv, <<<<k, "out">>, "accept">>) ELSE recv
    /\ send' = Tail(send)
    /\ UNCHANGED <<sessions, state, todo, up, flaps, life>>

-----------------------------------------------------------------------------
(* The read loop: OnBrewCallControl                                        *)

\* uniqueSessionCountLocked: every session is indexed twice.
SessionCount == Cardinality({k \in Call : \E side \in {"in", "out"} : <<k, side>> \in sessions})

OtherLeg(l) == <<l[1], IF l[2] = "in" THEN "out" ELSE "in">>

\* The loop takes a message w for a leg l.
Take(l, w) ==
    /\ up /\ todo["loop"] = <<>>
    /\ recv # <<>> /\ Head(recv) = <<l, w>>
    /\ recv' = Tail(recv)
    /\ UNCHANGED <<caller, target, send, up, flaps, life>>

Say(p, msgs) == todo' = [todo EXCEPT ![p] = msgs]
Ignore == UNCHANGED <<sessions, state, todo>>

\* One session too many is accepted.
AtCapacityLate == SessionCount > MaxConcurrent
AtCapacity == SessionCount >= MaxConcurrent

HandleInboundSetup(k) ==
    LET l == <<k, "in">>
    IN  /\ Take(l, "setup")
        /\ \/ /\ l \in sessions
              /\ Ignore
           \/ /\ l \notin sessions /\ AtCapacity
              /\ Say("loop", << <<l, "reject">> >>)
              /\ UNCHANGED <<sessions, state>>
           \/ /\ l \notin sessions /\ ~AtCapacity
              /\ sessions' = sessions \cup {l, OtherLeg(l)}
              /\ state' = [state EXCEPT ![k] = "dialing"]
              /\ Say("loop", << <<l, "accept">>, <<OtherLeg(l), "setup">> >>)

\* The acknowledgement of the outbound setup: the radio rings, nothing changes.
\* (An earlier version of the code took it for the answer.)
HandleOutboundAcceptAnswers(k) ==
    /\ Take(<<k, "out">>, "accept")
    /\ IF <<k, "out">> \in sessions
       THEN Say("loop", << <<<<k, "in">>, "connect">> >>) ELSE UNCHANGED todo
    /\ UNCHANGED <<sessions, state>>

HandleOutboundAccept(k) == Take(<<k, "out">>, "accept") /\ Ignore

\* The caller is told first; the variant tells the target first.
AnswerWordsSwapped(k) == << <<<<k, "out">>, "confirm">>, <<<<k, "in">>, "connect">> >>
AnswerWords(k) == << <<<<k, "in">>, "connect">>, <<<<k, "out">>, "confirm">> >>

HandleOutboundConnect(k) ==
    LET l == <<k, "out">>
    IN  /\ Take(l, "connect")
        /\ IF l \in sessions
           THEN /\ state' = [state EXCEPT ![k] = "connected"]
                /\ Say("loop", AnswerWords(k))
                /\ UNCHANGED sessions
           ELSE Ignore

\* Variants: the failed leg itself is released; only its own key is deleted.
HandleLegFailureSame(l, w) ==
    /\ Take(l, w)
    /\ IF l \in sessions
       THEN /\ sessions' = sessions \ {l, OtherLeg(l)}
            /\ Say("loop", << <<l, "release">> >>)
            /\ UNCHANGED state
       ELSE Ignore
HandleLegFailureOneKey(l, w) ==
    /\ Take(l, w)
    /\ IF l \in sessions
       THEN /\ sessions' = sessions \ {l}
            /\ Say("loop", << <<OtherLeg(l), "release">> >>)
            /\ UNCHANGED state
       ELSE Ignore

\* A setup was rejected or a leg released: the other leg is released.
HandleLegFailure(l, w) ==
    /\ Take(l, w)
    /\ IF l \in sessions
       THEN /\ sessions' = sessions \ {l, OtherLeg(l)}
            /\ Say("loop", << <<OtherLeg(l), "release">> >>)
            /\ UNCHANGED state
       ELSE Ignore

-----------------------------------------------------------------------------
(* The watchdog, Stop, and the queue                                       *)

\* The loop has sent what opened the call: its two sends take less than the
\* dial time-out of ten seconds, its answer less than the idle time-out.
Sent(k) == \A i \in 1..Len(todo["loop"]) : todo["loop"][i][1][1] # k

\* Both legs; the variant forgets the outbound one.
ReleaseInbound(k) == << <<<<k, "in">>, "release">> >>
Release(k) == << <<<<k, "in">>, "release">>, <<<<k, "out">>, "release">> >>

\* One session of a sweep.  A sweep that finds several due takes all of them
\* before it sends: the next may be taken while todo["watchdog"] is not empty.
SweepOne(k) ==
    /\ life # "stopped"
    /\ <<k, "in">> \in sessions
    /\ Sent(k)
    /\ sessions' = sessions \ {<<k, "in">>, <<k, "out">>}
    /\ Say("watchdog", todo["watchdog"] \o Release(k))
    /\ UNCHANGED <<caller, target, state, send, recv, up, flaps, life>>

\* A sweep whose case for dialling sessions is missing.
DialTimeoutNever(k) == state[k] = "none" /\ SweepOne(k)
DialTimeout(k) == state[k] = "dialing" /\ SweepOne(k)

\* No voice frame for the idle time: OnBrewFrame sets lastFrameAt.
IdleTimeout(k) == state[k] = "connected" /\ SweepOne(k)

\* The process is asked to stop; from here on the plane may leave any time.
Cancel ==
    /\ life = "running"
    /\ life' = "cancelled"
    /\ UNCHANGED <<caller, target, sessions, state, todo, send, recv, up, flaps>>

\* Stop takes the sessions in some order and releases both legs of each.
Stop ==
    /\ life \in {"cancelled", "stopped"}
    /\ life' = "stopped"
    /\ \/ /\ life = "cancelled" /\ sessions = {}
          /\ UNCHANGED <<sessions, todo>>
       \/ \E k \in Call :
              /\ <<k, "in">> \in sessions
              /\ sessions' = sessions \ {<<k, "in">>, <<k, "out">>}
              /\ Say("stop", todo["stop"] \o Release(k))
    /\ UNCHANGED <<caller, target, state, send, recv, up, flaps>>

\* enqueue; the queue holds 1024 messages.
Enqueue(p) ==
    /\ todo[p] # <<>>
    /\ send' = Append(send, Head(todo[p]))
    /\ todo' = [todo EXCEPT ![p] = Tail(@)]
    /\ UNCHANGED <<caller, target, sessions, state, recv, up, flaps, life>>

\* The server ends the calls that a client it lost has started: outbound legs.
OnDisconnect ==
    target' = [k \in Call |-> IF target[k] = "ringing" THEN "refused"
                              ELSE IF target[k] \in TargetActive THEN "over" ELSE target[k]]

\* The connection is lost, with the message being written and those under way;
\* runSession returns and Run connects again, unless the context is done.
Flap ==
    /\ up
    /\ \/ life = "running" /\ flaps < MaxFlaps /\ flaps' = flaps + 1
       \/ life # "running" /\ UNCHANGED flaps
    /\ up' = FALSE
    /\ recv' = <<>>
    /\ send' \in {send} \cup (IF send = <<>> THEN {} ELSE {Tail(send)})
    /\ OnDisconnect
    /\ UNCHANGED <<caller, sessions, state, todo, life>>

Reconnect ==
    /\ ~up /\ life = "running"
    /\ up' = TRUE
    /\ UNCHANGED <<caller, target, sessions, state, todo, send, recv, flaps, life>>

-----------------------------------------------------------------------------
Handle ==
    \E k \in Call :
        \/ HandleInboundSetup(k)
        \/ HandleOutboundAccept(k)
        \/ HandleOutboundConnect(k)
        \/ \E side \in {"in", "out"}, w \in {"reject", "release"} :
               HandleLegFailure(<<k, side>>, w)

Next ==
    \/ \E k \in Call : Dial(k)
    \/ \E k \in Call : CallerHangsUp(k)
    \/ \E k \in Call : Answer(k)
    \/ \E k \in Call : Refuse(k)
    \/ \E k \in Call : TargetHangsUp(k)
    \/ Deliver
    \/ Handle
    \/ \E k \in Call : DialTimeout(k)
    \/ \E k \in Call : IdleTimeout(k)
    \/ \E p \in Proc : Enqueue(p)
    \/ Cancel
    \/ Stop
    \/ Flap
    \/ Reconnect

Spec == Init /\ [][Next]_vars

\* Goroutines run, the network delivers, the plane reconnects, and a call that
\* is not answered runs into the dial time-out.  Idle time-outs are not
\* assumed: two radios may talk for ever.
Fairness ==
    /\ WF_vars(Deliver)
    /\ WF_vars(Handle)
    /\ WF_vars(Reconnect)
    /\ \A p \in Proc : WF_vars(Enqueue(p))
    /\ \A k \in Call : WF_vars(life = "running" /\ DialTimeout(k))

FairSpec == Spec /\ Fairness

-----------------------------------------------------------------------------
(* Properties                                                              *)

\* handleInboundSetup keeps at most MaxConcurrent calls bridged, each under two
\* keys of the map.
CapHolds == Cardinality(sessions) <= 2 * MaxConcurrent

\* The table is well formed and within its cap.
TableSound == TypeOK /\ CapHolds

\* "State=5 SetupAccept ... is NOT the user answering yet": the caller is never
\* told that the call is connected before the target has picked up.
NoEarlyConnect ==
    \A k \in Call : caller[k] = "talking" => target[k] \in {"answered", "talking", "over"}

\* A call is open while it is in the table; it has been dialled before.
Pair == INSTANCE BridgedPair
            WITH bridge <- [k \in Call |->
                     IF <<k, "in">> \in sessions THEN "open"
                     ELSE IF state[k] = "none" THEN "none" ELSE "closed"]

\* The bridge keeps its promise to the two radios: a call is taken once, nobody
\* rings for a call that was not taken, and neither side is through before the
\* other, whatever is sent, swept, lost or sent again by a new connection
\* (handleOutboundConnect sends the caller's word first).
RefinesPair == Pair!PairSpec

\* Nothing was lost with a connection.
Unbroken == flaps = 0 /\ life = "running"

Pending(m) ==
    \/ \E p \in Proc : \E i \in 1..Len(todo[p]) : todo[p][i] = m
    \/ \E i \in 1..Len(send) : send[i] = m

\* No orphan legs: a leg the bridge has opened, and no longer has in its table,
\* has its release on the way (handleLegFailure and sweep against hang-ups,
\* refusals and time-outs in any order).
NoOrphan ==
    Unbroken => \A k \in Call : <<k, "in">> \notin sessions =>
        /\ target[k] \in TargetActive => Pending(<<<<k, "out">>, "release">>)
        /\ caller[k] \in {"ringing", "talking"} => Pending(<<<<k, "in">>, "release">>)

\* When one leg ends the other does, unless the bridge lost its connection or
\* was shut down meanwhile.
BothLegsEnd ==
    \A k \in Call :
        /\ (target[k] \in {"refused", "over"}) ~> (caller[k] \notin CallerActive \/ ~Unbroken)
        /\ (caller[k] = "over") ~> (target[k] \notin TargetActive \/ ~Unbroken)

\* A call does not ring for ever: it is answered or its legs are let go.
DialEnds ==
    \A k \in Call :
        (<<k, "in">> \in sessions /\ state[k] = "dialing") ~>
            (<<k, "in">> \notin sessions \/ state[k] # "dialing" \/ life # "running")
=============================================================================
