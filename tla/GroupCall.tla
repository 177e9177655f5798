----------------------------- MODULE GroupCall -----------------------------
(***************************************************************************)
(* One group call across the federation: server Talker has the speaker,    *)
(* every server has radios that listen.  The start and the end of the call *)
(* are flooded and relayed (MeshRouter), each under an id of its own;      *)
(* voice goes to the talker's direct peers and no further.                 *)
(*                                                                         *)
(* At the talker's server one goroutine works on the call: the read loop   *)
(* of the base station, or the program that injects the call.  At the      *)
(* others it is the read loops of the federation streams, one per link,    *)
(* split where handleCallStart and handleCallEnd take or leave             *)
(* Service.callMu (calls) and Hub.callMu (activeCalls).                    *)
(***************************************************************************)
EXTENDS Naturals, Sequences, Functions

CONSTANTS Server, Talker,
          Link,       \* pairs <<from, to>>: one connection between two servers
          MaxSpurts   \* how often the speaker presses the button

VARIABLES source,      \* is it a base station's call or an injected one?
          local,       \* has the talker's server listeners of its own?
          at,          \* where the talker's goroutine stands
          spurts,      \* transmissions so far
          spoken,      \* has the transmission had its voice frame?
          calls,       \* calls[n]: is the call in Service.calls?
          radios,      \* radios[n]: what n's radios were told last
          activeCalls, \* activeCalls[n]: {} or {the peers told of the call}
          net,         \* net[l]: messages under way
          seen,        \* seen[n]: ids n has processed
          rd,          \* rd[l]: where the receiver's read loop stands
          cur,         \* cur[l]: the message it is working on
          stray,       \* servers whose radios got voice outside a call
          crashed      \* servers whose process has panicked

\* The servers are joined without a loop: up[n] is the one through which the talker's
\* server is reached, depth[n] how far it is.
Tree(up, depth) ==
    /\ Talker \in Server /\ MaxSpurts \in Nat
    /\ up \in [Server \ {Talker} -> Server]
    /\ depth \in [Server -> Nat]
    /\ \A n \in Server \ {Talker} : <<up[n], n>> \in Link /\ depth[n] = depth[up[n]] + 1
    /\ \A l \in Link :
          \/ l[2] \in Server \ {Talker} /\ l = <<up[l[2]], l[2]>>
          \/ l[1] \in Server \ {Talker} /\ l = <<l[1], up[l[1]]>>

speaker == <<source, local, at, spurts, spoken>>
vars == <<speaker, calls, radios, activeCalls, net, seen, rd, cur, stray, crashed>>

Stage == {"idle", "notify", "tell", "talking", "notifyEnd", "lastTell"}
Nothing == [kind |-> "none"]
Message(kind, id, path) == [kind |-> kind, id |-> id, path |-> path]

TypeOK ==
    /\ source \in {"station", "injected"} /\ local \in BOOLEAN
    /\ at \in Stage /\ spurts \in 0..MaxSpurts /\ spoken \in BOOLEAN
    /\ calls \in [Server -> BOOLEAN]
    /\ radios \in [Server -> {"quiet", "hearing"}]
    /\ activeCalls \in [Server -> SUBSET SUBSET Server]
    /\ \A l \in Link : (rd[l] = "recv") <=> (cur[l] = Nothing)
    /\ stray \subseteq Server /\ crashed \subseteq Server

Init ==
    /\ source \in {"station", "injected"}
    /\ local \in BOOLEAN
    /\ at = "idle" /\ spurts = 0 /\ spoken = FALSE
    /\ calls = [n \in Server |-> FALSE]
    /\ radios = [n \in Server |-> "quiet"]
    /\ activeCalls = [n \in Server |-> {}]
    /\ net = [l \in Link |-> <<>>]
    /\ seen = [n \in Server |-> {}]
    /\ rd = [l \in Link |-> "recv"]
    /\ cur = [l \in Link |-> Nothing]
    /\ stray = {} /\ crashed = {}

PeersOf(n) == {l[2] : l \in {k \in Link : k[1] = n}}

\* A message to every peer of n in T.
Send(n, T, m) == [l \in Link |-> IF l[1] = n /\ l[2] \in T THEN Append(net[l], m) ELSE net[l]]

-----------------------------------------------------------------------------
(* The talker's server                                                     *)

Origin(from, to) == at = from /\ at' = to
Listeners == local \/ source = "station"

\* GroupTX of a base station, or StartInjectedGroupTX: the call is tracked.
Begin ==
    /\ Origin("idle", "notify")
    /\ spurts < MaxSpurts
    /\ spurts' = spurts + 1
    /\ spoken' = FALSE
    /\ calls' = [calls EXCEPT ![Talker] = TRUE]
    /\ UNCHANGED <<source, local, radios, activeCalls, net, seen, rd, cur, stray, crashed>>

\* BroadcastCallStart: all peers, whether they have listeners or not.
BroadcastCallStart ==
    /\ Origin("notify", "tell")
    /\ net' = Send(Talker, PeersOf(Talker), Message("start", spurts, {Talker}))
    /\ seen' = [seen EXCEPT ![Talker] = @ \cup {<<"start", spurts>>}]
    /\ activeCalls' = [activeCalls EXCEPT ![Talker] = {(UNION @) \cup PeersOf(Talker)}]
    /\ UNCHANGED <<source, local, spurts, spoken, calls, radios, rd, cur, stray, crashed>>

\* The server's own radios are told.  An injected call that none of them hears
\* is taken back.
TellStart ==
    /\ Origin("tell", IF Listeners THEN "talking" ELSE "notifyEnd")
    /\ radios' = [radios EXCEPT ![Talker] = IF local THEN "hearing" ELSE @]
    /\ calls' = [calls EXCEPT ![Talker] = Listeners]
    /\ UNCHANGED <<source, local, spurts, spoken, activeCalls, net, seen, rd, cur, stray, crashed>>

\* A voice frame of a base station: NotifyVoiceFrame, to the direct peers.  That
\* of an injected call stays here (InjectedVoiceFrame).
Speak ==
    /\ at = "talking" /\ ~spoken
    /\ spoken' = TRUE
    /\ net' = IF source = "station" THEN Send(Talker, PeersOf(Talker), Message("voice", spurts, {Talker}))
              ELSE net
    /\ UNCHANGED <<source, local, at, spurts, calls, radios, activeCalls, seen, rd, cur, stray, crashed>>

\* IdleInjectedCall: the radios hear of a pause, the call stays.
IdleInjected ==
    /\ at = "talking" /\ source = "injected"
    /\ radios[Talker] = "hearing"
    /\ radios' = [radios EXCEPT ![Talker] = "quiet"]
    /\ UNCHANGED <<speaker, calls, activeCalls, net, seen, rd, cur, stray, crashed>>

\* The end: a base station's radios are told before the federation, those of
\* an injected call after it (ReleaseInjectedCall).
Finish ==
    /\ Origin("talking", "notifyEnd")
    /\ calls' = [calls EXCEPT ![Talker] = FALSE]
    /\ radios' = [radios EXCEPT ![Talker] = IF source = "station" THEN "quiet" ELSE @]
    /\ UNCHANGED <<source, local, spurts, spoken, activeCalls, net, seen, rd, cur, stray, crashed>>

\* Variant: only peers that were told of the start by this server, which are
\* forgotten first.
BroadcastCallEndKnown ==
    /\ Origin("notifyEnd", "lastTell")
    /\ activeCalls' = [activeCalls EXCEPT ![Talker] = {}]
    /\ net' = Send(Talker, UNION activeCalls'[Talker], Message("end", spurts, {Talker}))
    /\ seen' = [seen EXCEPT ![Talker] = @ \cup {<<"end", spurts>>}]
    /\ UNCHANGED <<source, local, spurts, spoken, calls, radios, rd, cur, stray, crashed>>

\* RouteCallEndForCall finds no private call; BroadcastCallEnd.
BroadcastCallEnd ==
    /\ Origin("notifyEnd", "lastTell")
    /\ activeCalls' = [activeCalls EXCEPT ![Talker] = {}]
    /\ net' = Send(Talker, PeersOf(Talker), Message("end", spurts, {Talker}))
    /\ seen' = [seen EXCEPT ![Talker] = @ \cup {<<"end", spurts>>}]
    /\ UNCHANGED <<source, local, spurts, spoken, calls, radios, rd, cur, stray, crashed>>

TellEnd ==
    /\ Origin("lastTell", "idle")
    /\ radios' = [radios EXCEPT ![Talker] = "quiet"]
    /\ UNCHANGED <<source, local, spurts, spoken, calls, activeCalls, net, seen, rd, cur, stray, crashed>>

-----------------------------------------------------------------------------
(* The other servers: the read loop of link l, at server l[2]              *)

Step(l, from, to) ==
    /\ rd[l] = from
    /\ l[2] \notin crashed
    /\ rd' = [rd EXCEPT ![l] = to]
    /\ cur' = [cur EXCEPT ![l] = IF to = "recv" THEN Nothing ELSE @]

Arrived(l) ==
    IF rd[l] = "recv" /\ net[l] # <<>> /\ l[2] \notin crashed THEN {Head(net[l])} ELSE {}

\* m is taken from the stream.
Take(l, m, to) ==
    /\ net' = [net EXCEPT ![l] = Tail(@)]
    /\ rd' = [rd EXCEPT ![l] = to]
    /\ cur' = [cur EXCEPT ![l] = IF to = "recv" THEN Nothing ELSE m]

\* A copy of a message that was processed is dropped by the mesh router.
New(n, m) == <<m.kind, m.id>> \notin seen[n]

\* OnPeerCallStart: the radios are told, then the call is tracked ...
HandleStart(l) ==
    \E m \in Arrived(l) :
        /\ m.kind = "start"
        /\ Take(l, m, IF New(l[2], m) THEN "track" ELSE "recv")
        /\ seen' = [seen EXCEPT ![l[2]] = @ \cup {<<"start", m.id>>}]
        /\ radios' = [radios EXCEPT ![l[2]] = IF New(l[2], m) THEN "hearing" ELSE @]
        /\ UNCHANGED <<speaker, calls, activeCalls, stray, crashed>>

Track(l) ==
    /\ Step(l, "track", "note")
    /\ calls' = [calls EXCEPT ![l[2]] = TRUE]
    /\ UNCHANGED <<speaker, radios, activeCalls, net, seen, stray, crashed>>

\* ... handleCallStart makes sure there is an entry, leaves the lock ...
Note(l) ==
    /\ Step(l, "note", "relay")
    /\ activeCalls' = [activeCalls EXCEPT ![l[2]] = IF @ = {} THEN {{}} ELSE @]
    /\ UNCHANGED <<speaker, calls, radios, net, seen, stray, crashed>>

RelayTo(l) == {p \in PeersOf(l[2]) : p # l[1] /\ p \notin cur[l].path}
Relayed(l) == [cur[l] EXCEPT !.path = @ \cup {l[2]}]

\* ... and takes it again to write into the entry.  If it is gone by then, this is
\* a write into a nil map, after the first copy was sent.
Relay(l) ==
    LET n == l[2]
        panic == RelayTo(l) # {} /\ activeCalls[n] = {}
    IN  /\ Step(l, "relay", "recv")
        /\ \E first \in RelayTo(l) \cup {n} :
              net' = Send(n, IF panic THEN {first} ELSE RelayTo(l), Relayed(l))
        /\ activeCalls' = [activeCalls EXCEPT ![n] = IF panic THEN @ ELSE {(UNION @) \cup RelayTo(l)}]
        /\ crashed' = IF panic THEN crashed \cup {n} ELSE crashed
        /\ UNCHANGED <<speaker, calls, radios, seen, stray>>

\* OnPeerCallEnd: the radios of a known call are told, then it is not tracked
\* any more ...
HandleEnd(l) ==
    \E m \in Arrived(l) :
        /\ m.kind = "end"
        /\ Take(l, m, IF ~New(l[2], m) THEN "recv" ELSE IF calls[l[2]] THEN "untrack" ELSE "forget")
        /\ seen' = [seen EXCEPT ![l[2]] = @ \cup {<<"end", m.id>>}]
        /\ radios' = [radios EXCEPT ![l[2]] = IF New(l[2], m) /\ calls[l[2]] THEN "quiet" ELSE @]
        /\ UNCHANGED <<speaker, calls, activeCalls, stray, crashed>>

Untrack(l) ==
    /\ Step(l, "untrack", "forget")
    /\ calls' = [calls EXCEPT ![l[2]] = FALSE]
    /\ UNCHANGED <<speaker, radios, activeCalls, net, seen, stray, crashed>>

\* ... handleCallEnd drops the entry, and relays.
Forget(l) ==
    /\ Step(l, "forget", "relayEnd")
    /\ activeCalls' = [activeCalls EXCEPT ![l[2]] = {}]
    /\ UNCHANGED <<speaker, calls, radios, net, seen, stray, crashed>>

\* Variant: only to those the entry names, after it was dropped.
RelayEndKnown(l) ==
    /\ Step(l, "relayEnd", "recv")
    /\ net' = Send(l[2], RelayTo(l) \cap (UNION activeCalls[l[2]]), Relayed(l))
    /\ UNCHANGED <<speaker, calls, radios, activeCalls, seen, stray, crashed>>

RelayEnd(l) ==
    /\ Step(l, "relayEnd", "recv")
    /\ net' = Send(l[2], RelayTo(l), Relayed(l))
    /\ UNCHANGED <<speaker, calls, radios, activeCalls, seen, stray, crashed>>

\* handleVoiceFrame and OnPeerVoiceFrame: voice of a call that is not tracked is
\* dropped; it is never relayed.
HandleVoice(l) ==
    \E m \in Arrived(l) :
        /\ Take(l, m, "recv")
        /\ m.kind = "voice"
        /\ stray' = IF calls[l[2]] /\ radios[l[2]] = "quiet" THEN stray \cup {l[2]} ELSE stray
        /\ UNCHANGED <<speaker, calls, radios, activeCalls, seen, crashed>>

-----------------------------------------------------------------------------
Speaker == BroadcastCallStart \/ TellStart \/ BroadcastCallEnd \/ TellEnd

ReadLoop(l) ==
    \/ HandleStart(l) \/ Track(l) \/ Note(l) \/ Relay(l)
    \/ HandleEnd(l) \/ Untrack(l) \/ Forget(l) \/ RelayEnd(l) \/ HandleVoice(l)

Next ==
    \/ Begin \/ Speak \/ IdleInjected \/ Finish
    \/ Speaker
    \/ \E l \in Link : ReadLoop(l)

\* The servers' goroutines run; nobody has to speak or to stop.
Fairness == WF_vars(Speaker) /\ \A l \in Link : WF_vars(ReadLoop(l))

Spec == Init /\ [][Next]_vars
FairSpec == Spec /\ Fairness

-----------------------------------------------------------------------------
(* Properties                                                              *)

\* "BroadcastCallEnd notifies all peers about a call ending": a call that is over
\* at the talker's server is over everywhere, in the servers' call tables and for
\* the radios, although every server passes its start and its end on through
\* several locks.
EndReaches ==
    <>[](at = "idle") => <>[](\A n \in Server : ~calls[n] /\ radios[n] = "quiet")

\* Radios never get voice of a call they have not been told of or that was
\* released to them, and no server stops over a call's table entry.
VoiceInCall == stray = {} /\ crashed = {}

Settled == \A l \in Link : net[l] = <<>> /\ rd[l] = "recv"

\* Once nothing is under way, every server is in the call the talker is in, with its
\* table, its hub and its radios, or none is: the starts and the ends, passed on through
\* several servers and several locks of each, have kept their order.
CallsAgree ==
    Settled =>
        /\ at = "talking" =>
              \A n \in Server \ {Talker} : calls[n] /\ radios[n] = "hearing" /\ activeCalls[n] # {}
        /\ at = "idle" =>
              \A n \in Server : ~calls[n] /\ radios[n] = "quiet" /\ activeCalls[n] = {}

\* The federation follows the speaker: EndReaches, and no hub keeps an entry of a
\* call that is over; and while somebody speaks the radios of every other server are,
\* in the end, in the call.
GroupFollows ==
    /\ EndReaches
    /\ <>[](at = "idle") => <>[](\A n \in Server : activeCalls[n] = {})
    /\ <>[](at = "talking") => <>[](\A n \in Server \ {Talker} : radios[n] = "hearing" /\ calls[n])
=============================================================================
