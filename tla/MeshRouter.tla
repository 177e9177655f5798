----------------------------- MODULE MeshRouter -----------------------------
(***************************************************************************)
(* The federation mesh: every server floods control messages (subscriber,  *)
(* affiliation, station, position, SDS and group-call updates) to its      *)
(* peers, and relays what it receives.  A copy carries the message id, the *)
(* origin it is attributed to, a hop budget (TTL) and the path of servers  *)
(* it went through; a server remembers the ids it has seen for 30 s.       *)
(*                                                                         *)
(* Two servers that dial each other hold two streams between them; a       *)
(* broadcast uses one of them, whichever the map iteration meets first,    *)
(* and each stream has a read loop of its own at the receiving end.  The   *)
(* dedup test and the dedup mark take the router's lock separately         *)
(* (ShouldProcess), so the read loops of one server interleave there.      *)
(***************************************************************************)
EXTENDS Integers, Sequences, FiniteSets, Functions

CONSTANTS Server,       \* server names
          Stream,       \* triples <<from, to, connection>>
          MsgId,        \* message ids; NewMessageID never repeats one
          MaxTTL,       \* mesh.go: 10
          SendBuf,      \* slots of a peer's send channel; peer.go: 256
          NoMsg,        \* "this read loop holds no message"
          Lossy,        \* may streams break and reconnect?
          LateDelivery  \* may a copy outlive the 30 s dedup window?

ASSUME MeshConstants ==
    /\ Stream \subseteq {s \in Server \X Server \X {1, 2} : s[1] # s[2]}
    /\ MaxTTL \in Nat \ {0}
    /\ SendBuf \in Nat \ {0}
    /\ Lossy \in BOOLEAN
    /\ LateDelivery \in BOOLEAN

Msg == [id : MsgId, origin : Server, ttl : Int, path : Seq(Server)]

ASSUME NoMsgAssumption == NoMsg \notin Msg

VARIABLES up,       \* the streams that are connected
          queue,    \* queue[s]: control messages in transit on stream s
          pc,       \* pc[s]: where the receiver's read loop for s stands
          cur,      \* cur[s]: the message that read loop is working on
          seen,     \* seen[n]: MeshRouter.seen, the ids n remembers
          birth,    \* birth[id]: {} or {<<starter, origin>>}
          handled   \* handled[s][id]: how often the read loop of s acted on id (2: or more)

vars == <<up, queue, pc, cur, seen, birth, handled>>

TypeOK ==
    /\ up \subseteq Stream
    /\ queue \in [Stream -> Seq(Msg)]
    /\ pc \in [Stream -> {"recv", "mark", "handle"}]
    /\ cur \in [Stream -> Msg \cup {NoMsg}]
    /\ \A s \in Stream : (pc[s] = "recv") <=> (cur[s] = NoMsg)
    /\ seen \in [Server -> SUBSET MsgId]
    /\ birth \in [MsgId -> SUBSET (Server \X Server)]
    /\ handled \in [Stream -> [MsgId -> Nat]]

Init ==
    /\ up = Stream
    /\ queue = [s \in Stream |-> <<>>]
    /\ pc = [s \in Stream |-> "recv"]
    /\ cur = [s \in Stream |-> NoMsg]
    /\ seen = [n \in Server |-> {}]
    /\ birth = [id \in MsgId |-> {}]
    /\ handled = [s \in Stream |-> [id \in MsgId |-> 0]]

-----------------------------------------------------------------------------
(* Sending                                                                 *)

PrepareOutgoing(n, id, o) ==
    [id |-> id, origin |-> o, ttl |-> MaxTTL, path |-> <<n>>]

IsInPath(m, n) == n \in Range(m.path)

ShouldRelayStrict(m) == m.ttl > 2
ShouldRelay(m) == m.ttl > 1

\* Relays that stamp anew, change nothing, record the wrong hop, keep the budget.
PrepareRelayFresh(m, n) == PrepareOutgoing(n, m.id, n)
PrepareRelayUnchanged(m, n) == m
PrepareRelayWrongHop(m, n) == [m EXCEPT !.ttl = @ - 1, !.path = Append(@, m.id)]
PrepareRelayNoTTL(m, n) == [m EXCEPT !.path = Append(@, n)]
PrepareRelay(m, n) ==
    [id |-> m.id, origin |-> m.origin, ttl |-> m.ttl - 1, path |-> Append(m.path, n)]

\* The servers n has a connected peer for.
Peers(n) == {s[2] : s \in {t \in up : t[1] = n}}

\* One stream for every peer name in T: the loops over h.peers skip a name
\* they have met, so a peer with two connections gets one copy.
FanOut(n, T) ==
    {S \in SUBSET {s \in up : s[1] = n /\ s[2] \in T} :
        \A b \in T : \E s \in S : s[2] = b /\ \A t \in S : t[2] = b => t = s}

\* SendControl: a full send channel drops the message.
SendControl(S, m) ==
    [s \in Stream |-> IF s \in S /\ Len(queue[s]) < SendBuf
                      THEN Append(queue[s], m) ELSE queue[s]]

\* The peers a relayed copy goes to: not the one it came from, none that is
\* already in the path.
RelayTargets(m, n, from) == {b \in Peers(n) \ {from} : ~IsInPath(m, b)}

\* Broadcast*: the service starts a flood.  BroadcastStation also does so for
\* a station row it learned from another origin.
Broadcast(n, id, o) ==
    /\ birth[id] = {}
    /\ birth' = [birth EXCEPT ![id] = {<<n, o>>}]
    /\ seen' = [seen EXCEPT ![n] = @ \cup {id}]
    /\ \E S \in FanOut(n, Peers(n)) :
          queue' = SendControl(S, PrepareOutgoing(n, id, o))
    /\ UNCHANGED <<up, pc, cur, handled>>

-----------------------------------------------------------------------------
(* Receiving: the read loop of stream s, at server s[2]                    *)

\* The tests of ShouldProcess that need no lock.
AcceptableAnyOrigin(m, n) == m.ttl > 0 /\ ~IsInPath(m, n)
Acceptable(m, n) == m.origin # n /\ m.ttl > 0 /\ ~IsInPath(m, n)

\* ShouldProcess up to and including alreadySeen: true, go on to markSeen.
CheckNoDedup(s) ==
    /\ pc[s] = "recv"
    /\ queue[s] # <<>>
    /\ Acceptable(Head(queue[s]), s[2])
    /\ pc' = [pc EXCEPT ![s] = "mark"]
    /\ cur' = [cur EXCEPT ![s] = Head(queue[s])]
    /\ queue' = [queue EXCEPT ![s] = Tail(@)]
    /\ UNCHANGED <<up, seen, birth, handled>>
Check(s) ==
    /\ pc[s] = "recv"
    /\ queue[s] # <<>>
    /\ Acceptable(Head(queue[s]), s[2])
    /\ Head(queue[s]).id \notin seen[s[2]]
    /\ pc' = [pc EXCEPT ![s] = "mark"]
    /\ cur' = [cur EXCEPT ![s] = Head(queue[s])]
    /\ queue' = [queue EXCEPT ![s] = Tail(@)]
    /\ UNCHANGED <<up, seen, birth, handled>>

\* ShouldProcess returned false: the message is dropped.
Discard(s) ==
    /\ pc[s] = "recv"
    /\ queue[s] # <<>>
    /\ \/ ~Acceptable(Head(queue[s]), s[2])
       \/ Head(queue[s]).id \in seen[s[2]]
    /\ queue' = [queue EXCEPT ![s] = Tail(@)]
    /\ UNCHANGED <<up, pc, cur, seen, birth, handled>>

\* markSeen, under its own acquisition of the router's lock.
MarkSeen(s) ==
    /\ pc[s] = "mark"
    /\ seen' = [seen EXCEPT ![s[2]] = @ \cup {cur[s].id}]
    /\ pc' = [pc EXCEPT ![s] = "handle"]
    /\ UNCHANGED <<up, queue, cur, birth, handled>>

\* The message handler: the service callback, then the relay.
Handle(s) ==
    LET m == cur[s]
        n == s[2]
    IN  /\ pc[s] = "handle"
        /\ handled' = [handled EXCEPT ![s][m.id] = IF @ < 2 THEN @ + 1 ELSE @]
        /\ IF ShouldRelay(m)
           THEN \E S \in FanOut(n, RelayTargets(m, n, s[1])) :
                   queue' = SendControl(S, PrepareRelay(m, n))
           ELSE UNCHANGED queue
        /\ pc' = [pc EXCEPT ![s] = "recv"]
        /\ cur' = [cur EXCEPT ![s] = NoMsg]
        /\ UNCHANGED <<up, seen, birth>>

-----------------------------------------------------------------------------
(* Time and failure                                                        *)

\* Every copy under way on stream s, or in its read loop.
Copies(s) == Range(queue[s]) \cup (IF pc[s] = "recv" THEN {} ELSE {cur[s]})

InFlight(id) == \E s \in Stream : \E m \in Copies(s) : m.id = id

\* cleanupLoop forgets an id 30 s after it was last marked.  Unless
\* LateDelivery, no copy is still under way by then.
Cleanup(n, id) ==
    /\ id \in seen[n]
    /\ LateDelivery \/ ~InFlight(id)
    /\ seen' = [seen EXCEPT ![n] = @ \ {id}]
    /\ UNCHANGED <<up, queue, pc, cur, birth, handled>>

\* Both directions of a connection.
Connection(s) == {t \in Stream : t[3] = s[3] /\ {t[1], t[2]} = {s[1], s[2]}}

\* A stream breaks: what was queued on it is lost in both directions.  A
\* handler that is running finishes.
Disconnect(s) ==
    /\ Lossy
    /\ s \in up
    /\ up' = up \ Connection(s)
    /\ queue' = [t \in Stream |-> IF t \in Connection(s) THEN <<>> ELSE queue[t]]
    /\ UNCHANGED <<pc, cur, seen, birth, handled>>

\* maintainOutgoingPeer dials again and registers the peer.
Reconnect(s) ==
    /\ s \notin up
    /\ up' = up \cup Connection(s)
    /\ UNCHANGED <<queue, pc, cur, seen, birth, handled>>

-----------------------------------------------------------------------------
ReadLoop(s) == Check(s) \/ Discard(s) \/ MarkSeen(s) \/ Handle(s)

Next ==
    \/ \E n, o \in Server, id \in MsgId : Broadcast(n, id, o)
    \/ \E s \in Stream : Check(s)
    \/ \E s \in Stream : Discard(s)
    \/ \E s \in Stream : MarkSeen(s)
    \/ \E s \in Stream : Handle(s)
    \/ \E n \in Server, id \in MsgId : Cleanup(n, id)
    \/ \E s \in Stream : Disconnect(s)
    \/ \E s \in Stream : Reconnect(s)

Spec == Init /\ [][Next]_vars

\* Go schedules every read loop: one that can take a step eventually does.
\* Broadcasts, clean-up and failures are the environment's.
Fairness == \A s \in Stream : WF_vars(ReadLoop(s))

FairSpec == Spec /\ Fairness

-----------------------------------------------------------------------------
(* Properties                                                              *)

\* No copy is ever on its way to a server it has been at: its path repeats
\* no server, ends with the sender and does not hold the receiver (README:
\* "path tracking", relayToPeers and ShouldProcess).
LoopFree ==
    \A s \in Stream : \A m \in Copies(s) :
        /\ m.path # <<>>
        /\ IsInjective(m.path)
        /\ m.path[Len(m.path)] = s[1]
        /\ ~IsInPath(m, s[2])

\* Each hop costs exactly one unit of TTL and a copy without budget is never
\* sent, so no path is longer than MaxTTL hops (PrepareRelay, ShouldRelay).
HopBudget ==
    \A s \in Stream : \A m \in Copies(s) :
        m.ttl >= 1 /\ m.ttl + Len(m.path) = MaxTTL + 1

\* While no copy outlives the dedup window, one read loop acts on a message
\* at most once.  This is what the dedup table guarantees: ShouldProcess tests
\* and marks the id under two acquisitions of the lock, and two read loops of one
\* server may each act on a copy.
OncePerReadLoop ==
    ~LateDelivery =>
        \A s \in Stream, id \in MsgId : handled[s][id] <= 1

\* What a server has acted on, as the abstract flood sees it.
Holders ==
    [id \in MsgId |-> {x[1] : x \in birth[id]}
                      \cup {s[2] : s \in {t \in Stream : handled[t][id] > 0}}]

Flood == INSTANCE MeshFlood
             WITH Link <- {<<s[1], s[2]>> : s \in Stream}, holders <- Holders

\* The mesh implements the abstract flood: a server acts only on messages
\* some linked server had before it, never on one attributed to itself.
RefinesFlood == Flood!FloodSpec

Quiet == \A s \in Stream : queue[s] = <<>> /\ pc[s] = "recv"

\* Every flood dies out, whatever is lost, broken or forgotten meanwhile
\* (README: "no loops possible").
FloodDies == <>[]Quiet

\* On a connected mesh without loss, and with a hop budget no simple path
\* exceeds, every server eventually acts on a message the starter sent for
\* itself.
EveryoneHears ==
    \A id \in MsgId :
        (\E n \in Server : <<n, n>> \in birth[id]) ~> (\A n \in Server : n \in Holders[id])
=============================================================================
