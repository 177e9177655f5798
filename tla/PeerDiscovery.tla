--------------------------- MODULE PeerDiscovery ---------------------------
(***************************************************************************)
(* How servers find each other.  A server dials the peers of its           *)
(* configuration under the labels "peer-0", "peer-1", ...; the real name   *)
(* comes with the peer's Hello.  Whoever gets a Hello sends the peers it   *)
(* knows, once, and the receiver dials the ones that are new to it.        *)
(*                                                                         *)
(* Every dial loop runs for ever and holds at most one connection, on      *)
(* which each end has a read loop; messages stay in order.  A server's     *)
(* name stands for its URL.  PeerRegistry has the steps within registering *)
(* and renaming a peer, which are one step here.                           *)
(***************************************************************************)
EXTENDS Naturals, Sequences, FiniteSets

CONSTANTS Server,
          Configured,  \* pairs <<n, m>>: m is n's configured peer
          Advertised,  \* servers with a URL of their own to tell (FEDERATION_SELF_URL)
          MaxBreaks    \* how many connection losses to look at

Boot == "peer-0"

VARIABLES known,   \* known[n]: knownPeers, pairs <<name, url>>
          loops,   \* dial loops: triples <<server, label, url>>
          conns,   \* connections: the dial loop, the peer's name at the dialling
                   \* end, and the messages in the two directions
          breaks

vars == <<known, loops, conns, breaks>>

TypeOK ==
    /\ known \in [Server -> SUBSET ((Server \cup {Boot}) \X Server)]
    /\ loops \subseteq Server \X (Server \cup {Boot}) \X Server
    /\ \A c \in conns : c.loop \in loops /\ c.label \in Server \cup {Boot}
    /\ \A c, d \in conns : c.loop = d.loop => c = d
    /\ breaks \in 0..MaxBreaks

\* Hub.Start.
Init ==
    /\ known = [n \in Server |-> {<<Boot, p[2]>> : p \in {q \in Configured : q[1] = n}}]
    /\ loops = {<<p[1], Boot, p[2]>> : p \in Configured}
    /\ conns = {}
    /\ breaks = 0

Dialler(c) == c.loop[1]
Dialled(c) == c.loop[3]

Hello == [kind |-> "hello", peers |-> {}]
Exchange(peers) == [kind |-> "exchange", peers |-> peers]

\* The connections other than c that a server holds in the slot of an outgoing
\* peer called name, and of an incoming peer.
OutSlot(c, n, name) == {d \in conns \ {c} : Dialler(d) = n /\ d.label = name}
InSlot(c, n, name) == {d \in conns \ {c} : Dialled(d) = n /\ Dialler(d) = name}

\* maintainOutgoingPeer and Connect: both ends register the peer, closing what is in
\* its slot, and send a Hello.
Connect(l) ==
    LET new == [loop |-> l, label |-> l[2], out |-> <<Hello>>, back |-> <<Hello>>]
    IN  /\ l \in loops /\ \A d \in conns : d.loop # l
        /\ conns' = (conns \ (OutSlot(new, l[1], l[2]) \cup InSlot(new, l[3], l[1]))) \cup {new}
        /\ UNCHANGED <<known, loops, breaks>>

\* sendPeerExchange of n to the peer it calls name; nothing is sent if there is
\* nothing to tell.
PeerExchange(n, name, list) ==
    LET peers == {<<m, m>> : m \in {n} \cap Advertised} \cup {p \in list : p[1] # name}
    IN IF peers = {} THEN <<>> ELSE <<Exchange(peers)>>

\* Variant: the label is forgotten and the name not noted.
RelabelDrop(list, old, new) == {p \in list : p[1] # old}

\* renamePeer, the known peers: the label goes, the name stays if it was there.
Relabel(list, old, new) ==
    LET rest == {p \in list : p[1] # old}
    IN rest \cup {<<new, p[2]>> : p \in {q \in list \ rest : \A r \in rest : r[1] # new}}

\* handleHello at the dialling end: the peer gets its real name, and the slot of
\* that name.
HelloBack(c) ==
    LET n == Dialler(c)
        name == Dialled(c)
        list == IF c.label = name THEN known[n] ELSE Relabel(known[n], c.label, name)
    IN  /\ c.back # <<>> /\ Head(c.back).kind = "hello"
        /\ known' = [known EXCEPT ![n] = list]
        /\ conns' = (conns \ ({c} \cup OutSlot(c, n, name)))
                    \cup {[c EXCEPT !.label = name, !.back = Tail(@),
                                    !.out = @ \o PeerExchange(n, name, list)]}
        /\ UNCHANGED <<loops, breaks>>

\* handleHello at the other end, which knows the name from the connection.
HelloOut(c) ==
    /\ c.out # <<>> /\ Head(c.out).kind = "hello"
    /\ conns' = (conns \ {c})
                \cup {[c EXCEPT !.out = Tail(@),
                                !.back = @ \o PeerExchange(Dialled(c), Dialler(c), known[Dialled(c)])]}
    /\ UNCHANGED <<known, loops, breaks>>

\* Variant: a URL is not looked for under another name.
IsNewByName(n, p) ==
    /\ p[1] # n /\ ~(n \in Advertised /\ p[2] = n)
    /\ \A q \in known[n] : q[1] # p[1]

\* tryAddDiscoveredPeer: what is skipped.
IsNew(n, p) ==
    /\ p[1] # n /\ ~(n \in Advertised /\ p[2] = n)
    /\ \A q \in known[n] : q[1] # p[1] /\ q[2] # p[2]

\* Is a peer of that name connected, in either direction?
Connected(n, name) ==
    \E d \in conns : (Dialler(d) = n /\ d.label = name) \/ (Dialled(d) = n /\ Dialler(d) = name)

\* One entry of an exchange; the last one takes the message away.
Learn(n, p) ==
    IF IsNew(n, p)
    THEN /\ known' = [known EXCEPT ![n] = @ \cup {p}]
         /\ loops' = IF Connected(n, p[1]) THEN loops ELSE loops \cup {<<n, p[1], p[2]>>}
    ELSE UNCHANGED <<known, loops>>

Without(queue, p) ==
    LET left == Head(queue).peers \ {p}
    IN IF left = {} THEN Tail(queue) ELSE <<Exchange(left)>> \o Tail(queue)

HandlePeerExchange(c) ==
    \/ /\ c.out # <<>>
       /\ \E p \in Head(c.out).peers :
             /\ Learn(Dialled(c), p)
             /\ conns' = (conns \ {c}) \cup {[c EXCEPT !.out = Without(c.out, p)]}
       /\ UNCHANGED breaks
    \/ /\ c.back # <<>>
       /\ \E p \in Head(c.back).peers :
             /\ Learn(Dialler(c), p)
             /\ conns' = (conns \ {c}) \cup {[c EXCEPT !.back = Without(c.back, p)]}
       /\ UNCHANGED breaks

\* A connection breaks.
Break(c) ==
    /\ breaks < MaxBreaks
    /\ breaks' = breaks + 1
    /\ conns' = conns \ {c}
    /\ UNCHANGED <<known, loops>>

Dial == \E l \in loops : Connect(l)
ReadLoops == \E c \in conns : HelloBack(c) \/ HelloOut(c) \/ HandlePeerExchange(c)

Next ==
    \/ Dial
    \/ \E c \in conns : HelloBack(c)
    \/ \E c \in conns : HelloOut(c)
    \/ \E c \in conns : HandlePeerExchange(c)
    \/ \E c \in conns : Break(c)

\* Some dial loop gets on with dialling and some read loop with reading: less than
\* what Go's goroutines give.
Fairness == WF_vars(Dial) /\ WF_vars(ReadLoops)

Spec == Init /\ [][Next]_vars
FairSpec == Spec /\ Fairness

-----------------------------------------------------------------------------
(* Properties                                                              *)

\* "Self-connect protection: gossip filters our own URL/name out" (README.md), and
\* no server dials a URL twice, whatever labels it goes by: two loops to one server
\* would take each other's slot away for ever.
DialledOnce ==
    \A l \in loops : l[1] # l[3] /\ \A k \in loops : l[1] = k[1] /\ l[3] = k[3] => l = k

Meshed == \A n, m \in Server : n # m =>
    \E c \in conns : {Dialler(c), Dialled(c)} = {n, m} /\ c.out = <<>> /\ c.back = <<>>

\* The loopback test's "ft-a discovers ft-c via gossip through ft-b" (README.md): of
\* servers that each configure the next one, all are directly connected in the end,
\* whatever the order of connections, Hellos and exchanges.
Discovery == []DialledOnce /\ <>[]Meshed
=============================================================================
