--------------------------- MODULE SubscriberSync ---------------------------
(***************************************************************************)
(* Who is where: the base stations (Brew clients) of a server register     *)
(* radios and affiliate them to groups; the server floods every change to  *)
(* the mesh, repeats its whole table every 30 s (anti-entropy) and sends   *)
(* it to a peer that connects (full sync).  A server keeps, per peer       *)
(* object, the radios it heard of through that peer; private calls are     *)
(* routed by that table.                                                   *)
(*                                                                         *)
(* A message is taken from a stream, checked, applied and relayed in one   *)
(* step; MeshRouter has the finer steps.  The hop budget (10) is not       *)
(* reached in a mesh with fewer servers and is left out.  A message id is  *)
(* used again once no copy of it is left, with the memory of it gone:      *)
(* NewMessageID never repeats an id, so only ids under way matter.         *)
(***************************************************************************)
EXTENDS Naturals, Sequences, FiniteSets, Functions

CONSTANTS Server,
          Link,       \* pairs <<from, to>>, both directions of every stream
          Client,     \* base stations
          Home,       \* Home[c]: the server c is connected to
          ISSI, GSSI, \* radios and groups
          MsgId,      \* floods that can be under way together
          MaxMsgs,    \* how many messages of base stations to look at
          MaxBreaks,  \* how many connection losses to look at
          None        \* not registered

ASSUME SyncConstants ==
    /\ Link \subseteq {l \in Server \X Server : l[1] # l[2]}
    /\ \A l \in Link : <<l[2], l[1]>> \in Link
    /\ Home \in [Client -> Server]
    /\ None \notin Server
    /\ \A G \in SUBSET GSSI : None # G
    /\ MaxMsgs \in Nat
    /\ MaxBreaks \in Nat

VARIABLES subs,    \* Client.subscribers: subs[c][i] is None or the groups of i
          round,   \* round[n]: what n's anti-entropy round has still to send
          up,      \* connected links
          net,     \* net[l]: messages under way on l
          seen,    \* seen[n]: ids n has processed
          issis,   \* issis[<<n, p>>][i]: origin of i in n's Peer object for p
          aff,     \* aff[<<n, p>>][i]: groups of i there
          told,    \* history: pairs <<i, n>>, a base station of n reported on i
          msgs,    \* messages of base stations so far
          breaks   \* connection losses so far

vars == <<subs, round, up, net, seen, issis, aff, told, msgs, breaks>>

Groups == SUBSET GSSI
Update == [kind : {"update"}, id : MsgId, origin : Server, issi : ISSI, groups : Groups,
           path : Seq(Server)]
Sync == [kind : {"sync"}, subs : [ISSI -> Groups \cup {None}]]

TypeOK ==
    /\ subs \in [Client -> [ISSI -> Groups \cup {None}]]
    /\ round \in [Server -> SUBSET (ISSI \X Groups)]
    /\ up \subseteq Link
    /\ net \in [Link -> Seq(Update \cup Sync)]
    /\ seen \in [Server -> SUBSET MsgId]
    /\ issis \in [Link -> [ISSI -> Server \cup {None}]]
    /\ aff \in [Link -> [ISSI -> Groups]]
    /\ \A l \in Link, i \in ISSI : aff[l][i] # {} => issis[l][i] # None
    /\ told \subseteq ISSI \X Server
    /\ msgs \in 0..MaxMsgs
    /\ breaks \in 0..MaxBreaks

Init ==
    /\ subs = [c \in Client |-> [i \in ISSI |-> None]]
    /\ round = [n \in Server |-> {}]
    /\ up = Link
    /\ net = [l \in Link |-> <<>>]
    /\ seen = [n \in Server |-> {}]
    /\ issis = [l \in Link |-> [i \in ISSI |-> None]]
    /\ aff = [l \in Link |-> [i \in ISSI |-> {}]]
    /\ told = {}
    /\ msgs = 0
    /\ breaks = 0

-----------------------------------------------------------------------------
(* Announcing                                                              *)

\* Ids no copy of which is under way.
FreeId == {id \in MsgId : \A l \in Link : \A m \in Range(net[l]) :
                              m.kind = "update" => m.id # id}

\* SendControl of m on every link in L.
SendOn(L, m) == [l \in Link |-> IF l \in L THEN Append(net[l], m) ELSE net[l]]

\* BroadcastSubscriber with action "register", the only one the service uses:
\* PrepareOutgoing marks the id as seen, broadcastToAllPeers sends it.
BroadcastSubscriber(n, i, G) ==
    \E id \in FreeId :
        /\ net' = SendOn({l \in up : l[1] = n},
                         [kind |-> "update", id |-> id, origin |-> n, issi |-> i,
                          groups |-> G, path |-> <<n>>])
        /\ seen' = [x \in Server |-> IF x = n THEN seen[x] \cup {id} ELSE seen[x] \ {id}]

\* ApplySubscriber: what a client's record of a radio becomes.
ApplySubscriber(old, kind, G) ==
    LET known == IF old = None THEN {} ELSE old
    IN  CASE kind = "register" -> known
          [] kind = "deregister" -> None
          [] kind = "affiliate" -> known \cup G
          [] kind = "deaffiliate" -> known \ G

\* A subscriber message of client c: ApplySubscriber, then OnMessage, which
\* announces a registration with the groups in the message, whatever its type.
OnMessage(c, kind, i, G) ==
    LET new == ApplySubscriber(subs[c][i], kind, G)
    IN  /\ msgs < MaxMsgs
        /\ msgs' = msgs + 1
        /\ subs' = [subs EXCEPT ![c][i] = new]
        /\ told' = told \cup {<<i, Home[c]>>}
        /\ BroadcastSubscriber(Home[c], i, G)
        /\ UNCHANGED <<round, up, issis, aff, breaks>>

\* unregisterClient and OnDisconnect: the client and its radios are gone
\* here; the mesh is not told.
OnDisconnect(c) ==
    /\ \E i \in ISSI : subs[c][i] # None
    /\ subs' = [subs EXCEPT ![c] = [i \in ISSI |-> None]]
    /\ UNCHANGED <<round, up, net, seen, issis, aff, told, msgs, breaks>>

\* The clients of n that have i.
Holders(n, i) == {c \in Client : Home[c] = n /\ subs[c][i] # None}

\* syncAllSubscribers takes a snapshot of the clients ...
SyncSnapshot(n) ==
    /\ round[n] = {}
    /\ round' = [round EXCEPT ![n] =
           {e \in ISSI \X Groups : \E c \in Holders(n, e[1]) : e[2] = subs[c][e[1]]}]
    /\ round'[n] # {}
    /\ UNCHANGED <<subs, up, net, seen, issis, aff, told, msgs, breaks>>

\* ... and announces its entries one by one.
SyncSend(n) ==
    \E e \in round[n] :
        /\ BroadcastSubscriber(n, e[1], e[2])
        /\ round' = [round EXCEPT ![n] = @ \ {e}]
        /\ UNCHANGED <<subs, up, issis, aff, told, msgs, breaks>>

-----------------------------------------------------------------------------
(* Receiving                                                               *)

RegisterISSIPeerName(l, i, origin) == [issis EXCEPT ![l][i] = l[2]]
\* RegisterISSI on the peer object l.
RegisterISSI(l, i, origin) == [issis EXCEPT ![l][i] = origin]

\* A RegisterISSI that keeps the radio's earlier groups.
AffiliateMerge(l, i, G) == [aff EXCEPT ![l][i] = @ \cup G]
\* RegisterISSI drops the radio's groups, AffiliateISSI sets the given ones.
Affiliate(l, i, G) == [aff EXCEPT ![l][i] = G]

\* ShouldProcess for an update that reaches n.
ShouldProcess(m, n) ==
    m.origin # n /\ n \notin Range(m.path) /\ m.id \notin seen[n]

PrepareRelay(m, n) ==
    [kind |-> "update", id |-> m.id, origin |-> m.origin, issi |-> m.issi,
     groups |-> m.groups, path |-> Append(m.path, n)]

\* relayToPeers does not send a message back or to a server in its path.
\* (relayToPeers tests the path after PrepareRelay added n.)
RelayLinks(m, n, from) ==
    {l \in up : l[1] = n /\ l[2] # from /\ l[2] \notin Range(m.path)}

\* handleSubscriberUpdate, or the drop of a message ShouldProcess refuses.
HandleUpdate(l) ==
    LET m == Head(net[l])
        n == l[2]
        t == <<l[2], l[1]>>
        rest == [net EXCEPT ![l] = Tail(@)]
    IN  /\ net[l] # <<>>
        /\ m.kind = "update"
        /\ IF ShouldProcess(m, n)
           THEN /\ seen' = [seen EXCEPT ![n] = @ \cup {m.id}]
                /\ issis' = RegisterISSI(t, m.issi, m.origin)
                /\ aff' = Affiliate(t, m.issi, m.groups)
                /\ net' = [k \in Link |-> IF k \in RelayLinks(m, n, l[1])
                                          THEN Append(rest[k], PrepareRelay(m, n))
                                          ELSE rest[k]]
           ELSE net' = rest /\ UNCHANGED <<seen, issis, aff>>
        /\ UNCHANGED <<subs, round, up, told, msgs, breaks>>

\* handleSyncResponse: registers what the peer sent, removes nothing.
HandleSync(l) ==
    LET m == Head(net[l])
        t == <<l[2], l[1]>>
    IN  /\ net[l] # <<>>
        /\ m.kind = "sync"
        /\ net' = [net EXCEPT ![l] = Tail(@)]
        /\ issis' = [issis EXCEPT ![t] =
               [i \in ISSI |-> IF m.subs[i] # None THEN l[1] ELSE issis[t][i]]]
        /\ aff' = [aff EXCEPT ![t] =
               [i \in ISSI |-> IF m.subs[i] # None THEN m.subs[i] ELSE aff[t][i]]]
        /\ UNCHANGED <<subs, round, up, seen, told, msgs, breaks>>

-----------------------------------------------------------------------------
(* Connections                                                             *)

Ends(l) == {l, <<l[2], l[1]>>} \cap Link

\* A stream breaks and what is under way on it is lost.
Break(l) ==
    /\ breaks < MaxBreaks
    /\ l \in up
    /\ up' = up \ Ends(l)
    /\ net' = [k \in Link |-> IF k \in Ends(l) THEN <<>> ELSE net[k]]
    /\ breaks' = breaks + 1
    /\ UNCHANGED <<subs, round, seen, issis, aff, told, msgs>>

\* GetLocalSubscribers: if two clients have a radio, either record is taken.
LocalSubscribers(n) ==
    {f \in [ISSI -> Groups \cup {None}] : \A i \in ISSI :
        IF Holders(n, i) = {} THEN f[i] = None
        ELSE \E c \in Holders(n, i) : f[i] = subs[c][i]}

\* A Peer.Cleanup that forgets the radios but not their groups.
CleanupAffKeep(L) == aff
\* Peer.Cleanup of the peer objects L: no radios, no groups.
CleanupISSIs(L) == [k \in Link |-> IF k \in L THEN [i \in ISSI |-> None] ELSE issis[k]]
CleanupAff(L) == [k \in Link |-> IF k \in L THEN [i \in ISSI |-> {}] ELSE aff[k]]

\* sendFullSync on link k: what is queued first on a new connection.
SendFullSync(k) == {<<[kind |-> "sync", subs |-> f]>> : f \in LocalSubscribers(k[1])}

\* The connection is back.  Within the redemption window an end keeps the
\* peer's table, after it the table is gone; both ends send a full sync.
Return(l) ==
    /\ l \notin up
    /\ up' = up \cup Ends(l)
    /\ \E lost \in SUBSET Ends(l) :
          issis' = CleanupISSIs(lost) /\ aff' = CleanupAff(lost)
    /\ \E s \in SendFullSync(l), t \in SendFullSync(<<l[2], l[1]>>) :
          net' = [net EXCEPT ![l] = s, ![<<l[2], l[1]>>] = t]
    /\ UNCHANGED <<subs, round, seen, told, msgs, breaks>>

-----------------------------------------------------------------------------
Kind == {"register", "deregister", "affiliate", "deaffiliate"}

Next ==
    \/ \E c \in Client, k \in Kind, i \in ISSI, G \in Groups : OnMessage(c, k, i, G)
    \/ \E c \in Client : OnDisconnect(c)
    \/ \E n \in Server : SyncSnapshot(n)
    \/ \E n \in Server : SyncSend(n)
    \/ \E l \in Link : HandleUpdate(l)
    \/ \E l \in Link : HandleSync(l)
    \/ \E l \in Link : Break(l)
    \/ \E l \in Link : Return(l)

Spec == Init /\ [][Next]_vars

ReadLoop(l) == HandleUpdate(l) \/ HandleSync(l)
AntiEntropy(n) == SyncSnapshot(n) \/ SyncSend(n)

\* Read loops run, the 30 s ticker keeps firing and its round is sent, and
\* maintainOutgoingPeer keeps dialling.  An announcement waits in the model
\* for one of the few ids, which others may take in between: strong fairness.
Fairness ==
    /\ \A l \in Link : WF_vars(ReadLoop(l)) /\ WF_vars(Return(l))
    /\ \A n \in Server : SF_vars(AntiEntropy(n))

FairSpec == Spec /\ Fairness

-----------------------------------------------------------------------------
(* Properties                                                              *)

\* Where a table says a radio is, a base station really reported on it at some
\* time, and no server lists itself as reached through a peer, although
\* announcements travel over relays (RegisterISSI's origin, ShouldProcess).
OriginTrue ==
    \A l \in Link, i \in ISSI : issis[l][i] # None =>
        /\ <<i, issis[l][i]>> \in told
        /\ issis[l][i] # l[1]

\* The tables are well formed, with groups only for radios they have, and true.
TablesTrue == TypeOK /\ OriginTrue

\* i is registered at c, with groups G, and nowhere else.
OnlyAt(c, i, G) == subs[c][i] = G /\ \A d \in Client \ {c} : subs[d][i] = None

\* Server n knows that i is at server h, with groups G.
Knows(n, i, h, G) ==
    \E l \in Link : l[1] = n /\ issis[l][i] = h /\ aff[l][i] = G

\* A radio that stays registered at one base station becomes and stays known
\* to every other server with its groups, whatever came before: lost
\* connections, other servers it was at, announcements that carried only part
\* of its groups (federation_bridge.go: "Damit konvergieren Peers nach
\* Restart, Netzaussetzer oder neuer Connection automatisch").
RegisteredSpreads ==
    \A c \in Client, i \in ISSI, G \in Groups :
        <>[]OnlyAt(c, i, G) =>
            <>[](\A n \in Server \ {Home[c]} : Knows(n, i, Home[c], G))

\* The other half of that convergence: a radio that stays away from every
\* base station is forgotten by all servers.
DeregisteredForgotten ==
    \A i \in ISSI :
        <>[](\A c \in Client : subs[c][i] = None) =>
            <>[](\A l \in Link : issis[l][i] = None)
=============================================================================
