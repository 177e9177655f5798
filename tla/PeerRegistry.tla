---------------------------- MODULE PeerRegistry ----------------------------
(***************************************************************************)
(* The federation hub's table of connected peers: registering a stream,    *)
(* evicting the one it replaces, renaming a peer when its Hello reveals    *)
(* the real server name, and keeping the subscriber table of a lost peer   *)
(* for a redemption window of 30 s so that a quick reconnect gets it back. *)
(*                                                                         *)
(* Each connection is a goroutine (maintainOutgoingPeer or Connect, then   *)
(* readLoop) with a program counter; it is split where it takes or leaves  *)
(* h.mu, pendingMu or a peer's own lock, and in Peer.Close between the     *)
(* test of the done channel and closing it.                                *)
(***************************************************************************)
EXTENDS Naturals, FiniteSets

CONSTANTS Conn,     \* peer objects, one per connection ever made
          Remote,   \* real names of the other servers
          Boot,     \* labels of bootstrap peers ("peer-0"), not real names
          ISSI,     \* subscribers a remote may announce
          NoConn    \* "no connection", not one of Conn

\* What the proofs assume of the constants.
RegistryConstants == NoConn \notin Conn /\ Remote # {}

Name == Remote \cup Boot
Dir == {"in", "out"}
Key == Name \X Dir

VARIABLES peers,     \* h.peers: key -> connection
          pending,   \* h.pendingPeers: key -> connection kept for redemption
          mu,        \* who holds h.mu across steps
          pc,        \* where a connection's goroutine stands
          label,     \* Peer.Name
          dialled,   \* the name the connection was made with
          dir,       \* Peer.Direction
          remote,    \* the server at the other end
          done,      \* connections whose done channel is closed
          table,     \* the subscribers registered on the peer
          src,       \* the parked peer a goroutine is adopting from
          timer,     \* state of the redemption timer of a parked peer
          parked,    \* history: the table at the time the peer was parked
          intime,    \* history: connections that redeemed before the timer fired
          crashed    \* close of a closed channel: the process panics

ident == <<label, dialled, dir, remote>>

vars == <<peers, pending, mu, pc, ident, done, table, src, timer, parked, intime,
          crashed>>

\* Program counters of a registered connection's goroutine.
Live == {"read", "evictRename", "redeemRename", "adoptRename", "unreg", "unregClose",
         "remove"}
PC == Live \cup {"idle", "redeem", "adopt", "insert", "evict", "park", "gone"}

TypeOK ==
    /\ peers \in [Key -> Conn \cup {NoConn}]
    /\ pending \in [Key -> Conn \cup {NoConn}]
    /\ mu \in Conn \cup {NoConn}
    /\ pc \in [Conn -> PC]
    /\ label \in [Conn -> Name]
    /\ dialled \in [Conn -> Name]
    /\ dir \in [Conn -> Dir]
    /\ remote \in [Conn -> Remote]
    /\ done \subseteq Conn
    /\ table \in [Conn -> SUBSET ISSI]
    /\ src \in [Conn -> Conn \cup {NoConn}]
    /\ timer \in [Conn -> {"off", "armed", "fired", "cleanup", "ran"}]
    /\ parked \in [Conn -> SUBSET ISSI]
    /\ intime \subseteq Conn
    /\ crashed \in BOOLEAN
    /\ \A c \in Conn : (mu = c) <=> (pc[c] \in {"evict", "evictRename"})
    /\ \A c \in Conn : (src[c] # NoConn) <=> (pc[c] \in {"adopt", "adoptRename"})

\* A fresh peer object's fields are set when it is made; until then arbitrary.
Init ==
    /\ peers = [k \in Key |-> NoConn]
    /\ pending = [k \in Key |-> NoConn]
    /\ mu = NoConn
    /\ pc = [c \in Conn |-> "idle"]
    /\ label = [c \in Conn |-> CHOOSE n \in Name : TRUE]
    /\ dialled = label
    /\ dir = [c \in Conn |-> "in"]
    /\ remote = [c \in Conn |-> CHOOSE r \in Remote : TRUE]
    /\ done = {}
    /\ table = [c \in Conn |-> {}]
    /\ src = [c \in Conn |-> NoConn]
    /\ timer = [c \in Conn |-> "off"]
    /\ parked = [c \in Conn |-> {}]
    /\ intime = {}
    /\ crashed = FALSE

KeyOf(c) == <<label[c], dir[c]>>
Goto(c, l) == pc' = [pc EXCEPT ![c] = l]

-----------------------------------------------------------------------------
(* A new connection                                                        *)

NewPeer(c, r, n, d) ==
    /\ ~crashed
    /\ pc[c] = "idle"
    /\ label' = [label EXCEPT ![c] = n]
    /\ dialled' = [dialled EXCEPT ![c] = n]
    /\ dir' = [dir EXCEPT ![c] = d]
    /\ remote' = [remote EXCEPT ![c] = r]
    /\ Goto(c, "redeem")
    /\ UNCHANGED <<peers, pending, mu, done, table, src, timer, parked, crashed, intime>>

\* Connect: an incoming stream is labelled with the x-brew-peer header, the
\* remote's server name.  The remote may dial again before we notice that its
\* previous stream is dead.
Accept(c, r) == NewPeer(c, r, r, "in")

\* maintainOutgoingPeer: one loop per configured or discovered peer, which
\* dials again only after its previous connection has ended.
Dial(c, r, n) ==
    /\ n \in Boot \cup {r}
    /\ \A x \in Conn : (dir[x] = "out" /\ dialled[x] = n) => pc[x] \in {"idle", "gone"}
    /\ NewPeer(c, r, n, "out")

\* A redeemPending that forgets timer.Stop.
TakePendingNoStop(c, found, none) ==
    LET k == KeyOf(c)
        p == pending[k]
    IN  IF p = NoConn
        THEN /\ Goto(c, none)
             /\ UNCHANGED <<pending, src, timer, intime>>
        ELSE /\ pending' = [pending EXCEPT ![k] = NoConn]
             /\ src' = [src EXCEPT ![c] = p]
             /\ intime' = IF timer[p] = "armed" THEN intime \cup {c} ELSE intime \ {c}
             /\ Goto(c, found)
             /\ UNCHANGED timer

\* A redeemPending that reports a missing entry as found.
TakePendingNil(c, found, none) ==
    LET p == pending[KeyOf(c)]
    IN  /\ src' = [src EXCEPT ![c] = p]
        /\ Goto(c, found)
        /\ UNCHANGED <<pending, timer, intime>>

\* redeemPending, under pendingMu: take what is parked at the connection's
\* key and stop its timer.  Stop does not stop a timer that has fired.
TakePending(c, found, none) ==
    LET k == KeyOf(c)
        p == pending[k]
    IN  IF p = NoConn
        THEN /\ Goto(c, none)
             /\ UNCHANGED <<pending, src, timer, intime>>
        ELSE /\ pending' = [pending EXCEPT ![k] = NoConn]
             /\ src' = [src EXCEPT ![c] = p]
             /\ intime' = IF timer[p] = "armed" THEN intime \cup {c} ELSE intime \ {c}
             /\ timer' = [timer EXCEPT ![p] = IF @ = "armed" THEN "off" ELSE @]
             /\ Goto(c, found)

Redeem(c) ==
    /\ ~crashed
    /\ \/ pc[c] = "redeem" /\ TakePending(c, "adopt", "insert")
       \/ pc[c] = "redeemRename" /\ TakePending(c, "adoptRename", "read")
    /\ UNCHANGED <<peers, mu, ident, done, table, parked, crashed>>

\* adoptPeerState: the new peer's table is replaced, the old one emptied.
AdoptPeerState(c) ==
    /\ ~crashed
    /\ pc[c] \in {"adopt", "adoptRename"}
    /\ table' = [table EXCEPT ![c] = table[src[c]], ![src[c]] = {}]
    /\ src' = [src EXCEPT ![c] = NoConn]
    /\ Goto(c, IF pc[c] = "adopt" THEN "insert" ELSE "read")
    /\ UNCHANGED <<peers, pending, mu, ident, done, timer, parked, crashed, intime>>

\* registerPeer under h.mu: if the slot is free, or its peer is already
\* closed, put the new peer in; else go on to close the old one.
RegisterPeer(c) ==
    LET old == peers[KeyOf(c)]
    IN  /\ ~crashed
        /\ pc[c] = "insert"
        /\ mu = NoConn
        /\ IF old # NoConn /\ old \notin done
           THEN /\ mu' = c
                /\ Goto(c, "evict")
                /\ UNCHANGED peers
           ELSE /\ peers' = [peers EXCEPT ![KeyOf(c)] = c]
                /\ Goto(c, "read")
                /\ UNCHANGED mu
        /\ UNCHANGED <<pending, ident, done, table, src, timer, parked, crashed, intime>>

\* close(p.done): closing a closed channel panics.
CloseDone(x) ==
    /\ done' = done \cup {x}
    /\ crashed' = (crashed \/ x \in done)

Evict(c) ==
    /\ ~crashed
    /\ pc[c] = "evict"
    /\ CloseDone(peers[KeyOf(c)])
    /\ peers' = [peers EXCEPT ![KeyOf(c)] = c]
    /\ mu' = NoConn
    /\ Goto(c, "read")
    /\ UNCHANGED <<pending, ident, table, src, timer, parked, intime>>

-----------------------------------------------------------------------------
(* The read loop                                                           *)

\* A SubscriberUpdate or SyncResponse registers or deregisters subscribers.
\* It may come before the Hello: a broadcast that finds the peer registered is
\* queued ahead of it (registerPeer precedes the Hello's SendControl).
\* The loop's select may still take a frame when done is closed too.
ReadUpdate(c, i) ==
    /\ ~crashed
    /\ pc[c] = "read"
    /\ \E new \in {table[c] \cup {i}, table[c] \ {i}} :
          table' = [table EXCEPT ![c] = new]
    /\ UNCHANGED <<peers, pending, mu, pc, ident, done, src, timer, parked, crashed, intime>>

\* A renamePeer that leaves the entry under the old name.
MoveSlotKeepOld(c) ==
    LET new == <<remote[c], dir[c]>>
    IN  /\ peers' = [peers EXCEPT ![new] = c]
        /\ label' = [label EXCEPT ![c] = remote[c]]

\* renamePeer's move of c to the slot of its real name.
MoveSlot(c) ==
    LET new == <<remote[c], dir[c]>>
    IN  /\ peers' = [peers EXCEPT ![KeyOf(c)] = NoConn, ![new] = c]
        /\ label' = [label EXCEPT ![c] = remote[c]]

\* handleHello with a name other than the peer's: renamePeer under h.mu,
\* which closes another peer that holds the slot.
ReadHello(c) ==
    LET existing == peers[<<remote[c], dir[c]>>]
    IN  /\ ~crashed
        /\ pc[c] = "read"
        /\ label[c] # remote[c]
        /\ mu = NoConn
        /\ IF existing # NoConn /\ existing # c /\ existing \notin done
           THEN /\ mu' = c
                /\ Goto(c, "evictRename")
                /\ UNCHANGED <<peers, label>>
           ELSE /\ MoveSlot(c)
                /\ Goto(c, "redeemRename")
                /\ UNCHANGED mu
        /\ UNCHANGED <<pending, dialled, dir, remote, done, table, src, timer, parked, crashed, intime>>

EvictRename(c) ==
    /\ ~crashed
    /\ pc[c] = "evictRename"
    /\ CloseDone(peers[<<remote[c], dir[c]>>])
    /\ MoveSlot(c)
    /\ mu' = NoConn
    /\ Goto(c, "redeemRename")
    /\ UNCHANGED <<pending, dialled, dir, remote, table, src, timer, parked, intime>>

\* The loop ends: the stream failed, a handler rejected the peer, or done was
\* closed by whoever took the slot.  The first step of unregisterPeer is Close.
EndLoop(c) ==
    /\ ~crashed
    /\ pc[c] = "read"
    /\ Goto(c, "unreg")
    /\ UNCHANGED <<peers, pending, mu, ident, done, table, src, timer, parked, crashed, intime>>

-----------------------------------------------------------------------------
(* unregisterPeer                                                          *)

UnregTest(c) ==
    /\ ~crashed
    /\ pc[c] = "unreg"
    /\ Goto(c, IF c \in done THEN "remove" ELSE "unregClose")
    /\ UNCHANGED <<peers, pending, mu, ident, done, table, src, timer, parked, crashed, intime>>

UnregClose(c) ==
    /\ ~crashed
    /\ pc[c] = "unregClose"
    /\ CloseDone(c)
    /\ Goto(c, "remove")
    /\ UNCHANGED <<peers, pending, mu, ident, table, src, timer, parked, intime>>

\* An unregisterPeer that looks for the name the peer was dialled under.
RemoveByDialledName(c) ==
    /\ ~crashed
    /\ pc[c] = "remove"
    /\ mu = NoConn
    /\ peers' = [peers EXCEPT ![<<dialled[c], dir[c]>>] = IF @ = c THEN NoConn ELSE @]
    /\ Goto(c, "gone")
    /\ UNCHANGED <<pending, mu, ident, done, table, src, timer, parked, crashed, intime>>

\* Under h.mu: leave the slot, if the slot is still ours.
Remove(c) ==
    LET held == {k \in Key : peers[k] = c}
    IN  /\ ~crashed
        /\ pc[c] = "remove"
        /\ mu = NoConn
        /\ peers' = [k \in Key |-> IF k \in held THEN NoConn ELSE peers[k]]
        /\ Goto(c, IF held = {} THEN "gone" ELSE "park")
        /\ UNCHANGED <<pending, mu, ident, done, table, src, timer, parked, crashed, intime>>

\* A schedulePendingCleanup that returns early when it retired an entry.
ParkNoRearm(c) ==
    LET k == KeyOf(c)
        old == pending[k]
        retired == IF old \in {NoConn, c} THEN {} ELSE {old}
    IN  /\ ~crashed
        /\ pc[c] = "park"
        /\ pending' = [pending EXCEPT ![k] = c]
        /\ table' = [x \in Conn |-> IF x \in retired THEN {} ELSE table[x]]
        /\ timer' = [x \in Conn |->
               IF x = c /\ retired = {} THEN "armed"
               ELSE IF x \in retired /\ timer[x] = "armed" THEN "off" ELSE timer[x]]
        /\ parked' = [parked EXCEPT ![c] = table[c]]
        /\ Goto(c, "gone")
        /\ UNCHANGED <<peers, mu, ident, done, src, crashed, intime>>

\* schedulePendingCleanup under pendingMu: an older entry at the key is
\* retired, its timer stopped and its table emptied.  (A peer is parked once,
\* so the entry is never its own and the early return is not taken.)
Park(c) ==
    LET k == KeyOf(c)
        old == pending[k]
        retired == IF old \in {NoConn, c} THEN {} ELSE {old}
    IN  /\ ~crashed
        /\ pc[c] = "park"
        /\ pending' = [pending EXCEPT ![k] = c]
        /\ table' = [x \in Conn |-> IF x \in retired THEN {} ELSE table[x]]
        /\ timer' = [x \in Conn |->
               IF x = c THEN "armed"
               ELSE IF x \in retired /\ timer[x] = "armed" THEN "off" ELSE timer[x]]
        /\ parked' = [parked EXCEPT ![c] = table[c]]
        /\ Goto(c, "gone")
        /\ UNCHANGED <<peers, mu, ident, done, src, crashed, intime>>

-----------------------------------------------------------------------------
(* The redemption timer of a parked peer                                   *)

TimerFire(c) ==
    /\ ~crashed
    /\ timer[c] = "armed"
    /\ timer' = [timer EXCEPT ![c] = "fired"]
    /\ UNCHANGED <<peers, pending, mu, pc, ident, done, table, src, parked, crashed, intime>>

\* A timer function with the comparison the wrong way round.
TimerDropOther(c) ==
    /\ ~crashed
    /\ timer[c] = "fired"
    /\ pending' = [pending EXCEPT ![KeyOf(c)] = IF @ # c THEN NoConn ELSE @]
    /\ timer' = [timer EXCEPT ![c] = "cleanup"]
    /\ UNCHANGED <<peers, mu, pc, ident, done, table, src, parked, crashed, intime>>

\* Under pendingMu: drop the entry if it is still this peer's.
TimerDrop(c) ==
    /\ ~crashed
    /\ timer[c] = "fired"
    /\ pending' = [pending EXCEPT ![KeyOf(c)] = IF @ = c THEN NoConn ELSE @]
    /\ timer' = [timer EXCEPT ![c] = "cleanup"]
    /\ UNCHANGED <<peers, mu, pc, ident, done, table, src, parked, crashed, intime>>

TimerCleanup(c) ==
    /\ ~crashed
    /\ timer[c] = "cleanup"
    /\ table' = [table EXCEPT ![c] = {}]
    /\ timer' = [timer EXCEPT ![c] = "ran"]
    /\ UNCHANGED <<peers, pending, mu, pc, ident, done, src, parked, crashed, intime>>

-----------------------------------------------------------------------------
\* The goroutine's own steps, apart from those the remote or the network
\* decides on.
Own(c) ==
    \/ Redeem(c) \/ AdoptPeerState(c) \/ RegisterPeer(c) \/ Evict(c) \/ EvictRename(c)
    \/ UnregTest(c) \/ UnregClose(c) \/ Remove(c) \/ Park(c)

Next ==
    \/ \E c \in Conn, r \in Remote : Accept(c, r)
    \/ \E c \in Conn, r \in Remote, n \in Name : Dial(c, r, n)
    \/ \E c \in Conn : Redeem(c)
    \/ \E c \in Conn : AdoptPeerState(c)
    \/ \E c \in Conn : RegisterPeer(c)
    \/ \E c \in Conn : Evict(c)
    \/ \E c \in Conn, i \in ISSI : ReadUpdate(c, i)
    \/ \E c \in Conn : ReadHello(c)
    \/ \E c \in Conn : EvictRename(c)
    \/ \E c \in Conn : EndLoop(c)
    \/ \E c \in Conn : UnregTest(c)
    \/ \E c \in Conn : UnregClose(c)
    \/ \E c \in Conn : Remove(c)
    \/ \E c \in Conn : Park(c)
    \/ \E c \in Conn : TimerFire(c)
    \/ \E c \in Conn : TimerDrop(c)
    \/ \E c \in Conn : TimerCleanup(c)

Spec == Init /\ [][Next]_vars

\* Goroutines run; Go's mutexes hand over to a waiter, so a step that waits
\* for h.mu is taken if the lock keeps becoming free.  A closed done channel
\* ends the read loop: its select picks at random among the ready cases, so
\* traffic cannot keep it out for ever.  Timers fire and their function runs.
Fairness ==
    \A c \in Conn :
        /\ SF_vars(Own(c))
        /\ SF_vars(c \in done /\ EndLoop(c))
        /\ WF_vars(TimerFire(c) \/ TimerDrop(c) \/ TimerCleanup(c))

FairSpec == Spec /\ Fairness

-----------------------------------------------------------------------------
(* Properties                                                              *)

\* A peer sits in the slot of its current name and direction, in no other,
\* and its goroutine is still there to take it out: no dead peer stays in
\* h.peers, where every broadcast would go to it (registerPeer, renamePeer,
\* unregisterPeer).
SlotsLive ==
    \A k \in Key : peers[k] # NoConn =>
        /\ k = KeyOf(peers[k])
        /\ pc[peers[k]] \in Live

\* Every parked table has a running redemption timer, belongs to a finished
\* goroutine and is not in use as a peer: it will be forgotten (schedule-
\* PendingCleanup, its timer function and redeemPending).
ParkedHasTimer ==
    \A k \in Key : pending[k] # NoConn =>
        /\ k = KeyOf(pending[k])
        /\ pc[pending[k]] = "gone"
        /\ timer[pending[k]] \in {"armed", "fired"}

\* The hub's two tables hold what goroutines and timers will take out again.
TablesSound == TypeOK /\ SlotsLive /\ ParkedHasTimer

\* A connection that redeems a parked peer before its timer fires gets the
\* whole table the peer was parked with (redeemPending: "kept %d ISSIs across
\* reconnect"), whatever timers and other connections do meanwhile.
RedeemedIntact ==
    \A c \in Conn : (src[c] # NoConn /\ c \in intime) =>
        table[src[c]] = parked[src[c]]

\* Peer.Close tests the done channel so as to close it once only.
ClosedOnce == ~crashed

\* A peer that was evicted (its done channel closed) ends up out of the table,
\* so that it stops feeding the handlers beside its replacement (readLoop's
\* comment on the audio-duplication bug).
EvictedLeaves ==
    \A c \in Conn : (c \in done) ~> (crashed \/ \A k \in Key : peers[k] # c)

\* A parked table is redeemed or forgotten: nothing stays parked for ever.
ParkedResolves ==
    \A c \in Conn : (\E k \in Key : pending[k] = c) ~> (crashed \/ \A k \in Key : pending[k] # c)
=============================================================================
