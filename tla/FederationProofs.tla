-------------------------- MODULE FederationProofs --------------------------
(***************************************************************************)
(* Proofs about the hub's registry of peers, for any number of connections,*)
(* remotes and labels; about a group call across servers that are joined   *)
(* without a loop, for any number of them and of transmissions; and about  *)
(* a private call, for any number of connections between the two servers.  *)
(***************************************************************************)
EXTENDS FederationParts, Integers, Sequences, SequenceTheorems, WellFoundedInduction, TLAPS

-----------------------------------------------------------------------------
(* The registry of peers                                                   *)

\* While a goroutine holds h.mu between testing and closing the peer it
\* replaces, that peer stays in its slot.
EvictReady ==
    \A c \in Conn :
        /\ goroutine[c] = "evict" => peers[Reg!KeyOf(c)] # NoConn
        /\ goroutine[c] = "evictRename" => peers[<<remote[c], dir[c]>>] # NoConn

\* A peer that is being adopted from is finished and nobody else's, and if it
\* was redeemed in time its timer never fires.
AdoptedApart ==
    \A c \in Conn : src[c] # NoConn =>
        /\ goroutine[src[c]] = "gone"
        /\ \A k \in Reg!Key : pending[k] # src[c]
        /\ \A d \in Conn : src[d] = src[c] => d = c
        /\ c \in intime => timer[src[c]] = "off"

\* A parked peer keeps its table until its timer has run.
ParkedKept ==
    \A k \in Reg!Key : pending[k] # NoConn => table[pending[k]] = parked[pending[k]]

\* The inductive invariant.
RegistryInv ==
    /\ Reg!TypeOK /\ EvictReady /\ Reg!SlotsLive /\ Reg!ParkedHasTimer
    /\ AdoptedApart /\ ParkedKept /\ Reg!RedeemedIntact

-----------------------------------------------------------------------------
(* What the longer steps do.                                               *)

\* The slot of a connection's name, and of its real name, is a slot.
LEMMA KeysTyped ==
    ASSUME Reg!TypeOK
    PROVE  /\ \A c \in Conn : Reg!KeyOf(c) \in Reg!Key /\ <<remote[c], dir[c]>> \in Reg!Key
           /\ \A k \in Reg!Key : peers[k] \in Conn \cup {NoConn} /\ pending[k] \in Conn \cup {NoConn}
BY DEF Reg!TypeOK, Reg!KeyOf, Reg!Key, Reg!Name

\* The key of a connection changes with its name and direction only.
LEMMA KeysKept ==
    ASSUME NEW c \in Conn, UNCHANGED <<label, dir>>
    PROVE  Reg!KeyOf(c)' = Reg!KeyOf(c)
BY DEF Reg!KeyOf

\* redeemPending finds nothing, or takes the entry and stops its timer.
LEMMA RedeemEffect ==
    ASSUME Reg!TypeOK, NEW c \in Conn, Reg!Redeem(c)
    PROVE  LET p == pending[Reg!KeyOf(c)] IN
           /\ UNCHANGED <<peers, mu, label, dialled, dir, remote, done, table, parked, aborted>>
           /\ \/ /\ p = NoConn
                 /\ UNCHANGED <<pending, src, timer, intime>>
                 /\ \/ goroutine[c] = "redeem" /\ goroutine' = [goroutine EXCEPT ![c] = "insert"]
                    \/ goroutine[c] = "redeemRename" /\ goroutine' = [goroutine EXCEPT ![c] = "read"]
              \/ /\ p \in Conn /\ p # NoConn
                 /\ pending' = [pending EXCEPT ![Reg!KeyOf(c)] = NoConn]
                 /\ src' = [src EXCEPT ![c] = p]
                 /\ timer' = [timer EXCEPT ![p] = IF timer[p] = "armed" THEN "off" ELSE timer[p]]
                 /\ intime' = IF timer[p] = "armed" THEN intime \cup {c} ELSE intime \ {c}
                 /\ \/ goroutine[c] = "redeem" /\ goroutine' = [goroutine EXCEPT ![c] = "adopt"]
                    \/ goroutine[c] = "redeemRename" /\ goroutine' = [goroutine EXCEPT ![c] = "adoptRename"]
<1>1. pending[Reg!KeyOf(c)] \in Conn \cup {NoConn}
  BY KeysTyped
<1> QED BY <1>1 DEF Reg!Redeem, Reg!TakePending, Reg!Goto, Reg!ident

\* registerPeer takes the slot, or the lock if it has a peer to close first.
LEMMA RegisterEffect ==
    ASSUME Reg!TypeOK, NEW c \in Conn, Reg!RegisterPeer(c)
    PROVE  /\ goroutine[c] = "insert" /\ mu = NoConn
           /\ UNCHANGED <<pending, label, dialled, dir, remote, done, table, src, timer, parked,
                          aborted, intime>>
           /\ \/ /\ peers[Reg!KeyOf(c)] # NoConn
                 /\ mu' = c /\ goroutine' = [goroutine EXCEPT ![c] = "evict"] /\ peers' = peers
              \/ /\ peers' = [peers EXCEPT ![Reg!KeyOf(c)] = c]
                 /\ goroutine' = [goroutine EXCEPT ![c] = "read"] /\ mu' = mu
BY DEF Reg!RegisterPeer, Reg!Goto, Reg!ident

\* renamePeer takes the lock to close another peer first, or moves the peer.
LEMMA RenameEffect ==
    ASSUME Reg!TypeOK, NEW c \in Conn, Reg!ReadHello(c) \/ Reg!EvictRename(c)
    PROVE  LET k == <<remote[c], dir[c]>> IN
           /\ UNCHANGED <<pending, dialled, dir, remote, table, src, timer, parked, intime>>
           /\ \/ /\ goroutine[c] = "read" /\ mu = NoConn /\ peers[k] # NoConn
                 /\ mu' = c /\ goroutine' = [goroutine EXCEPT ![c] = "evictRename"]
                 /\ UNCHANGED <<peers, label, done, aborted>>
              \/ /\ \/ goroutine[c] = "read" /\ mu = NoConn /\ UNCHANGED <<done, aborted>>
                    \/ /\ goroutine[c] = "evictRename"
                       /\ done' = done \cup {peers[k]}
                       /\ aborted' = (aborted \/ peers[k] \in done)
                 /\ mu' = NoConn
                 /\ goroutine' = [goroutine EXCEPT ![c] = "redeemRename"]
                 /\ peers' = [peers EXCEPT ![Reg!KeyOf(c)] = NoConn, ![k] = c]
                 /\ label' = [label EXCEPT ![c] = remote[c]]
BY DEF Reg!ReadHello, Reg!EvictRename, Reg!MoveSlot, Reg!CloseDone, Reg!Goto

\* A renamed peer gets the key of its real name; the others keep theirs.
LEMMA RenameKeys ==
    ASSUME Reg!TypeOK, NEW c \in Conn, label' = [label EXCEPT ![c] = remote[c]], dir' = dir
    PROVE  /\ Reg!KeyOf(c)' = <<remote[c], dir[c]>>
           /\ \A x \in Conn \ {c} : Reg!KeyOf(x)' = Reg!KeyOf(x)
BY DEF Reg!KeyOf, Reg!TypeOK

-----------------------------------------------------------------------------
\* Every step keeps the types; who closes a peer needs EvictReady to find one.
LEMMA TypeStep ==
    ASSUME Reg!RegistryConstants, Reg!TypeOK, EvictReady, [Reg!Next]_(Reg!vars)
    PROVE  Reg!TypeOK'
<1>1. ASSUME NEW c \in Conn, NEW r \in Remote, Reg!Accept(c, r) PROVE Reg!TypeOK'
  BY <1>1 DEF Reg!TypeOK, Reg!Dir, Reg!Name, Reg!PC, Reg!Accept, Reg!NewPeer, Reg!Goto
<1>2. ASSUME NEW c \in Conn, NEW r \in Remote, NEW n \in Reg!Name, Reg!Dial(c, r, n)
      PROVE Reg!TypeOK'
  BY <1>2 DEF Reg!TypeOK, Reg!Dir, Reg!Name, Reg!PC, Reg!Dial, Reg!NewPeer, Reg!Goto
<1>3. ASSUME NEW c \in Conn, Reg!Redeem(c) PROVE Reg!TypeOK'
  <2> DEFINE k0 == Reg!KeyOf(c)
             p == pending[k0]
  <2>1. k0 \in Reg!Key /\ p \in Conn \cup {NoConn}
    BY KeysTyped
  <2>2. CASE p = NoConn
    <3>1. /\ UNCHANGED <<peers, mu, label, dialled, dir, remote, done, table, parked, aborted>>
          /\ UNCHANGED <<pending, src, timer, intime>>
          /\ \/ goroutine[c] = "redeem" /\ goroutine' = [goroutine EXCEPT ![c] = "insert"]
             \/ goroutine[c] = "redeemRename" /\ goroutine' = [goroutine EXCEPT ![c] = "read"]
      BY <1>3, <2>2, RedeemEffect DEF Reg!RegistryConstants
    <3> QED BY <2>1, <2>2, <3>1 DEF Reg!TypeOK, Reg!PC, Reg!Live
  <2>3. CASE p # NoConn
    <3>1. /\ UNCHANGED <<peers, mu, label, dialled, dir, remote, done, table, parked, aborted>>
          /\ pending' = [pending EXCEPT ![k0] = NoConn]
          /\ src' = [src EXCEPT ![c] = p]
          /\ timer' = [timer EXCEPT ![p] = IF timer[p] = "armed" THEN "off" ELSE timer[p]]
          /\ intime' = IF timer[p] = "armed" THEN intime \cup {c} ELSE intime \ {c}
          /\ \/ goroutine[c] = "redeem" /\ goroutine' = [goroutine EXCEPT ![c] = "adopt"]
             \/ goroutine[c] = "redeemRename" /\ goroutine' = [goroutine EXCEPT ![c] = "adoptRename"]
      BY <1>3, <2>3, RedeemEffect
    <3>2. p \in Conn
      BY <2>1, <2>3
    <3> HIDE DEF p, k0
    <3> QED BY <2>1, <2>3, <3>1, <3>2 DEF Reg!TypeOK, Reg!PC, Reg!Live, Reg!RegistryConstants
  <2> QED BY <2>2, <2>3
<1>4. ASSUME NEW c \in Conn, Reg!AdoptPeerState(c) PROVE Reg!TypeOK'
  BY <1>4 DEF Reg!TypeOK, Reg!PC, Reg!Live, Reg!ident, Reg!AdoptPeerState, Reg!Goto
<1>5. ASSUME NEW c \in Conn, Reg!RegisterPeer(c) PROVE Reg!TypeOK'
  <2>1. Reg!KeyOf(c) \in Reg!Key
    BY KeysTyped
  <2> QED BY <1>5, <2>1, RegisterEffect DEF Reg!TypeOK, Reg!PC, Reg!Live, Reg!RegistryConstants
<1>6. ASSUME NEW c \in Conn, Reg!Evict(c) PROVE Reg!TypeOK'
  BY <1>6
     DEF Reg!RegistryConstants, Reg!TypeOK, EvictReady, Reg!KeyOf, Reg!Key, Reg!PC, Reg!Live,
         Reg!ident, Reg!Evict, Reg!CloseDone, Reg!Goto
<1>7. ASSUME NEW c \in Conn, NEW i \in Known, Reg!ReadUpdate(c, i) PROVE Reg!TypeOK'
  BY <1>7 DEF Reg!TypeOK, Reg!ident, Reg!ReadUpdate
<1>8. ASSUME NEW c \in Conn, Reg!ReadHello(c) PROVE Reg!TypeOK'
  <2> DEFINE k == <<remote[c], dir[c]>>
  <2>1. Reg!KeyOf(c) \in Reg!Key /\ k \in Reg!Key /\ peers[k] \in Conn \cup {NoConn}
    BY KeysTyped
  <2>2. CASE mu' = c
    <3>1. /\ goroutine[c] = "read" /\ mu = NoConn
          /\ goroutine' = [goroutine EXCEPT ![c] = "evictRename"]
          /\ UNCHANGED <<peers, label, done, aborted>>
          /\ UNCHANGED <<pending, dialled, dir, remote, table, src, timer, parked, intime>>
      BY <1>8, <2>2, RenameEffect DEF Reg!RegistryConstants
    <3> QED BY <2>1, <2>2, <3>1 DEF Reg!TypeOK, Reg!PC, Reg!Live, Reg!RegistryConstants
  <2>3. CASE mu' # c
    <3>1. /\ goroutine[c] \in {"read", "evictRename"} /\ (mu = NoConn \/ goroutine[c] = "evictRename")
          /\ mu' = NoConn
          /\ goroutine' = [goroutine EXCEPT ![c] = "redeemRename"]
          /\ peers' = [peers EXCEPT ![Reg!KeyOf(c)] = NoConn, ![k] = c]
          /\ label' = [label EXCEPT ![c] = remote[c]]
          /\ UNCHANGED <<pending, dialled, dir, remote, table, src, timer, parked, intime>>
      BY <1>8, <2>1, <2>3, RenameEffect DEF Reg!RegistryConstants, Reg!TypeOK, EvictReady
    <3>2. done' \subseteq Conn
      BY <1>8, <2>1, <2>3, RenameEffect DEF Reg!RegistryConstants, Reg!TypeOK, EvictReady
    <3>3. aborted' \in BOOLEAN
      <4>1. aborted' = aborted \/ aborted' = (aborted \/ peers[k] \in done)
        BY <1>8, RenameEffect
      <4> QED BY <4>1 DEF Reg!TypeOK
    <3> HIDE DEF k
    <3> QED
      BY <2>1, <2>3, <3>1, <3>2, <3>3
         DEF Reg!TypeOK, Reg!PC, Reg!Live, Reg!RegistryConstants, Reg!Name
  <2> QED BY <2>2, <2>3
<1>9. ASSUME NEW c \in Conn, Reg!EvictRename(c) PROVE Reg!TypeOK'
  <2> DEFINE k == <<remote[c], dir[c]>>
  <2>1. Reg!KeyOf(c) \in Reg!Key /\ k \in Reg!Key /\ peers[k] \in Conn \cup {NoConn}
    BY KeysTyped
  <2>2. CASE mu' = c
    <3>1. /\ goroutine[c] = "read" /\ mu = NoConn
          /\ goroutine' = [goroutine EXCEPT ![c] = "evictRename"]
          /\ UNCHANGED <<peers, label, done, aborted>>
          /\ UNCHANGED <<pending, dialled, dir, remote, table, src, timer, parked, intime>>
      BY <1>9, <2>2, RenameEffect DEF Reg!RegistryConstants
    <3> QED BY <2>1, <2>2, <3>1 DEF Reg!TypeOK, Reg!PC, Reg!Live, Reg!RegistryConstants
  <2>3. CASE mu' # c
    <3>1. /\ goroutine[c] \in {"read", "evictRename"} /\ (mu = NoConn \/ goroutine[c] = "evictRename")
          /\ mu' = NoConn
          /\ goroutine' = [goroutine EXCEPT ![c] = "redeemRename"]
          /\ peers' = [peers EXCEPT ![Reg!KeyOf(c)] = NoConn, ![k] = c]
          /\ label' = [label EXCEPT ![c] = remote[c]]
          /\ UNCHANGED <<pending, dialled, dir, remote, table, src, timer, parked, intime>>
      BY <1>9, <2>1, <2>3, RenameEffect DEF Reg!RegistryConstants, Reg!TypeOK, EvictReady
    <3>2. done' \subseteq Conn
      BY <1>9, <2>1, <2>3, RenameEffect DEF Reg!RegistryConstants, Reg!TypeOK, EvictReady
    <3>3. aborted' \in BOOLEAN
      <4>1. aborted' = aborted \/ aborted' = (aborted \/ peers[k] \in done)
        BY <1>9, RenameEffect
      <4> QED BY <4>1 DEF Reg!TypeOK
    <3> HIDE DEF k
    <3> QED
      BY <2>1, <2>3, <3>1, <3>2, <3>3
         DEF Reg!TypeOK, Reg!PC, Reg!Live, Reg!RegistryConstants, Reg!Name
  <2> QED BY <2>2, <2>3
<1>10. ASSUME NEW c \in Conn, Reg!EndLoop(c) PROVE Reg!TypeOK'
  BY <1>10 DEF Reg!TypeOK, Reg!PC, Reg!Live, Reg!ident, Reg!EndLoop, Reg!Goto
<1>11. ASSUME NEW c \in Conn, Reg!UnregTest(c) PROVE Reg!TypeOK'
  BY <1>11 DEF Reg!TypeOK, Reg!PC, Reg!Live, Reg!ident, Reg!UnregTest, Reg!Goto
<1>12. ASSUME NEW c \in Conn, Reg!UnregClose(c) PROVE Reg!TypeOK'
  BY <1>12 DEF Reg!TypeOK, Reg!PC, Reg!Live, Reg!ident, Reg!UnregClose, Reg!CloseDone, Reg!Goto
<1>13. ASSUME NEW c \in Conn, Reg!Remove(c) PROVE Reg!TypeOK'
  BY <1>13 DEF Reg!TypeOK, Reg!PC, Reg!ident, Reg!Remove, Reg!Goto
<1>14. ASSUME NEW c \in Conn, Reg!Park(c) PROVE Reg!TypeOK'
  BY <1>14 DEF Reg!TypeOK, Reg!PC, Reg!ident, Reg!Park, Reg!Goto
<1>15. ASSUME NEW c \in Conn, Reg!TimerFire(c) PROVE Reg!TypeOK'
  BY <1>15 DEF Reg!TypeOK, Reg!ident, Reg!TimerFire
<1>16. ASSUME NEW c \in Conn, Reg!TimerDrop(c) PROVE Reg!TypeOK'
  BY <1>16 DEF Reg!TypeOK, Reg!ident, Reg!TimerDrop
<1>17. ASSUME NEW c \in Conn, Reg!TimerCleanup(c) PROVE Reg!TypeOK'
  BY <1>17 DEF Reg!TypeOK, Reg!ident, Reg!TimerCleanup
<1>18. CASE UNCHANGED Reg!vars
  BY <1>18 DEF Reg!TypeOK, Reg!ident, Reg!vars
<1> QED
  BY <1>1, <1>2, <1>3, <1>4, <1>5, <1>6, <1>7, <1>8, <1>9, <1>10, <1>11, <1>12, <1>13, <1>14, <1>15,
     <1>16, <1>17, <1>18
     DEF Reg!Next

\* Every step keeps peers in the slot of their name, with a goroutine to take them out.
LEMMA SlotsStep ==
    ASSUME Reg!RegistryConstants, Reg!TypeOK, Reg!TypeOK', Reg!SlotsLive, [Reg!Next]_(Reg!vars)
    PROVE  Reg!SlotsLive'
<1>1. ASSUME NEW c \in Conn, NEW r \in Remote, Reg!Accept(c, r) PROVE Reg!SlotsLive'
  BY <1>1 DEF Reg!SlotsLive, Reg!KeyOf, Reg!Key, Reg!Live, Reg!Accept, Reg!NewPeer, Reg!Goto
<1>2. ASSUME NEW c \in Conn, NEW r \in Remote, NEW n \in Reg!Name, Reg!Dial(c, r, n)
      PROVE Reg!SlotsLive'
  BY <1>2 DEF Reg!SlotsLive, Reg!KeyOf, Reg!Key, Reg!Live, Reg!Dial, Reg!NewPeer, Reg!Goto
<1>3. ASSUME NEW c \in Conn, Reg!Redeem(c) PROVE Reg!SlotsLive'
  BY <1>3
     DEF Reg!TypeOK, Reg!SlotsLive, Reg!KeyOf, Reg!Key, Reg!Live, Reg!ident, Reg!Redeem,
         Reg!TakePending, Reg!Goto
<1>4. ASSUME NEW c \in Conn, Reg!AdoptPeerState(c) PROVE Reg!SlotsLive'
  BY <1>4 DEF Reg!SlotsLive, Reg!KeyOf, Reg!Key, Reg!Live, Reg!ident, Reg!AdoptPeerState, Reg!Goto
<1>5. ASSUME NEW c \in Conn, Reg!RegisterPeer(c) PROVE Reg!SlotsLive'
  BY <1>5
     DEF Reg!TypeOK, Reg!SlotsLive, Reg!KeyOf, Reg!Key, Reg!Dir, Reg!Name, Reg!Live, Reg!ident,
         Reg!RegisterPeer, Reg!Goto
<1>6. ASSUME NEW c \in Conn, Reg!Evict(c) PROVE Reg!SlotsLive'
  BY <1>6 DEF Reg!TypeOK, Reg!SlotsLive, Reg!KeyOf, Reg!Key, Reg!PC, Reg!ident, Reg!Evict, Reg!Goto
<1>7. ASSUME NEW c \in Conn, NEW i \in Known, Reg!ReadUpdate(c, i) PROVE Reg!SlotsLive'
  BY <1>7 DEF Reg!SlotsLive, Reg!KeyOf, Reg!Key, Reg!ident, Reg!ReadUpdate
<1>8. ASSUME NEW c \in Conn, Reg!ReadHello(c) PROVE Reg!SlotsLive'
  <2> DEFINE k == <<remote[c], dir[c]>>
  <2>1. Reg!KeyOf(c) \in Reg!Key /\ k \in Reg!Key /\ peers[k] \in Conn \cup {NoConn}
    BY KeysTyped
  <2>2. CASE mu' = c
    <3>1. /\ goroutine[c] = "read" /\ mu = NoConn
          /\ goroutine' = [goroutine EXCEPT ![c] = "evictRename"]
          /\ UNCHANGED <<peers, label, done, aborted>>
          /\ UNCHANGED <<pending, dialled, dir, remote, table, src, timer, parked, intime>>
      BY <1>8, <2>2, RenameEffect DEF Reg!RegistryConstants
    <3>2. \A x \in Conn : Reg!KeyOf(x)' = Reg!KeyOf(x)
      BY <3>1, KeysKept
    <3> QED BY <2>1, <2>2, <3>1, <3>2 DEF Reg!SlotsLive, Reg!TypeOK, Reg!Live, Reg!RegistryConstants
  <2>3. CASE mu' # c
    <3>1. /\ goroutine[c] \in {"read", "evictRename"} /\ (mu = NoConn \/ goroutine[c] = "evictRename")
          /\ mu' = NoConn
          /\ goroutine' = [goroutine EXCEPT ![c] = "redeemRename"]
          /\ peers' = [peers EXCEPT ![Reg!KeyOf(c)] = NoConn, ![k] = c]
          /\ label' = [label EXCEPT ![c] = remote[c]]
          /\ UNCHANGED <<pending, dialled, dir, remote, table, src, timer, parked, intime>>
      BY <1>8, <2>1, <2>3, RenameEffect DEF Reg!RegistryConstants, Reg!TypeOK
    <3>2. Reg!KeyOf(c)' = k /\ \A x \in Conn \ {c} : Reg!KeyOf(x)' = Reg!KeyOf(x)
      BY <3>1, RenameKeys
    <3> HIDE DEF k
    <3> QED BY <2>1, <2>3, <3>1, <3>2 DEF Reg!SlotsLive, Reg!TypeOK, Reg!Live, Reg!RegistryConstants
  <2> QED BY <2>2, <2>3
<1>9. ASSUME NEW c \in Conn, Reg!EvictRename(c) PROVE Reg!SlotsLive'
  <2> DEFINE k == <<remote[c], dir[c]>>
  <2>1. Reg!KeyOf(c) \in Reg!Key /\ k \in Reg!Key /\ peers[k] \in Conn \cup {NoConn}
    BY KeysTyped
  <2>2. CASE mu' = c
    <3>1. /\ goroutine[c] = "read" /\ mu = NoConn
          /\ goroutine' = [goroutine EXCEPT ![c] = "evictRename"]
          /\ UNCHANGED <<peers, label, done, aborted>>
          /\ UNCHANGED <<pending, dialled, dir, remote, table, src, timer, parked, intime>>
      BY <1>9, <2>2, RenameEffect DEF Reg!RegistryConstants
    <3>2. \A x \in Conn : Reg!KeyOf(x)' = Reg!KeyOf(x)
      BY <3>1, KeysKept
    <3> QED BY <2>1, <2>2, <3>1, <3>2 DEF Reg!SlotsLive, Reg!TypeOK, Reg!Live, Reg!RegistryConstants
  <2>3. CASE mu' # c
    <3>1. /\ goroutine[c] \in {"read", "evictRename"} /\ (mu = NoConn \/ goroutine[c] = "evictRename")
          /\ mu' = NoConn
          /\ goroutine' = [goroutine EXCEPT ![c] = "redeemRename"]
          /\ peers' = [peers EXCEPT ![Reg!KeyOf(c)] = NoConn, ![k] = c]
          /\ label' = [label EXCEPT ![c] = remote[c]]
          /\ UNCHANGED <<pending, dialled, dir, remote, table, src, timer, parked, intime>>
      BY <1>9, <2>1, <2>3, RenameEffect DEF Reg!RegistryConstants, Reg!TypeOK
    <3>2. Reg!KeyOf(c)' = k /\ \A x \in Conn \ {c} : Reg!KeyOf(x)' = Reg!KeyOf(x)
      BY <3>1, RenameKeys
    <3> HIDE DEF k
    <3> QED BY <2>1, <2>3, <3>1, <3>2 DEF Reg!SlotsLive, Reg!TypeOK, Reg!Live, Reg!RegistryConstants
  <2> QED BY <2>2, <2>3
<1>10. ASSUME NEW c \in Conn, Reg!EndLoop(c) PROVE Reg!SlotsLive'
  BY <1>10
     DEF Reg!TypeOK, Reg!SlotsLive, Reg!KeyOf, Reg!Key, Reg!PC, Reg!ident, Reg!EndLoop, Reg!Goto
<1>11. ASSUME NEW c \in Conn, Reg!UnregTest(c) PROVE Reg!SlotsLive'
  BY <1>11
     DEF Reg!TypeOK, Reg!SlotsLive, Reg!KeyOf, Reg!Key, Reg!PC, Reg!ident, Reg!UnregTest, Reg!Goto
<1>12. ASSUME NEW c \in Conn, Reg!UnregClose(c) PROVE Reg!SlotsLive'
  BY <1>12
     DEF Reg!TypeOK, Reg!SlotsLive, Reg!KeyOf, Reg!Key, Reg!PC, Reg!ident, Reg!UnregClose, Reg!Goto
<1>13. ASSUME NEW c \in Conn, Reg!Remove(c) PROVE Reg!SlotsLive'
  BY <1>13 DEF Reg!SlotsLive, Reg!KeyOf, Reg!Key, Reg!ident, Reg!Remove, Reg!Goto
<1>14. ASSUME NEW c \in Conn, Reg!Park(c) PROVE Reg!SlotsLive'
  BY <1>14 DEF Reg!SlotsLive, Reg!KeyOf, Reg!Key, Reg!Live, Reg!ident, Reg!Park, Reg!Goto
<1>15. ASSUME NEW c \in Conn, Reg!TimerFire(c) PROVE Reg!SlotsLive'
  BY <1>15 DEF Reg!SlotsLive, Reg!KeyOf, Reg!Key, Reg!ident, Reg!TimerFire
<1>16. ASSUME NEW c \in Conn, Reg!TimerDrop(c) PROVE Reg!SlotsLive'
  BY <1>16 DEF Reg!SlotsLive, Reg!KeyOf, Reg!Key, Reg!ident, Reg!TimerDrop
<1>17. ASSUME NEW c \in Conn, Reg!TimerCleanup(c) PROVE Reg!SlotsLive'
  BY <1>17 DEF Reg!SlotsLive, Reg!KeyOf, Reg!Key, Reg!ident, Reg!TimerCleanup
<1>18. CASE UNCHANGED Reg!vars
  BY <1>18 DEF Reg!SlotsLive, Reg!KeyOf, Reg!Key, Reg!ident, Reg!vars
<1> QED
  BY <1>1, <1>2, <1>3, <1>4, <1>5, <1>6, <1>7, <1>8, <1>9, <1>10, <1>11, <1>12, <1>13, <1>14, <1>15,
     <1>16, <1>17, <1>18
     DEF Reg!Next

\* Every step keeps the peer that is to be closed in its slot: h.mu is held.
LEMMA ReadyStep ==
    ASSUME Reg!RegistryConstants, Reg!TypeOK, Reg!TypeOK', EvictReady, [Reg!Next]_(Reg!vars)
    PROVE  EvictReady'
<1>1. ASSUME NEW c \in Conn, NEW r \in Remote, Reg!Accept(c, r) PROVE EvictReady'
  BY <1>1 DEF EvictReady, Reg!KeyOf, Reg!Key, Reg!Accept, Reg!NewPeer, Reg!Goto
<1>2. ASSUME NEW c \in Conn, NEW r \in Remote, NEW n \in Reg!Name, Reg!Dial(c, r, n)
      PROVE EvictReady'
  BY <1>2 DEF EvictReady, Reg!KeyOf, Reg!Key, Reg!Dial, Reg!NewPeer, Reg!Goto
<1>3. ASSUME NEW c \in Conn, Reg!Redeem(c) PROVE EvictReady'
  BY <1>3
     DEF Reg!TypeOK, EvictReady, Reg!KeyOf, Reg!Key, Reg!ident, Reg!Redeem, Reg!TakePending,
         Reg!Goto
<1>4. ASSUME NEW c \in Conn, Reg!AdoptPeerState(c) PROVE EvictReady'
  BY <1>4 DEF EvictReady, Reg!KeyOf, Reg!Key, Reg!ident, Reg!AdoptPeerState, Reg!Goto
<1>5. ASSUME NEW c \in Conn, Reg!RegisterPeer(c) PROVE EvictReady'
  <2>1. \A x \in Conn : Reg!KeyOf(x)' = Reg!KeyOf(x)
    BY <1>5, RegisterEffect, KeysKept
  <2>2. \A x \in Conn \ {c} : goroutine[x] \notin {"evict", "evictRename"}
    BY <1>5, RegisterEffect DEF Reg!TypeOK, Reg!RegistryConstants
  <2> QED BY <1>5, <2>1, <2>2, RegisterEffect DEF EvictReady, Reg!TypeOK
<1>6. ASSUME NEW c \in Conn, Reg!Evict(c) PROVE EvictReady'
  BY <1>6 DEF Reg!TypeOK, EvictReady, Reg!Evict, Reg!Goto
<1>7. ASSUME NEW c \in Conn, NEW i \in Known, Reg!ReadUpdate(c, i) PROVE EvictReady'
  BY <1>7 DEF EvictReady, Reg!KeyOf, Reg!Key, Reg!ident, Reg!ReadUpdate
<1>8. ASSUME NEW c \in Conn, Reg!ReadHello(c) PROVE EvictReady'
  BY <1>8 DEF Reg!RegistryConstants, Reg!TypeOK, EvictReady, Reg!ReadHello, Reg!Goto
<1>9. ASSUME NEW c \in Conn, Reg!EvictRename(c) PROVE EvictReady'
  BY <1>9 DEF Reg!TypeOK, EvictReady, Reg!EvictRename, Reg!Goto
<1>10. ASSUME NEW c \in Conn, Reg!EndLoop(c) PROVE EvictReady'
  BY <1>10 DEF EvictReady, Reg!KeyOf, Reg!Key, Reg!ident, Reg!EndLoop, Reg!Goto
<1>11. ASSUME NEW c \in Conn, Reg!UnregTest(c) PROVE EvictReady'
  BY <1>11 DEF EvictReady, Reg!KeyOf, Reg!Key, Reg!ident, Reg!UnregTest, Reg!Goto
<1>12. ASSUME NEW c \in Conn, Reg!UnregClose(c) PROVE EvictReady'
  BY <1>12 DEF EvictReady, Reg!KeyOf, Reg!Key, Reg!ident, Reg!UnregClose, Reg!Goto
<1>13. ASSUME NEW c \in Conn, Reg!Remove(c) PROVE EvictReady'
  BY <1>13 DEF Reg!RegistryConstants, Reg!TypeOK, EvictReady, Reg!Remove
<1>14. ASSUME NEW c \in Conn, Reg!Park(c) PROVE EvictReady'
  BY <1>14 DEF EvictReady, Reg!KeyOf, Reg!Key, Reg!ident, Reg!Park, Reg!Goto
<1>15. ASSUME NEW c \in Conn, Reg!TimerFire(c) PROVE EvictReady'
  BY <1>15 DEF EvictReady, Reg!KeyOf, Reg!Key, Reg!ident, Reg!TimerFire
<1>16. ASSUME NEW c \in Conn, Reg!TimerDrop(c) PROVE EvictReady'
  BY <1>16 DEF EvictReady, Reg!KeyOf, Reg!Key, Reg!ident, Reg!TimerDrop
<1>17. ASSUME NEW c \in Conn, Reg!TimerCleanup(c) PROVE EvictReady'
  BY <1>17 DEF EvictReady, Reg!KeyOf, Reg!Key, Reg!ident, Reg!TimerCleanup
<1>18. CASE UNCHANGED Reg!vars
  BY <1>18 DEF EvictReady, Reg!KeyOf, Reg!Key, Reg!ident, Reg!vars
<1> QED
  BY <1>1, <1>2, <1>3, <1>4, <1>5, <1>6, <1>7, <1>8, <1>9, <1>10, <1>11, <1>12, <1>13, <1>14, <1>15,
     <1>16, <1>17, <1>18
     DEF Reg!Next

\* Every step keeps parked peers with a timer, under their own key.
LEMMA ParkedStep ==
    ASSUME Reg!RegistryConstants, Reg!TypeOK, Reg!TypeOK', Reg!ParkedHasTimer, [Reg!Next]_(Reg!vars)
    PROVE  Reg!ParkedHasTimer'
<1>1. ASSUME NEW c \in Conn, NEW r \in Remote, Reg!Accept(c, r) PROVE Reg!ParkedHasTimer'
  BY <1>1 DEF Reg!ParkedHasTimer, Reg!KeyOf, Reg!Key, Reg!Accept, Reg!NewPeer, Reg!Goto
<1>2. ASSUME NEW c \in Conn, NEW r \in Remote, NEW n \in Reg!Name, Reg!Dial(c, r, n)
      PROVE Reg!ParkedHasTimer'
  BY <1>2 DEF Reg!ParkedHasTimer, Reg!KeyOf, Reg!Key, Reg!Dial, Reg!NewPeer, Reg!Goto
<1>3. ASSUME NEW c \in Conn, Reg!Redeem(c) PROVE Reg!ParkedHasTimer'
  <2> DEFINE k0 == Reg!KeyOf(c)
             p == pending[k0]
  <2>1. k0 \in Reg!Key /\ p \in Conn \cup {NoConn}
    BY KeysTyped
  <2>4. \A x \in Conn : Reg!KeyOf(x)' = Reg!KeyOf(x)
    BY <1>3, RedeemEffect, KeysKept
  <2>2. CASE p = NoConn
    <3>1. /\ UNCHANGED <<peers, mu, label, dialled, dir, remote, done, table, parked, aborted>>
          /\ UNCHANGED <<pending, src, timer, intime>>
          /\ \/ goroutine[c] = "redeem" /\ goroutine' = [goroutine EXCEPT ![c] = "insert"]
             \/ goroutine[c] = "redeemRename" /\ goroutine' = [goroutine EXCEPT ![c] = "read"]
      BY <1>3, <2>2, RedeemEffect DEF Reg!RegistryConstants
    <3> QED BY <2>1, <2>2, <2>4, <3>1 DEF Reg!ParkedHasTimer, Reg!TypeOK, Reg!RegistryConstants
  <2>3. CASE p # NoConn
    <3>1. /\ UNCHANGED <<peers, mu, label, dialled, dir, remote, done, table, parked, aborted>>
          /\ pending' = [pending EXCEPT ![k0] = NoConn]
          /\ src' = [src EXCEPT ![c] = p]
          /\ timer' = [timer EXCEPT ![p] = IF timer[p] = "armed" THEN "off" ELSE timer[p]]
          /\ intime' = IF timer[p] = "armed" THEN intime \cup {c} ELSE intime \ {c}
          /\ \/ goroutine[c] = "redeem" /\ goroutine' = [goroutine EXCEPT ![c] = "adopt"]
             \/ goroutine[c] = "redeemRename" /\ goroutine' = [goroutine EXCEPT ![c] = "adoptRename"]
      BY <1>3, <2>3, RedeemEffect
    <3>2. p \in Conn
      BY <2>1, <2>3
    <3>3. \A k \in Reg!Key : pending[k] = p => k = k0
      BY <2>1, <2>3 DEF Reg!ParkedHasTimer
    <3> HIDE DEF p, k0
    <3> QED
      BY <2>1, <2>3, <2>4, <3>1, <3>2, <3>3
         DEF Reg!ParkedHasTimer, Reg!TypeOK, Reg!RegistryConstants
  <2> QED BY <2>2, <2>3
<1>4. ASSUME NEW c \in Conn, Reg!AdoptPeerState(c) PROVE Reg!ParkedHasTimer'
  BY <1>4 DEF Reg!ParkedHasTimer, Reg!KeyOf, Reg!Key, Reg!ident, Reg!AdoptPeerState, Reg!Goto
<1>5. ASSUME NEW c \in Conn, Reg!RegisterPeer(c) PROVE Reg!ParkedHasTimer'
  BY <1>5
     DEF Reg!TypeOK, Reg!ParkedHasTimer, Reg!KeyOf, Reg!Key, Reg!ident, Reg!RegisterPeer, Reg!Goto
<1>6. ASSUME NEW c \in Conn, Reg!Evict(c) PROVE Reg!ParkedHasTimer'
  BY <1>6 DEF Reg!ParkedHasTimer, Reg!KeyOf, Reg!Key, Reg!ident, Reg!Evict, Reg!Goto
<1>7. ASSUME NEW c \in Conn, NEW i \in Known, Reg!ReadUpdate(c, i) PROVE Reg!ParkedHasTimer'
  BY <1>7 DEF Reg!ParkedHasTimer, Reg!KeyOf, Reg!Key, Reg!ident, Reg!ReadUpdate
<1>8. ASSUME NEW c \in Conn, Reg!ReadHello(c) PROVE Reg!ParkedHasTimer'
  BY <1>8
     DEF Reg!TypeOK, Reg!ParkedHasTimer, Reg!KeyOf, Reg!Key, Reg!ReadHello, Reg!MoveSlot, Reg!Goto
<1>9. ASSUME NEW c \in Conn, Reg!EvictRename(c) PROVE Reg!ParkedHasTimer'
  BY <1>9 DEF Reg!ParkedHasTimer, Reg!KeyOf, Reg!Key, Reg!EvictRename, Reg!MoveSlot, Reg!Goto
<1>10. ASSUME NEW c \in Conn, Reg!EndLoop(c) PROVE Reg!ParkedHasTimer'
  BY <1>10 DEF Reg!ParkedHasTimer, Reg!KeyOf, Reg!Key, Reg!ident, Reg!EndLoop, Reg!Goto
<1>11. ASSUME NEW c \in Conn, Reg!UnregTest(c) PROVE Reg!ParkedHasTimer'
  BY <1>11 DEF Reg!ParkedHasTimer, Reg!KeyOf, Reg!Key, Reg!ident, Reg!UnregTest, Reg!Goto
<1>12. ASSUME NEW c \in Conn, Reg!UnregClose(c) PROVE Reg!ParkedHasTimer'
  BY <1>12 DEF Reg!ParkedHasTimer, Reg!KeyOf, Reg!Key, Reg!ident, Reg!UnregClose, Reg!Goto
<1>13. ASSUME NEW c \in Conn, Reg!Remove(c) PROVE Reg!ParkedHasTimer'
  BY <1>13 DEF Reg!ParkedHasTimer, Reg!KeyOf, Reg!Key, Reg!ident, Reg!Remove, Reg!Goto
<1>14. ASSUME NEW c \in Conn, Reg!Park(c) PROVE Reg!ParkedHasTimer'
  BY <1>14 DEF Reg!TypeOK, Reg!ParkedHasTimer, Reg!KeyOf, Reg!Key, Reg!ident, Reg!Park, Reg!Goto
<1>15. ASSUME NEW c \in Conn, Reg!TimerFire(c) PROVE Reg!ParkedHasTimer'
  BY <1>15 DEF Reg!ParkedHasTimer, Reg!KeyOf, Reg!Key, Reg!ident, Reg!TimerFire
<1>16. ASSUME NEW c \in Conn, Reg!TimerDrop(c) PROVE Reg!ParkedHasTimer'
  BY <1>16 DEF Reg!TypeOK, Reg!ParkedHasTimer, Reg!KeyOf, Reg!Key, Reg!ident, Reg!TimerDrop
<1>17. ASSUME NEW c \in Conn, Reg!TimerCleanup(c) PROVE Reg!ParkedHasTimer'
  BY <1>17 DEF Reg!ParkedHasTimer, Reg!KeyOf, Reg!Key, Reg!ident, Reg!TimerCleanup
<1>18. CASE UNCHANGED Reg!vars
  BY <1>18 DEF Reg!ParkedHasTimer, Reg!KeyOf, Reg!Key, Reg!ident, Reg!vars
<1> QED
  BY <1>1, <1>2, <1>3, <1>4, <1>5, <1>6, <1>7, <1>8, <1>9, <1>10, <1>11, <1>12, <1>13, <1>14, <1>15,
     <1>16, <1>17, <1>18
     DEF Reg!Next

\* Every step keeps adopted peers apart from parked ones and from each other.
LEMMA AdoptedStep ==
    ASSUME Reg!RegistryConstants, Reg!TypeOK, Reg!TypeOK', Reg!ParkedHasTimer, AdoptedApart,
           [Reg!Next]_(Reg!vars)
    PROVE  AdoptedApart'
<1>1. ASSUME NEW c \in Conn, NEW r \in Remote, Reg!Accept(c, r) PROVE AdoptedApart'
  BY <1>1 DEF AdoptedApart, Reg!Accept, Reg!NewPeer, Reg!Goto
<1>2. ASSUME NEW c \in Conn, NEW r \in Remote, NEW n \in Reg!Name, Reg!Dial(c, r, n)
      PROVE AdoptedApart'
  BY <1>2 DEF AdoptedApart, Reg!Dial, Reg!NewPeer, Reg!Goto
<1>3. ASSUME NEW c \in Conn, Reg!Redeem(c) PROVE AdoptedApart'
  <2> DEFINE k0 == Reg!KeyOf(c)
             p == pending[k0]
  <2>1. k0 \in Reg!Key /\ p \in Conn \cup {NoConn}
    BY KeysTyped
  <2>2. CASE p = NoConn
    <3>1. /\ UNCHANGED <<peers, mu, label, dialled, dir, remote, done, table, parked, aborted>>
          /\ UNCHANGED <<pending, src, timer, intime>>
          /\ \/ goroutine[c] = "redeem" /\ goroutine' = [goroutine EXCEPT ![c] = "insert"]
             \/ goroutine[c] = "redeemRename" /\ goroutine' = [goroutine EXCEPT ![c] = "read"]
      BY <1>3, <2>2, RedeemEffect DEF Reg!RegistryConstants
    <3> QED BY <2>1, <2>2, <3>1 DEF AdoptedApart, Reg!TypeOK
  <2>3. CASE p # NoConn
    <3>1. /\ UNCHANGED <<peers, mu, label, dialled, dir, remote, done, table, parked, aborted>>
          /\ pending' = [pending EXCEPT ![k0] = NoConn]
          /\ src' = [src EXCEPT ![c] = p]
          /\ timer' = [timer EXCEPT ![p] = IF timer[p] = "armed" THEN "off" ELSE timer[p]]
          /\ intime' = IF timer[p] = "armed" THEN intime \cup {c} ELSE intime \ {c}
          /\ \/ goroutine[c] = "redeem" /\ goroutine' = [goroutine EXCEPT ![c] = "adopt"]
             \/ goroutine[c] = "redeemRename" /\ goroutine' = [goroutine EXCEPT ![c] = "adoptRename"]
      BY <1>3, <2>3, RedeemEffect
    <3>2. p \in Conn
      BY <2>1, <2>3
    <3>3. /\ p # c /\ goroutine[p] = "gone"
          /\ \A k \in Reg!Key : pending[k] = p => k = k0
          /\ \A d \in Conn : src[d] # p
      BY <2>1, <2>3, <3>1 DEF Reg!ParkedHasTimer, AdoptedApart
    <3> HIDE DEF p, k0
    <3>4. /\ src'[c] = p /\ goroutine'[p] = "gone"
          /\ \A k \in Reg!Key : pending'[k] # p
          /\ \A e \in Conn : src'[e] = p => e = c
          /\ c \in intime' => timer'[p] = "off"
      BY <2>1, <2>3, <3>1, <3>2, <3>3 DEF Reg!TypeOK
    <3>5. ASSUME NEW d \in Conn, d # c, src'[d] # NoConn
          PROVE  /\ src'[d] = src[d] /\ goroutine'[src[d]] = "gone"
                 /\ \A k \in Reg!Key : pending'[k] # src[d]
                 /\ \A e \in Conn : src'[e] = src[d] => e = d
                 /\ d \in intime' => timer'[src[d]] = "off"
      <4>1. src'[d] = src[d] /\ src[d] # p /\ src[d] \in Conn
        BY <3>1, <3>3, <3>5 DEF Reg!TypeOK
      <4>2. /\ goroutine[src[d]] = "gone" /\ \A k \in Reg!Key : pending[k] # src[d]
            /\ \A e \in Conn : src[e] = src[d] => e = d
            /\ d \in intime => timer[src[d]] = "off"
        BY <3>5, <4>1 DEF AdoptedApart
      <4> QED BY <2>1, <3>1, <3>2, <3>5, <4>1, <4>2 DEF Reg!TypeOK
    <3> QED BY <3>4, <3>5 DEF AdoptedApart
  <2> QED BY <2>2, <2>3
<1>4. ASSUME NEW c \in Conn, Reg!AdoptPeerState(c) PROVE AdoptedApart'
  BY <1>4 DEF AdoptedApart, Reg!AdoptPeerState, Reg!Goto
<1>5. ASSUME NEW c \in Conn, Reg!RegisterPeer(c) PROVE AdoptedApart'
  BY <1>5 DEF Reg!TypeOK, AdoptedApart, Reg!RegisterPeer, Reg!Goto
<1>6. ASSUME NEW c \in Conn, Reg!Evict(c) PROVE AdoptedApart'
  BY <1>6 DEF AdoptedApart, Reg!Evict, Reg!Goto
<1>7. ASSUME NEW c \in Conn, NEW i \in Known, Reg!ReadUpdate(c, i) PROVE AdoptedApart'
  BY <1>7 DEF AdoptedApart, Reg!ReadUpdate
<1>8. ASSUME NEW c \in Conn, Reg!ReadHello(c) PROVE AdoptedApart'
  BY <1>8 DEF Reg!TypeOK, AdoptedApart, Reg!ReadHello, Reg!Goto
<1>9. ASSUME NEW c \in Conn, Reg!EvictRename(c) PROVE AdoptedApart'
  BY <1>9 DEF AdoptedApart, Reg!EvictRename, Reg!Goto
<1>10. ASSUME NEW c \in Conn, Reg!EndLoop(c) PROVE AdoptedApart'
  BY <1>10 DEF AdoptedApart, Reg!EndLoop, Reg!Goto
<1>11. ASSUME NEW c \in Conn, Reg!UnregTest(c) PROVE AdoptedApart'
  BY <1>11 DEF AdoptedApart, Reg!UnregTest, Reg!Goto
<1>12. ASSUME NEW c \in Conn, Reg!UnregClose(c) PROVE AdoptedApart'
  BY <1>12 DEF AdoptedApart, Reg!UnregClose, Reg!Goto
<1>13. ASSUME NEW c \in Conn, Reg!Remove(c) PROVE AdoptedApart'
  BY <1>13 DEF AdoptedApart, Reg!Remove, Reg!Goto
<1>14. ASSUME NEW c \in Conn, Reg!Park(c) PROVE AdoptedApart'
  BY <1>14 DEF Reg!TypeOK, AdoptedApart, Reg!Park, Reg!Goto
<1>15. ASSUME NEW c \in Conn, Reg!TimerFire(c) PROVE AdoptedApart'
  BY <1>15 DEF AdoptedApart, Reg!TimerFire
<1>16. ASSUME NEW c \in Conn, Reg!TimerDrop(c) PROVE AdoptedApart'
  BY <1>16 DEF AdoptedApart, Reg!TimerDrop
<1>17. ASSUME NEW c \in Conn, Reg!TimerCleanup(c) PROVE AdoptedApart'
  BY <1>17 DEF AdoptedApart, Reg!TimerCleanup
<1>18. CASE UNCHANGED Reg!vars
  BY <1>18 DEF AdoptedApart, Reg!vars
<1> QED
  BY <1>1, <1>2, <1>3, <1>4, <1>5, <1>6, <1>7, <1>8, <1>9, <1>10, <1>11, <1>12, <1>13, <1>14, <1>15,
     <1>16, <1>17, <1>18
     DEF Reg!Next

\* Every step leaves the tables of parked peers alone.
LEMMA KeptStep ==
    ASSUME Reg!RegistryConstants, Reg!TypeOK, Reg!TypeOK', Reg!ParkedHasTimer, AdoptedApart,
           ParkedKept, [Reg!Next]_(Reg!vars)
    PROVE  ParkedKept'
<1>1. ASSUME NEW c \in Conn, NEW r \in Remote, Reg!Accept(c, r) PROVE ParkedKept'
  BY <1>1 DEF ParkedKept, Reg!Accept, Reg!NewPeer
<1>2. ASSUME NEW c \in Conn, NEW r \in Remote, NEW n \in Reg!Name, Reg!Dial(c, r, n)
      PROVE ParkedKept'
  BY <1>2 DEF ParkedKept, Reg!Dial, Reg!NewPeer
<1>3. ASSUME NEW c \in Conn, Reg!Redeem(c) PROVE ParkedKept'
  <2> DEFINE k0 == Reg!KeyOf(c)
             p == pending[k0]
  <2>1. k0 \in Reg!Key /\ p \in Conn \cup {NoConn}
    BY KeysTyped
  <2>2. CASE p = NoConn
    <3>1. /\ UNCHANGED <<peers, mu, label, dialled, dir, remote, done, table, parked, aborted>>
          /\ UNCHANGED <<pending, src, timer, intime>>
          /\ \/ goroutine[c] = "redeem" /\ goroutine' = [goroutine EXCEPT ![c] = "insert"]
             \/ goroutine[c] = "redeemRename" /\ goroutine' = [goroutine EXCEPT ![c] = "read"]
      BY <1>3, <2>2, RedeemEffect DEF Reg!RegistryConstants
    <3> QED BY <3>1 DEF ParkedKept
  <2>3. CASE p # NoConn
    <3>1. /\ UNCHANGED <<peers, mu, label, dialled, dir, remote, done, table, parked, aborted>>
          /\ pending' = [pending EXCEPT ![k0] = NoConn]
          /\ src' = [src EXCEPT ![c] = p]
          /\ timer' = [timer EXCEPT ![p] = IF timer[p] = "armed" THEN "off" ELSE timer[p]]
          /\ intime' = IF timer[p] = "armed" THEN intime \cup {c} ELSE intime \ {c}
          /\ \/ goroutine[c] = "redeem" /\ goroutine' = [goroutine EXCEPT ![c] = "adopt"]
             \/ goroutine[c] = "redeemRename" /\ goroutine' = [goroutine EXCEPT ![c] = "adoptRename"]
      BY <1>3, <2>3, RedeemEffect
    <3>2. p \in Conn
      BY <2>1, <2>3
    <3> HIDE DEF p, k0
    <3> QED BY <2>1, <2>3, <3>1, <3>2 DEF ParkedKept, Reg!TypeOK
  <2> QED BY <2>2, <2>3
<1>4. ASSUME NEW c \in Conn, Reg!AdoptPeerState(c) PROVE ParkedKept'
  BY <1>4 DEF Reg!TypeOK, Reg!ParkedHasTimer, AdoptedApart, ParkedKept, Reg!AdoptPeerState
<1>5. ASSUME NEW c \in Conn, Reg!RegisterPeer(c) PROVE ParkedKept'
  BY <1>5 DEF ParkedKept, Reg!RegisterPeer
<1>6. ASSUME NEW c \in Conn, Reg!Evict(c) PROVE ParkedKept'
  BY <1>6 DEF ParkedKept, Reg!Evict
<1>7. ASSUME NEW c \in Conn, NEW i \in Known, Reg!ReadUpdate(c, i) PROVE ParkedKept'
  BY <1>7 DEF Reg!ParkedHasTimer, ParkedKept, Reg!ReadUpdate
<1>8. ASSUME NEW c \in Conn, Reg!ReadHello(c) PROVE ParkedKept'
  BY <1>8 DEF ParkedKept, Reg!ReadHello
<1>9. ASSUME NEW c \in Conn, Reg!EvictRename(c) PROVE ParkedKept'
  BY <1>9 DEF ParkedKept, Reg!EvictRename
<1>10. ASSUME NEW c \in Conn, Reg!EndLoop(c) PROVE ParkedKept'
  BY <1>10 DEF ParkedKept, Reg!EndLoop
<1>11. ASSUME NEW c \in Conn, Reg!UnregTest(c) PROVE ParkedKept'
  BY <1>11 DEF ParkedKept, Reg!UnregTest
<1>12. ASSUME NEW c \in Conn, Reg!UnregClose(c) PROVE ParkedKept'
  BY <1>12 DEF ParkedKept, Reg!UnregClose
<1>13. ASSUME NEW c \in Conn, Reg!Remove(c) PROVE ParkedKept'
  BY <1>13 DEF ParkedKept, Reg!Remove
<1>14. ASSUME NEW c \in Conn, Reg!Park(c) PROVE ParkedKept'
  BY <1>14 DEF Reg!TypeOK, Reg!ParkedHasTimer, ParkedKept, Reg!Park
<1>15. ASSUME NEW c \in Conn, Reg!TimerFire(c) PROVE ParkedKept'
  BY <1>15 DEF ParkedKept, Reg!TimerFire
<1>16. ASSUME NEW c \in Conn, Reg!TimerDrop(c) PROVE ParkedKept'
  BY <1>16 DEF ParkedKept, Reg!TimerDrop
<1>17. ASSUME NEW c \in Conn, Reg!TimerCleanup(c) PROVE ParkedKept'
  BY <1>17 DEF Reg!ParkedHasTimer, ParkedKept, Reg!TimerCleanup
<1>18. CASE UNCHANGED Reg!vars
  BY <1>18 DEF ParkedKept, Reg!vars
<1> QED
  BY <1>1, <1>2, <1>3, <1>4, <1>5, <1>6, <1>7, <1>8, <1>9, <1>10, <1>11, <1>12, <1>13, <1>14, <1>15,
     <1>16, <1>17, <1>18
     DEF Reg!Next

\* Every step leaves what was redeemed in time as it was parked.
LEMMA IntactStep ==
    ASSUME Reg!RegistryConstants, Reg!TypeOK, Reg!TypeOK', Reg!ParkedHasTimer, AdoptedApart,
           ParkedKept, Reg!RedeemedIntact, [Reg!Next]_(Reg!vars)
    PROVE  Reg!RedeemedIntact'
<1>1. ASSUME NEW c \in Conn, NEW r \in Remote, Reg!Accept(c, r) PROVE Reg!RedeemedIntact'
  BY <1>1 DEF Reg!RedeemedIntact, Reg!Accept, Reg!NewPeer
<1>2. ASSUME NEW c \in Conn, NEW r \in Remote, NEW n \in Reg!Name, Reg!Dial(c, r, n)
      PROVE Reg!RedeemedIntact'
  BY <1>2 DEF Reg!RedeemedIntact, Reg!Dial, Reg!NewPeer
<1>3. ASSUME NEW c \in Conn, Reg!Redeem(c) PROVE Reg!RedeemedIntact'
  BY <1>3
     DEF Reg!TypeOK, ParkedKept, Reg!RedeemedIntact, Reg!KeyOf, Reg!Key, Reg!Redeem,
         Reg!TakePending
<1>4. ASSUME NEW c \in Conn, Reg!AdoptPeerState(c) PROVE Reg!RedeemedIntact'
  BY <1>4 DEF Reg!TypeOK, AdoptedApart, Reg!RedeemedIntact, Reg!AdoptPeerState
<1>5. ASSUME NEW c \in Conn, Reg!RegisterPeer(c) PROVE Reg!RedeemedIntact'
  BY <1>5 DEF Reg!RedeemedIntact, Reg!RegisterPeer
<1>6. ASSUME NEW c \in Conn, Reg!Evict(c) PROVE Reg!RedeemedIntact'
  BY <1>6 DEF Reg!RedeemedIntact, Reg!Evict
<1>7. ASSUME NEW c \in Conn, NEW i \in Known, Reg!ReadUpdate(c, i) PROVE Reg!RedeemedIntact'
  BY <1>7 DEF AdoptedApart, Reg!RedeemedIntact, Reg!ReadUpdate
<1>8. ASSUME NEW c \in Conn, Reg!ReadHello(c) PROVE Reg!RedeemedIntact'
  BY <1>8 DEF Reg!RedeemedIntact, Reg!ReadHello
<1>9. ASSUME NEW c \in Conn, Reg!EvictRename(c) PROVE Reg!RedeemedIntact'
  BY <1>9 DEF Reg!RedeemedIntact, Reg!EvictRename
<1>10. ASSUME NEW c \in Conn, Reg!EndLoop(c) PROVE Reg!RedeemedIntact'
  BY <1>10 DEF Reg!RedeemedIntact, Reg!EndLoop
<1>11. ASSUME NEW c \in Conn, Reg!UnregTest(c) PROVE Reg!RedeemedIntact'
  BY <1>11 DEF Reg!RedeemedIntact, Reg!UnregTest
<1>12. ASSUME NEW c \in Conn, Reg!UnregClose(c) PROVE Reg!RedeemedIntact'
  BY <1>12 DEF Reg!RedeemedIntact, Reg!UnregClose
<1>13. ASSUME NEW c \in Conn, Reg!Remove(c) PROVE Reg!RedeemedIntact'
  BY <1>13 DEF Reg!RedeemedIntact, Reg!Remove
<1>14. ASSUME NEW c \in Conn, Reg!Park(c) PROVE Reg!RedeemedIntact'
  BY <1>14 DEF Reg!TypeOK, AdoptedApart, Reg!RedeemedIntact, Reg!Park
<1>15. ASSUME NEW c \in Conn, Reg!TimerFire(c) PROVE Reg!RedeemedIntact'
  BY <1>15 DEF Reg!RedeemedIntact, Reg!TimerFire
<1>16. ASSUME NEW c \in Conn, Reg!TimerDrop(c) PROVE Reg!RedeemedIntact'
  BY <1>16 DEF Reg!RedeemedIntact, Reg!TimerDrop
<1>17. ASSUME NEW c \in Conn, Reg!TimerCleanup(c) PROVE Reg!RedeemedIntact'
  BY <1>17 DEF AdoptedApart, Reg!RedeemedIntact, Reg!TimerCleanup
<1>18. CASE UNCHANGED Reg!vars
  BY <1>18 DEF Reg!RedeemedIntact, Reg!vars
<1> QED
  BY <1>1, <1>2, <1>3, <1>4, <1>5, <1>6, <1>7, <1>8, <1>9, <1>10, <1>11, <1>12, <1>13, <1>14, <1>15,
     <1>16, <1>17, <1>18
     DEF Reg!Next

\* The invariant is inductive.
LEMMA RegistryInvariant ==
    ASSUME Reg!RegistryConstants
    PROVE  Reg!Spec => []RegistryInv
<1>1. Reg!Init => RegistryInv
  <2> SUFFICES ASSUME Reg!Init PROVE RegistryInv
    OBVIOUS
  <2>1. (CHOOSE n \in Reg!Name : TRUE) \in Reg!Name /\ (CHOOSE r \in Remote : TRUE) \in Remote
    BY DEF Reg!RegistryConstants, Reg!Name
  <2>2. Reg!TypeOK
    BY <2>1 DEF Reg!Init, Reg!TypeOK, Reg!PC, Reg!Live, Reg!Dir, Reg!RegistryConstants
  <2> QED
    BY <2>2 DEF Reg!Init, RegistryInv, EvictReady, Reg!SlotsLive, Reg!ParkedHasTimer, AdoptedApart,
                      ParkedKept, Reg!RedeemedIntact, Reg!RegistryConstants
<1>2. RegistryInv /\ [Reg!Next]_(Reg!vars) => RegistryInv'
  BY TypeStep, SlotsStep, ReadyStep, ParkedStep, AdoptedStep, KeptStep, IntactStep DEF RegistryInv
<1> QED BY <1>1, <1>2, PTL DEF Reg!Spec

\* However registrations, evictions, renames, timers and ends of read loops mix,
\* h.peers holds every peer under its own name with a goroutine that will take it
\* out, and pendingPeers only finished peers with a timer (registerPeer, renamePeer,
\* unregisterPeer, schedulePendingCleanup).
THEOREM TablesAlwaysSound ==
    ASSUME Reg!RegistryConstants
    PROVE  Reg!Spec => []TablesSound
<1>1. RegistryInv => TablesSound
  BY DEF RegistryInv, TablesSound, Reg!TablesSound
<1> QED BY <1>1, RegistryInvariant, PTL

\* A subscriber table that is redeemed before its timer fires is the one that was
\* parked, until it is adopted (redeemPending, adoptPeerState).
THEOREM RedemptionIntact ==
    ASSUME Reg!RegistryConstants
    PROVE  Reg!Spec => []RedeemedIntact
<1>1. RegistryInv => RedeemedIntact
  BY DEF RegistryInv, RedeemedIntact
<1> QED BY <1>1, RegistryInvariant, PTL

-----------------------------------------------------------------------------
(* A group call.  The servers are joined without a loop (Tree): a server   *)
(* hears of the call on one link, and in the order in which the server at  *)
(* the other end of it did.  got[n] counts the starts and ends that n has  *)
(* taken from the stream.                                                  *)

Others == Node \ {Talker}
Signals == [kind : {"start", "end", "voice"}, id : Nat \ {0}, path : SUBSET Node]
Way(up, n) == <<up[n], n>>
Children(up, n) == {c \in Others : up[c] = n}
Away(up, l) == l[2] \in Others /\ l = Way(up, l[2])

\* The number of a start or an end, counted from the first transmission; a voice frame
\* comes with that of its start.
Num(m) == IF m.kind = "end" THEN 2 * m.id ELSE 2 * m.id - 1
Adds(m) == IF m.kind = "voice" THEN 0 ELSE 1

\* A stream that leads from the lo-th start or end to the hi-th, none missing.
Chain(q, lo, hi) ==
    /\ q = <<>> => lo = hi
    /\ q # <<>> => Num(q[1]) = lo + Adds(q[1]) /\ Num(q[Len(q)]) = hi
    /\ \A i \in 1 .. Len(q) - 1 : Num(q[i + 1]) = Num(q[i]) + Adds(q[i + 1])

\* How many starts and ends a server has told those below it.
TalkerTold ==
    IF at = "notify" THEN 2 * spurts - 2
    ELSE IF at \in {"tell", "talking", "notifyEnd"} THEN 2 * spurts - 1 ELSE 2 * spurts
Told(up, got, n) ==
    IF n = Talker THEN TalkerTold
    ELSE IF reader[Way(up, n)] = "recv" THEN got[n] ELSE got[n] - 1

Odd(g) == g % 2 = 1
Starting == {"track", "note", "relay"}
Ending == {"untrack", "forget", "relayEnd"}

GroupTyped ==
    /\ source \in {"station", "injected"} /\ local \in BOOLEAN /\ spoken \in BOOLEAN
    /\ at \in Grp!Stage /\ spurts \in 0 .. MaxSpurts
    /\ tracked \in [Node -> BOOLEAN]
    /\ radios \in [Node -> {"quiet", "hearing"}]
    /\ activeCalls \in [Node -> SUBSET SUBSET Node]
    /\ net \in [Line -> Seq(Signals)]
    /\ heard \in [Node -> SUBSET ({"start", "end"} \X Nat)]
    /\ reader \in [Line -> {"recv"} \cup Starting \cup Ending]
    /\ held \in [Line -> Signals \cup {Grp!Nothing}]
    /\ stray = {} /\ panicked = {}

\* The talker's server.
TalkerWell ==
    /\ at # "idle" => spurts # 0
    /\ at \in {"notifyEnd", "lastTell", "idle"} => ~tracked[Talker]
    /\ at \in {"lastTell", "idle", "notify"} => activeCalls[Talker] = {}
    /\ at = "idle" => radios[Talker] = "quiet"

\* A server that has taken g starts and ends.
SeenWell(n, g) ==
    \A i \in Nat \ {0} :
        /\ <<"start", i>> \in heard[n] <=> 2 * i - 1 <= g
        /\ <<"end", i>> \in heard[n] <=> 2 * i <= g
LoopWell(l, g) ==
    /\ reader[l] = "recv" <=> held[l] = Grp!Nothing
    /\ reader[l] # "recv" => Num(held[l]) = g
    /\ reader[l] \in Starting => held[l].kind = "start"
    /\ reader[l] \in Ending => held[l].kind = "end"
CallWell(l, n, g) ==
    /\ radios[n] = IF Odd(g) THEN "hearing" ELSE "quiet"
    /\ tracked[n] <=> (reader[l] = "untrack" \/ (Odd(g) /\ reader[l] # "track"))
    /\ (activeCalls[n] # {}) <=>
          (reader[l] \in {"untrack", "forget"} \/ (Odd(g) /\ reader[l] \notin {"track", "note"}))
NodeWell(up, n, g) ==
    /\ SeenWell(n, g)
    /\ LoopWell(Way(up, n), g)
    /\ CallWell(Way(up, n), n, g)

\* A message has come through servers nearer to the talker only.
PathWell(depth, m, n) == \A x \in m.path : depth[x] <= depth[n]
LinkWell(up, depth, n) ==
    /\ \A i \in 1 .. Len(net[Way(up, n)]) : PathWell(depth, net[Way(up, n)][i], up[n])
    /\ reader[Way(up, n)] # "recv" => PathWell(depth, held[Way(up, n)], up[n])

\* Nothing is sent towards the talker.
QuietBack(up) ==
    \A l \in Line : ~Away(up, l) => net[l] = <<>> /\ reader[l] = "recv" /\ held[l] = Grp!Nothing

Follows(up, depth, got) ==
    /\ \A n \in Others : NodeWell(up, n, got[n])
    /\ \A n \in Others : Chain(net[Way(up, n)], got[n], Told(up, got, up[n]))
    /\ \A n \in Others : LinkWell(up, depth, n)

\* The inductive invariant.
GroupInv(up, depth) ==
    /\ GroupTyped /\ TalkerWell /\ QuietBack(up)
    /\ \E got \in [Node -> Nat] : Follows(up, depth, got)

LEMMA Numbers ==
    ASSUME NEW m \in Signals
    PROVE  /\ m.kind \in {"start", "end", "voice"} /\ m.id \in Nat \ {0} /\ m.path \subseteq Node
           /\ Num(m) \in Nat \ {0} /\ Adds(m) \in {0, 1}
           /\ m.kind # "end" => Num(m) = 2 * m.id - 1 /\ Odd(Num(m))
           /\ m.kind = "end" => Num(m) = 2 * m.id /\ ~Odd(Num(m))
           /\ m # Grp!Nothing
<1>1. m.kind \in {"start", "end", "voice"} /\ m.id \in Nat \ {0} /\ m.path \subseteq Node
  BY DEF Signals
<1>2. m # Grp!Nothing
  BY <1>1 DEF Grp!Nothing
<1>3. Num(m) \in Nat \ {0} /\ Adds(m) \in {0, 1}
  BY <1>1 DEF Num, Adds
<1>4. ASSUME NEW k \in Nat \ {0} PROVE (2 * k - 1) % 2 = 1 /\ (2 * k) % 2 # 1
  OBVIOUS
<1> QED BY <1>1, <1>2, <1>3, <1>4 DEF Num, Odd

\* A message that continues the chain may be appended to it.
LEMMA ChainAppend ==
    ASSUME NEW q \in Seq(Signals), NEW m \in Signals, NEW lo \in Int, NEW hi \in Int,
           Chain(q, lo, hi), Num(m) = hi + Adds(m)
    PROVE  Chain(Append(q, m), lo, Num(m))
<1> DEFINE s == Append(q, m)
<1>1. /\ s # <<>> /\ Len(s) = Len(q) + 1 /\ Len(q) \in Nat
      /\ \A i \in 1 .. Len(q) : s[i] = q[i]
      /\ s[Len(q) + 1] = m
  BY AppendProperties
<1>2. Num(s[1]) = lo + Adds(s[1])
  <2>1. CASE q = <<>>
    BY <1>1, <2>1 DEF Chain
  <2>2. CASE q # <<>>
    <3>1. 1 \in 1 .. Len(q)
      BY <2>2
    <3> QED BY <1>1, <2>2, <3>1 DEF Chain
  <2> QED BY <2>1, <2>2
<1>3. ASSUME NEW i \in 1 .. Len(s) - 1 PROVE Num(s[i + 1]) = Num(s[i]) + Adds(s[i + 1])
  <2>1. CASE i < Len(q)
    <3>1. i \in 1 .. Len(q) - 1 /\ i + 1 \in 1 .. Len(q) /\ i \in 1 .. Len(q)
      BY <1>1, <2>1
    <3> QED BY <1>1, <3>1 DEF Chain
  <2>2. CASE i = Len(q)
    <3>1. i \in 1 .. Len(q) /\ q # <<>>
      BY <2>2
    <3>2. Num(q[i]) = hi
      BY <2>2, <3>1 DEF Chain
    <3> QED BY <1>1, <2>2, <3>1, <3>2
  <2> QED BY <1>1, <2>1, <2>2
<1> HIDE DEF s
<1> QED BY <1>1, <1>2, <1>3 DEF Chain, s

\* Its first message is the next one, and without it a chain is left.
LEMMA ChainTail ==
    ASSUME NEW q \in Seq(Signals), q # <<>>, NEW lo \in Int, NEW hi \in Int, Chain(q, lo, hi)
    PROVE  /\ Head(q) \in Signals /\ Num(Head(q)) = lo + Adds(Head(q))
           /\ Chain(Tail(q), Num(Head(q)), hi)
<1>0. PICK s : s = Tail(q)
  OBVIOUS
<1>1. /\ Len(q) \in Nat \ {0} /\ Head(q) = q[1] /\ q[1] \in Signals
      /\ s \in Seq(Signals) /\ Len(s) = Len(q) - 1
      /\ \A i \in 1 .. Len(q) - 1 : s[i] = q[i + 1]
  BY <1>0, HeadTailProperties, EmptySeq
<1>2. Num(q[1]) = lo + Adds(q[1]) /\ Num(q[Len(q)]) = hi
  BY DEF Chain
<1>3. CASE s = <<>>
  <2>1. Len(s) = 0
    BY <1>3, EmptySeq
  <2>2. Len(q) = 1
    BY <1>1, <2>1
  <2>3. 1 .. Len(s) - 1 = {} /\ Num(Head(q)) = hi
    BY <1>1, <1>2, <2>1, <2>2
  <2> QED BY <1>1, <1>2, <1>3, <2>3 DEF Chain
<1>4. CASE s # <<>>
  <2>1. Len(s) \in Nat \ {0}
    BY <1>1, <1>4
  <2>2. s[1] = q[2] /\ s[Len(s)] = q[Len(q)] /\ 1 \in 1 .. Len(q) - 1
    BY <1>1, <2>1
  <2>3. Num(s[1]) = Num(q[1]) + Adds(s[1])
    BY <2>2 DEF Chain
  <2>4. ASSUME NEW i \in 1 .. Len(s) - 1 PROVE Num(s[i + 1]) = Num(s[i]) + Adds(s[i + 1])
    <3>1. i + 1 \in 1 .. Len(q) - 1 /\ i \in 1 .. Len(q) - 1
      BY <1>1
    <3>2. s[i] = q[i + 1] /\ s[i + 1] = q[(i + 1) + 1]
      BY <1>1, <3>1
    <3> QED BY <3>1, <3>2 DEF Chain
  <2>5. Num(s[1]) = Num(Head(q)) + Adds(s[1]) /\ Num(s[Len(s)]) = hi
    BY <1>1, <1>2, <2>2, <2>3
  <2>6. Chain(s, Num(Head(q)), hi)
    BY <1>1, <1>4, <2>4, <2>5 DEF Chain
  <2> QED BY <1>0, <1>1, <1>2, <2>6
<1> QED BY <1>0, <1>1, <1>2, <1>3, <1>4

-----------------------------------------------------------------------------
(* Who sends to whom.                                                      *)

\* A server has one stream from the talker's side, and it is its own.
LEMMA WayFacts ==
    ASSUME NEW up, NEW depth, Grp!Tree(up, depth), NEW n \in Others
    PROVE  /\ up[n] \in Node /\ up[n] # n /\ n \in Node /\ Talker \in Node
           /\ depth[n] \in Nat /\ depth[up[n]] \in Nat /\ depth[n] = depth[up[n]] + 1
           /\ Way(up, n) \in Line /\ Way(up, n)[1] = up[n] /\ Way(up, n)[2] = n
           /\ Away(up, Way(up, n))
           /\ \A x \in Others : Way(up, x) = Way(up, n) => x = n
<1>1. up[n] \in Node /\ n \in Node /\ depth[n] = depth[up[n]] + 1 /\ depth[up[n]] \in Nat
  BY DEF Grp!Tree, Others
<1>2. up[n] # n
  BY <1>1
<1>3. Way(up, n)[1] = up[n] /\ Way(up, n)[2] = n /\ \A x \in Others : Way(up, x)[2] = x
  BY DEF Way
<1>4. Way(up, n) \in Line
  BY DEF Grp!Tree, Way, Others
<1> QED BY <1>1, <1>2, <1>3, <1>4 DEF Grp!Tree, Away, Others

\* The peers of a server are those below it, and the one above it.
LEMMA PeersAre ==
    ASSUME NEW up, NEW depth, Grp!Tree(up, depth), NEW n \in Node
    PROVE  /\ Children(up, n) \subseteq Grp!PeersOf(n)
           /\ \A p \in Grp!PeersOf(n) : p \in Children(up, n) \/ (n \in Others /\ p = up[n])
           /\ \A c \in Children(up, n) :
                 c \in Others /\ up[c] = n /\ depth[c] = depth[n] + 1 /\ depth[n] \in Nat
<1>1. ASSUME NEW c \in Children(up, n)
      PROVE  c \in Others /\ up[c] = n /\ depth[c] = depth[n] + 1 /\ depth[n] \in Nat /\ Way(up, c) = <<n, c>>
  BY DEF Children, Grp!Tree, Others, Way
<1>2. ASSUME NEW c \in Children(up, n) PROVE c \in Grp!PeersOf(n)
  <2>1. <<n, c>> \in Line
    BY <1>1, WayFacts
  <2> QED BY <2>1 DEF Grp!PeersOf
<1>3. ASSUME NEW p \in Grp!PeersOf(n) PROVE p \in Children(up, n) \/ (n \in Others /\ p = up[n])
  <2>1. PICK l \in Line : l[1] = n /\ l[2] = p
    BY DEF Grp!PeersOf
  <2>2. \/ l[2] \in Others /\ l = <<up[l[2]], l[2]>>
        \/ l[1] \in Others /\ l = <<l[1], up[l[1]]>>
    BY DEF Grp!Tree, Others
  <2>3. CASE l[2] \in Others /\ l = <<up[l[2]], l[2]>>
    BY <2>1, <2>3 DEF Children
  <2>4. CASE l[1] \in Others /\ l = <<l[1], up[l[1]]>>
    BY <2>1, <2>4
  <2> QED BY <2>2, <2>3, <2>4
<1> QED BY <1>1, <1>2, <1>3

\* The talker's server sends downwards, to all.
LEMMA TalkerPeers ==
    ASSUME NEW up, NEW depth, Grp!Tree(up, depth)
    PROVE  Grp!PeersOf(Talker) = Children(up, Talker)
<1>1. Talker \in Node /\ Talker \notin Others
  BY DEF Grp!Tree, Others
<1> QED BY <1>1, PeersAre

\* So does one that relays: the path of the message keeps nobody out.
LEMMA RelayDown ==
    ASSUME NEW up, NEW depth, Grp!Tree(up, depth), NEW n \in Others,
           LinkWell(up, depth, n), reader[Way(up, n)] # "recv"
    PROVE  Grp!RelayTo(Way(up, n)) = Children(up, n)
<1> DEFINE l == Way(up, n)
<1>1. n \in Node /\ l[1] = up[n] /\ l[2] = n /\ depth[n] = depth[up[n]] + 1 /\ depth[up[n]] \in Nat
  BY WayFacts
<1>2. \A x \in held[l].path : depth[x] <= depth[up[n]]
  BY DEF LinkWell, PathWell
<1>3. ASSUME NEW c \in Children(up, n)
      PROVE  c \in Grp!PeersOf(n) /\ c # up[n] /\ c \notin held[l].path
  <2>1. c \in Grp!PeersOf(n) /\ depth[c] = depth[n] + 1
    BY <1>1, PeersAre
  <2> QED BY <1>1, <1>2, <2>1
<1>4. ASSUME NEW p \in Grp!PeersOf(n), p # up[n] PROVE p \in Children(up, n)
  BY <1>1, <1>4, PeersAre
<1> HIDE DEF l
<1>5. Grp!RelayTo(l) = {p \in Grp!PeersOf(n) : p # up[n] /\ p \notin held[l].path}
  BY <1>1 DEF Grp!RelayTo
<1> QED BY <1>3, <1>4, <1>5 DEF l

\* What is sent to those below a server lands on their streams and nowhere else.
LEMMA SendDown ==
    ASSUME NEW up, NEW depth, Grp!Tree(up, depth), NEW n \in Node, NEW m \in Signals,
           net \in [Line -> Seq(Signals)], net' = Grp!Send(n, Children(up, n), m)
    PROVE  /\ net' \in [Line -> Seq(Signals)]
           /\ \A c \in Others :
                 net'[Way(up, c)] = IF up[c] = n THEN Append(net[Way(up, c)], m) ELSE net[Way(up, c)]
           /\ \A l \in Line : ~Away(up, l) => net'[l] = net[l]
<1>1. \A l \in Line : net'[l] = IF l[1] = n /\ l[2] \in Children(up, n) THEN Append(net[l], m) ELSE net[l]
  BY DEF Grp!Send
<1>2. net' \in [Line -> Seq(Signals)]
  <2>1. \A l \in Line : Append(net[l], m) \in Seq(Signals) /\ net[l] \in Seq(Signals)
    OBVIOUS
  <2> QED BY <2>1 DEF Grp!Send
<1>3. ASSUME NEW c \in Others
      PROVE  net'[Way(up, c)] = IF up[c] = n THEN Append(net[Way(up, c)], m) ELSE net[Way(up, c)]
  <2>1. Way(up, c) \in Line /\ Way(up, c)[1] = up[c] /\ Way(up, c)[2] = c
    BY WayFacts
  <2>2. c \in Children(up, n) <=> up[c] = n
    BY DEF Children
  <2> QED BY <1>1, <2>1, <2>2
<1>4. ASSUME NEW l \in Line, ~Away(up, l) PROVE net'[l] = net[l]
  <2>1. CASE l[1] = n /\ l[2] \in Children(up, n)
    <3>1. l[2] \in Others /\ up[l[2]] = l[1]
      BY <2>1 DEF Children
    <3>2. l = <<l[1], l[2]>>
      BY DEF Grp!Tree
    <3> QED BY <1>4, <3>1, <3>2 DEF Away, Way
  <2> QED BY <1>1, <2>1
<1> QED BY <1>2, <1>3, <1>4

-----------------------------------------------------------------------------
(* What a step of one server's read loop does to the others.               *)

\* Only n's part of the state and its read loop's changes.
OnlyAt(up, n) ==
    /\ UNCHANGED <<source, local, at, spurts, spoken>>
    /\ \A x \in Node : x # n =>
          /\ tracked'[x] = tracked[x] /\ radios'[x] = radios[x]
          /\ activeCalls'[x] = activeCalls[x] /\ heard'[x] = heard[x]
    /\ \A l \in Line : l # Way(up, n) => reader'[l] = reader[l] /\ held'[l] = held[l]

\* The rest of the invariant: what the others see of n's step is what it sends.
LEMMA OthersKept ==
    ASSUME NEW up, NEW depth, Grp!Tree(up, depth), NEW n \in Others, OnlyAt(up, n),
           TalkerWell, QuietBack(up), NEW got \in [Node -> Nat], Follows(up, depth, got),
           NEW then \in [Node -> Nat], \A x \in Node : x # n => then[x] = got[x],
           \A l \in Line : ~Away(up, l) => net'[l] = net[l]
    PROVE  /\ TalkerWell' /\ QuietBack(up)'
           /\ \A x \in Others : x # n => NodeWell(up, x, then[x])'
           /\ \A x \in Node : x # n => Told(up, then, x)' = Told(up, got, x)
           /\ \A x \in Others : x # n /\ net'[Way(up, x)] = net[Way(up, x)] => LinkWell(up, depth, x)'
           /\ \A x \in Others :
                 x # n /\ up[x] # n /\ net'[Way(up, x)] = net[Way(up, x)]
                    => Chain(net[Way(up, x)], then[x], Told(up, then, up[x]))'
<1>1. n \in Node /\ n # Talker /\ Talker \in Node /\ Way(up, n) \in Line /\ Away(up, Way(up, n))
  BY WayFacts DEF Others
<1>2. TalkerWell'
  BY <1>1 DEF OnlyAt, TalkerWell
<1>3. QuietBack(up)'
  <2> SUFFICES ASSUME NEW l \in Line, ~Away(up, l)
               PROVE  net'[l] = <<>> /\ reader'[l] = "recv" /\ held'[l] = Grp!Nothing
    BY DEF QuietBack, Away, Way, Grp!Nothing
  <2> QED BY <1>1 DEF OnlyAt, QuietBack
<1>4. \A x \in Others : x # n => /\ Way(up, x) \in Line /\ Way(up, x) # Way(up, n) /\ x \in Node
                                 /\ x # Talker /\ then[x] = got[x] /\ got[x] \in Nat /\ up[x] \in Node
  BY WayFacts DEF Others
<1>5. ASSUME NEW x \in Others, x # n
      PROVE  reader'[Way(up, x)] = reader[Way(up, x)] /\ held'[Way(up, x)] = held[Way(up, x)]
  BY <1>4, <1>5 DEF OnlyAt
<1>6. ASSUME NEW x \in Others, x # n PROVE NodeWell(up, x, then[x])'
  <2>1. NodeWell(up, x, got[x])
    BY DEF Follows
  <2>2. /\ tracked'[x] = tracked[x] /\ radios'[x] = radios[x]
        /\ activeCalls'[x] = activeCalls[x] /\ heard'[x] = heard[x]
    BY <1>4, <1>6 DEF OnlyAt
  <2>3. SeenWell(x, then[x])'
    BY <1>4, <1>6, <2>1, <2>2 DEF NodeWell, SeenWell
  <2>4. LoopWell(Way(up, x), then[x])'
    BY <1>4, <1>5, <1>6, <2>1 DEF NodeWell, LoopWell, Way, Grp!Nothing
  <2>5. CallWell(Way(up, x), x, then[x])'
    BY <1>4, <1>5, <1>6, <2>1, <2>2 DEF NodeWell, CallWell, Way
  <2> QED BY <2>3, <2>4, <2>5 DEF NodeWell, Way
<1>7. ASSUME NEW x \in Node, x # n PROVE Told(up, then, x)' = Told(up, got, x)
  <2>1. TalkerTold' = TalkerTold
    BY DEF OnlyAt, TalkerTold
  <2>2. CASE x = Talker
    BY <2>1, <2>2 DEF Told
  <2>3. CASE x # Talker
    BY <1>4, <1>5, <1>7, <2>3 DEF Told, Others, Way
  <2> QED BY <2>2, <2>3
<1>8. ASSUME NEW x \in Others, x # n, net'[Way(up, x)] = net[Way(up, x)] PROVE LinkWell(up, depth, x)'
  BY <1>5, <1>8 DEF Follows, LinkWell, Way
<1>9. ASSUME NEW x \in Others, x # n, up[x] # n, net'[Way(up, x)] = net[Way(up, x)]
      PROVE  Chain(net[Way(up, x)], then[x], Told(up, then, up[x]))'
  <2>1. Told(up, then, up[x])' = Told(up, got, up[x])
    BY <1>4, <1>7, <1>9
  <2>2. Chain(net[Way(up, x)], got[x], Told(up, got, up[x]))
    BY DEF Follows
  <2> QED BY <1>4, <1>9, <2>1, <2>2 DEF Chain, Way
<1> QED BY <1>2, <1>3, <1>6, <1>7, <1>8, <1>9

\* A step between two locks: what n has told those below it stays.
LEMMA InnerStep ==
    ASSUME NEW up, NEW depth, Grp!Tree(up, depth), NEW n \in Others, OnlyAt(up, n),
           GroupInv(up, depth), GroupTyped', net' = net, heard'[n] = heard[n],
           reader[Way(up, n)] # "recv", reader'[Way(up, n)] # "recv",
           held'[Way(up, n)] = held[Way(up, n)],
           \A g \in Nat : LoopWell(Way(up, n), g) /\ CallWell(Way(up, n), n, g)
                             => (LoopWell(Way(up, n), g) /\ CallWell(Way(up, n), n, g))'
    PROVE  GroupInv(up, depth)'
<1>1. PICK got \in [Node -> Nat] : Follows(up, depth, got)
  BY DEF GroupInv
<1>2. /\ TalkerWell' /\ QuietBack(up)'
      /\ \A x \in Others : x # n => NodeWell(up, x, got[x])'
      /\ \A x \in Node : x # n => Told(up, got, x)' = Told(up, got, x)
      /\ \A x \in Others : x # n => LinkWell(up, depth, x)'
  <2>1. TalkerWell /\ QuietBack(up)
    BY DEF GroupInv
  <2> QED BY <1>1, <2>1, OthersKept
<1>3. NodeWell(up, n, got[n])'
  <2>1. NodeWell(up, n, got[n]) /\ got[n] \in Nat
    BY <1>1 DEF Follows, Others
  <2>2. SeenWell(n, got[n])'
    BY <2>1 DEF NodeWell, SeenWell
  <2>3. (LoopWell(Way(up, n), got[n]) /\ CallWell(Way(up, n), n, got[n]))'
    BY <2>1 DEF NodeWell
  <2> QED BY <2>2, <2>3 DEF NodeWell
<1>4. LinkWell(up, depth, n)'
  BY <1>1 DEF Follows, LinkWell, Way
<1>5. ASSUME NEW x \in Node PROVE Told(up, got, x)' = Told(up, got, x)
  <2>1. CASE x = n
    BY <2>1 DEF Told, Others, Way
  <2> QED BY <1>2, <2>1
<1>6. ASSUME NEW x \in Others PROVE Chain(net[Way(up, x)], got[x], Told(up, got, up[x]))'
  <2>1. Told(up, got, up[x])' = Told(up, got, up[x])
    BY <1>5, WayFacts
  <2>2. Chain(net[Way(up, x)], got[x], Told(up, got, up[x]))
    BY <1>1 DEF Follows
  <2> QED BY <2>1, <2>2 DEF Way
<1>7. Follows(up, depth, got)'
  BY <1>2, <1>3, <1>4, <1>6 DEF Follows
<1> QED BY <1>1, <1>2, <1>7 DEF GroupInv

\* n's read loop takes m from its stream; a voice frame is done with at once.
TakesIn(up, n, m) ==
    LET l == Way(up, n) IN
    /\ OnlyAt(up, n)
    /\ reader[l] = "recv" /\ net[l] # <<>> /\ m = Head(net[l])
    /\ net' = [net EXCEPT ![l] = Tail(net[l])]
    /\ (reader'[l] = "recv") <=> (m.kind = "voice")
    /\ reader'[l] # "recv" => held'[l] = m
    /\ \A g \in Nat : NodeWell(up, n, g) /\ Num(m) = g + Adds(m) => NodeWell(up, n, Num(m))'

LEMMA TakeStep ==
    ASSUME NEW up, NEW depth, Grp!Tree(up, depth), NEW n \in Others, NEW m,
           TakesIn(up, n, m), GroupInv(up, depth), GroupTyped'
    PROVE  GroupInv(up, depth)'
<1>0. /\ OnlyAt(up, n)
      /\ reader[Way(up, n)] = "recv" /\ net[Way(up, n)] # <<>> /\ m = Head(net[Way(up, n)])
      /\ net' = [net EXCEPT ![Way(up, n)] = Tail(net[Way(up, n)])]
      /\ (reader'[Way(up, n)] = "recv") <=> (m.kind = "voice")
      /\ reader'[Way(up, n)] # "recv" => held'[Way(up, n)] = m
  BY DEF TakesIn
<1>1. PICK got \in [Node -> Nat] : Follows(up, depth, got)
  BY DEF GroupInv
<1>2. /\ Way(up, n) \in Line /\ n \in Node /\ up[n] \in Node /\ up[n] # n /\ n # Talker
      /\ Away(up, Way(up, n)) /\ got[n] \in Nat
  BY <1>1, WayFacts DEF Others
<1>3. net[Way(up, n)] \in Seq(Signals)
  BY <1>2 DEF GroupInv, GroupTyped
<1>4. ASSUME NEW x \in Node PROVE Told(up, got, x) \in Int
  BY <1>1, <1>4 DEF Told, TalkerTold, GroupInv, GroupTyped, Grp!Tree
<1>5. /\ m \in Signals /\ Num(m) = got[n] + Adds(m)
      /\ Chain(Tail(net[Way(up, n)]), Num(m), Told(up, got, up[n]))
  <2>1. Chain(net[Way(up, n)], got[n], Told(up, got, up[n]))
    BY <1>1 DEF Follows
  <2> QED BY <1>0, <1>2, <1>3, <1>4, <2>1, ChainTail
<1>6. Num(m) \in Nat /\ Adds(m) \in {0, 1}
  BY <1>5, Numbers
<1>7. PICK then : then = [got EXCEPT ![n] = Num(m)]
  OBVIOUS
<1>8. then \in [Node -> Nat] /\ then[n] = Num(m) /\ \A x \in Node : x # n => then[x] = got[x]
  BY <1>1, <1>2, <1>6, <1>7
<1>9. /\ TalkerWell' /\ QuietBack(up)'
      /\ \A x \in Others : x # n => NodeWell(up, x, then[x])'
      /\ \A x \in Node : x # n => Told(up, then, x)' = Told(up, got, x)
      /\ \A x \in Others : x # n => LinkWell(up, depth, x)'
  <2>1. \A l \in Line : ~Away(up, l) => net'[l] = net[l]
    BY <1>0, <1>2 DEF GroupInv, GroupTyped
  <2>2. \A x \in Others : x # n => net'[Way(up, x)] = net[Way(up, x)]
    BY <1>0, <1>2, WayFacts DEF GroupInv, GroupTyped
  <2>3. /\ TalkerWell' /\ QuietBack(up)'
        /\ \A x \in Others : x # n => NodeWell(up, x, then[x])'
        /\ \A x \in Node : x # n => Told(up, then, x)' = Told(up, got, x)
        /\ \A x \in Others : x # n /\ net'[Way(up, x)] = net[Way(up, x)] => LinkWell(up, depth, x)'
    <3>1. TalkerWell /\ QuietBack(up)
      BY DEF GroupInv
    <3>2. OnlyAt(up, n)
      BY <1>0
    <3> QED BY <1>1, <1>8, <2>1, <3>1, <3>2, OthersKept
  <2> QED BY <2>2, <2>3
<1>10. NodeWell(up, n, then[n])'
  <2>1. NodeWell(up, n, got[n])
    BY <1>1 DEF Follows
  <2>2. NodeWell(up, n, Num(m))'
    BY <1>2, <1>5, <2>1 DEF TakesIn
  <2> QED BY <1>8, <2>2
<1>11. net'[Way(up, n)] = Tail(net[Way(up, n)])
  BY <1>0, <1>2 DEF GroupInv, GroupTyped
<1>12. LinkWell(up, depth, n)'
  <2>1. \A i \in 1 .. Len(net[Way(up, n)]) : PathWell(depth, net[Way(up, n)][i], up[n])
    BY <1>1 DEF Follows, LinkWell
  <2>2. PICK q : q = net[Way(up, n)]
    OBVIOUS
  <2>3. /\ Len(q) \in Nat \ {0} /\ Len(Tail(q)) = Len(q) - 1
        /\ \A i \in 1 .. Len(q) - 1 : Tail(q)[i] = q[i + 1]
        /\ m = q[1]
    BY <1>0, <1>3, <2>2, HeadTailProperties, EmptySeq
  <2>4. \A i \in 1 .. Len(Tail(q)) : PathWell(depth, Tail(q)[i], up[n])
    <3> TAKE i \in 1 .. Len(Tail(q))
    <3>1. i + 1 \in 1 .. Len(q) /\ Tail(q)[i] = q[i + 1]
      BY <2>3
    <3> QED BY <2>1, <2>2, <3>1
  <2>5. PathWell(depth, m, up[n])
    <3>1. 1 \in 1 .. Len(q)
      BY <2>3
    <3> QED BY <2>1, <2>2, <2>3, <3>1
  <2>6. reader'[Way(up, n)] # "recv" => PathWell(depth, held'[Way(up, n)], up[n])
    BY <1>0, <2>5
  <2> QED BY <1>11, <2>2, <2>4, <2>6 DEF LinkWell, Way
<1>13. Told(up, then, n)' = Told(up, got, n)
  <2>1. m.kind = "voice" <=> Adds(m) = 0
    BY DEF Adds
  <2>2. Told(up, got, n) = got[n]
    BY <1>0, <1>2 DEF Told
  <2>3. Told(up, then, n)' = IF m.kind = "voice" THEN then[n] ELSE then[n] - 1
    BY <1>0, <1>2 DEF Told, Way
  <2> QED BY <1>2, <1>5, <1>6, <1>8, <2>1, <2>2, <2>3
<1>14. ASSUME NEW x \in Others PROVE Chain(net[Way(up, x)], then[x], Told(up, then, up[x]))'
  <2>1. Told(up, then, up[x])' = Told(up, got, up[x])
    BY <1>9, <1>13, WayFacts
  <2>2. CASE x = n
    BY <1>5, <1>8, <1>11, <2>1, <2>2 DEF Way
  <2>3. CASE x # n
    <3>1. net'[Way(up, x)] = net[Way(up, x)] /\ then[x] = got[x]
      BY <1>0, <1>2, <1>8, <2>3, WayFacts DEF GroupInv, GroupTyped, Others
    <3>2. Chain(net[Way(up, x)], got[x], Told(up, got, up[x]))
      BY <1>1 DEF Follows
    <3> QED BY <2>1, <3>1, <3>2 DEF Way
  <2> QED BY <2>2, <2>3
<1>15. \A x \in Others : NodeWell(up, x, then[x])' /\ LinkWell(up, depth, x)'
  BY <1>9, <1>10, <1>12
<1>16. Follows(up, depth, then)'
  BY <1>14, <1>15 DEF Follows
<1> QED BY <1>8, <1>9, <1>16 DEF GroupInv

\* n's read loop passes the message it holds on as w, to those below it, and is done.
PassesOn(up, n, w) ==
    LET l == Way(up, n) IN
    /\ OnlyAt(up, n)
    /\ reader[l] # "recv" /\ reader'[l] = "recv"
    /\ w \in Signals /\ w.kind # "voice" /\ w.path = held[l].path \cup {n}
    /\ Num(w) = Num(held[l])
    /\ net' = Grp!Send(n, Children(up, n), w)
    /\ \A g \in Nat : NodeWell(up, n, g) => NodeWell(up, n, g)'

\* Appending a message whose path is short enough leaves a stream well.
LEMMA LinkGrows ==
    ASSUME NEW up, NEW depth, Grp!Tree(up, depth), NEW c \in Others, LinkWell(up, depth, c),
           net[Way(up, c)] \in Seq(Signals), NEW w, PathWell(depth, w, up[c]),
           net'[Way(up, c)] = Append(net[Way(up, c)], w),
           reader'[Way(up, c)] = reader[Way(up, c)], held'[Way(up, c)] = held[Way(up, c)]
    PROVE  LinkWell(up, depth, c)'
<1>1. PICK q : q = net[Way(up, c)]
  OBVIOUS
<1>2. /\ Len(q) \in Nat /\ Len(Append(q, w)) = Len(q) + 1
      /\ \A i \in 1 .. Len(q) : Append(q, w)[i] = q[i]
      /\ Append(q, w)[Len(q) + 1] = w
  BY <1>1
<1>3. \A i \in 1 .. Len(q) : PathWell(depth, q[i], up[c])
  BY <1>1 DEF LinkWell
<1>4. ASSUME NEW i \in 1 .. Len(Append(q, w)) PROVE PathWell(depth, Append(q, w)[i], up[c])
  <2>1. i \in 1 .. Len(q) \/ i = Len(q) + 1
    BY <1>2
  <2> QED BY <1>2, <1>3, <2>1
<1>5. reader[Way(up, c)] # "recv" => PathWell(depth, held[Way(up, c)], up[c])
  BY DEF LinkWell
<1> QED BY <1>1, <1>4, <1>5 DEF LinkWell, Way

LEMMA PassStep ==
    ASSUME NEW up, NEW depth, Grp!Tree(up, depth), NEW n \in Others, NEW w,
           PassesOn(up, n, w), GroupInv(up, depth), GroupTyped'
    PROVE  GroupInv(up, depth)'
<1>0. /\ OnlyAt(up, n)
      /\ reader[Way(up, n)] # "recv" /\ reader'[Way(up, n)] = "recv"
      /\ w \in Signals /\ w.kind # "voice" /\ w.path = held[Way(up, n)].path \cup {n}
      /\ Num(w) = Num(held[Way(up, n)])
      /\ net' = Grp!Send(n, Children(up, n), w)
  BY DEF PassesOn
<1>1. PICK got \in [Node -> Nat] : Follows(up, depth, got)
  BY DEF GroupInv
<1>2. /\ Way(up, n) \in Line /\ n \in Node /\ up[n] # n /\ n # Talker /\ got[n] \in Nat
      /\ depth[n] = depth[up[n]] + 1 /\ depth[up[n]] \in Nat
  BY <1>1, WayFacts DEF Others
<1>3. /\ \A c \in Others :
            net'[Way(up, c)] = IF up[c] = n THEN Append(net[Way(up, c)], w) ELSE net[Way(up, c)]
      /\ \A l \in Line : ~Away(up, l) => net'[l] = net[l]
  <2>1. net \in [Line -> Seq(Signals)]
    BY DEF GroupInv, GroupTyped
  <2>2. w \in Signals /\ net' = Grp!Send(n, Children(up, n), w)
    BY <1>0
  <2> QED BY <1>2, <2>1, <2>2, SendDown
<1>4. /\ TalkerWell' /\ QuietBack(up)'
      /\ \A x \in Others : x # n => NodeWell(up, x, got[x])'
      /\ \A x \in Node : x # n => Told(up, got, x)' = Told(up, got, x)
      /\ \A x \in Others : x # n /\ net'[Way(up, x)] = net[Way(up, x)] => LinkWell(up, depth, x)'
  <2>1. TalkerWell /\ QuietBack(up) /\ OnlyAt(up, n)
    BY <1>0 DEF GroupInv
  <2> QED BY <1>1, <1>3, <2>1, OthersKept
<1>5. NodeWell(up, n, got[n]) /\ NodeWell(up, n, got[n])'
  BY <1>1, <1>2 DEF Follows, PassesOn
<1>6. net'[Way(up, n)] = net[Way(up, n)]
  BY <1>2, <1>3
<1>7. LinkWell(up, depth, n)'
  BY <1>0, <1>1, <1>6 DEF Follows, LinkWell, Way
<1>8. Num(w) = got[n] /\ Adds(w) = 1
  BY <1>0, <1>5 DEF NodeWell, LoopWell, Adds
<1>9. Told(up, got, n) = got[n] - 1 /\ Told(up, got, n)' = got[n]
  BY <1>0, <1>2 DEF Told, Way
<1>10. PathWell(depth, w, n)
  <2>1. \A x \in held[Way(up, n)].path : depth[x] <= depth[up[n]]
    BY <1>0, <1>1 DEF Follows, LinkWell, PathWell
  <2>2. \A x \in w.path : x \in Node
    BY <1>0, Numbers
  <2>3. ASSUME NEW x \in w.path PROVE depth[x] <= depth[n]
    <3>1. depth[x] \in Nat
      BY <2>2 DEF Grp!Tree
    <3>2. CASE x = n
      BY <3>1, <3>2
    <3>3. CASE x # n
      <4>1. depth[x] <= depth[up[n]]
        BY <1>0, <2>1, <3>3
      <4> QED BY <1>2, <3>1, <4>1
    <3> QED BY <3>2, <3>3
  <2> QED BY <2>3 DEF PathWell
<1>11. ASSUME NEW x \in Others PROVE LinkWell(up, depth, x)'
  <2>1. CASE up[x] = n
    <3>1. x # n /\ Way(up, x) # Way(up, n) /\ Way(up, x) \in Line
      BY <1>2, <2>1, WayFacts
    <3>2. reader'[Way(up, x)] = reader[Way(up, x)] /\ held'[Way(up, x)] = held[Way(up, x)]
      BY <1>0, <3>1 DEF OnlyAt
    <3>3. net'[Way(up, x)] = Append(net[Way(up, x)], w) /\ net[Way(up, x)] \in Seq(Signals)
      BY <1>3, <2>1, <3>1 DEF GroupInv, GroupTyped
    <3>4. PathWell(depth, w, up[x]) /\ LinkWell(up, depth, x)
      BY <1>1, <1>10, <2>1 DEF Follows
    <3> QED BY <3>2, <3>3, <3>4, LinkGrows
  <2>2. CASE up[x] # n
    BY <1>3, <1>4, <1>7, <2>2
  <2> QED BY <2>1, <2>2
<1>12. ASSUME NEW x \in Others PROVE Chain(net[Way(up, x)], got[x], Told(up, got, up[x]))'
  <2>1. Chain(net[Way(up, x)], got[x], Told(up, got, up[x]))
    BY <1>1 DEF Follows
  <2>2. CASE up[x] = n
    <3>1. net[Way(up, x)] \in Seq(Signals) /\ got[x] \in Nat
      BY <1>1, WayFacts DEF GroupInv, GroupTyped, Others
    <3>2. Chain(Append(net[Way(up, x)], w), got[x], Num(w))
      <4>1. PICK hi \in Int : hi = got[n] - 1
        BY <1>2
      <4>2. Chain(net[Way(up, x)], got[x], hi) /\ Num(w) = hi + Adds(w) /\ got[x] \in Int
        BY <1>2, <1>8, <1>9, <2>1, <2>2, <3>1, <4>1
      <4> QED BY <1>0, <3>1, <4>2, ChainAppend
    <3>3. net'[Way(up, x)] = Append(net[Way(up, x)], w)
      BY <1>3, <2>2
    <3> QED BY <1>8, <1>9, <2>2, <3>2, <3>3 DEF Way
  <2>3. CASE up[x] # n
    <3>1. Told(up, got, up[x])' = Told(up, got, up[x])
      BY <1>4, <2>3, WayFacts
    <3>2. net'[Way(up, x)] = net[Way(up, x)]
      BY <1>3, <2>3
    <3> QED BY <2>1, <3>1, <3>2 DEF Way
  <2> QED BY <2>2, <2>3
<1>13. \A x \in Others : NodeWell(up, x, got[x])'
  BY <1>4, <1>5
<1>14. Follows(up, depth, got)'
  BY <1>11, <1>12, <1>13 DEF Follows
<1> QED BY <1>1, <1>4, <1>14 DEF GroupInv

-----------------------------------------------------------------------------
(* What a step of the talker's server does to the others.                  *)

OnlyTalker ==
    /\ UNCHANGED <<reader, held, stray, panicked>>
    /\ \A x \in Others :
          /\ tracked'[x] = tracked[x] /\ radios'[x] = radios[x]
          /\ activeCalls'[x] = activeCalls[x] /\ heard'[x] = heard[x]

\* The talker's server sends w, the next of its messages, to those below it.
Speaks(up, w) ==
    /\ w \in Signals /\ w.path = {Talker} /\ Num(w) = TalkerTold + Adds(w)
    /\ TalkerTold' = Num(w)
    /\ net' = Grp!Send(Talker, Children(up, Talker), w)

LEMMA TalkerOthers ==
    ASSUME NEW up, NEW depth, Grp!Tree(up, depth), OnlyTalker,
           NEW got \in [Node -> Nat], Follows(up, depth, got)
    PROVE  /\ \A x \in Others : NodeWell(up, x, got[x])'
           /\ \A x \in Others : Told(up, got, x)' = Told(up, got, x)
           /\ \A x \in Others : net'[Way(up, x)] = net[Way(up, x)] => LinkWell(up, depth, x)'
<1>1. ASSUME NEW x \in Others PROVE NodeWell(up, x, got[x])'
  <2>1. NodeWell(up, x, got[x])
    BY DEF Follows
  <2>2. /\ tracked'[x] = tracked[x] /\ radios'[x] = radios[x]
        /\ activeCalls'[x] = activeCalls[x] /\ heard'[x] = heard[x]
        /\ reader' = reader /\ held' = held
    BY DEF OnlyTalker
  <2>3. SeenWell(x, got[x])'
    BY <2>1, <2>2 DEF NodeWell, SeenWell
  <2>4. LoopWell(Way(up, x), got[x])'
    BY <2>1, <2>2 DEF NodeWell, LoopWell, Way, Grp!Nothing
  <2>5. CallWell(Way(up, x), x, got[x])'
    BY <2>1, <2>2 DEF NodeWell, CallWell, Way
  <2> QED BY <2>3, <2>4, <2>5 DEF NodeWell, Way
<1>2. ASSUME NEW x \in Others PROVE Told(up, got, x)' = Told(up, got, x)
  BY DEF Told, Others, Way, OnlyTalker
<1>3. ASSUME NEW x \in Others, net'[Way(up, x)] = net[Way(up, x)] PROVE LinkWell(up, depth, x)'
  BY <1>3 DEF OnlyTalker, Follows, LinkWell, Way
<1> QED BY <1>1, <1>2, <1>3

\* It works on the call without a word to the federation.
LEMMA TalkerInner ==
    ASSUME NEW up, NEW depth, Grp!Tree(up, depth), OnlyTalker,
           GroupInv(up, depth), GroupTyped', TalkerWell', net' = net, TalkerTold' = TalkerTold
    PROVE  GroupInv(up, depth)'
<1>1. PICK got \in [Node -> Nat] : Follows(up, depth, got)
  BY DEF GroupInv
<1>2. /\ \A x \in Others : NodeWell(up, x, got[x])'
      /\ \A x \in Others : Told(up, got, x)' = Told(up, got, x)
      /\ \A x \in Others : LinkWell(up, depth, x)'
  BY <1>1, TalkerOthers
<1>3. Told(up, got, Talker)' = Told(up, got, Talker)
  BY DEF Told
<1>4. ASSUME NEW x \in Others PROVE Chain(net[Way(up, x)], got[x], Told(up, got, up[x]))'
  <2>1. Chain(net[Way(up, x)], got[x], Told(up, got, up[x]))
    BY <1>1 DEF Follows
  <2>2. Told(up, got, up[x])' = Told(up, got, up[x])
    BY <1>2, <1>3, WayFacts DEF Others
  <2> QED BY <2>1, <2>2 DEF Way
<1>5. Follows(up, depth, got)'
  BY <1>2, <1>4 DEF Follows
<1>6. QuietBack(up)'
  BY DEF GroupInv, QuietBack, OnlyTalker, Away, Way, Grp!Nothing
<1> QED BY <1>1, <1>5, <1>6 DEF GroupInv

\* It says something.
LEMMA TalkerSpeaks ==
    ASSUME NEW up, NEW depth, Grp!Tree(up, depth), OnlyTalker, NEW w, Speaks(up, w),
           GroupInv(up, depth), GroupTyped', TalkerWell'
    PROVE  GroupInv(up, depth)'
<1>0. /\ w \in Signals /\ w.path = {Talker} /\ Num(w) = TalkerTold + Adds(w)
      /\ TalkerTold' = Num(w) /\ net' = Grp!Send(Talker, Children(up, Talker), w)
  BY DEF Speaks
<1>1. PICK got \in [Node -> Nat] : Follows(up, depth, got)
  BY DEF GroupInv
<1>2. /\ \A x \in Others : NodeWell(up, x, got[x])'
      /\ \A x \in Others : Told(up, got, x)' = Told(up, got, x)
      /\ \A x \in Others : net'[Way(up, x)] = net[Way(up, x)] => LinkWell(up, depth, x)'
  BY <1>1, TalkerOthers
<1>3. Told(up, got, Talker)' = Num(w) /\ Told(up, got, Talker) = TalkerTold
  BY <1>0 DEF Told
<1>4. TalkerTold \in Int
  BY DEF TalkerTold, GroupInv, GroupTyped, Grp!Tree
<1>5. /\ \A c \in Others :
            net'[Way(up, c)] = IF up[c] = Talker THEN Append(net[Way(up, c)], w) ELSE net[Way(up, c)]
      /\ \A l \in Line : ~Away(up, l) => net'[l] = net[l]
  <2>1. net \in [Line -> Seq(Signals)] /\ Talker \in Node
    BY DEF GroupInv, GroupTyped, Grp!Tree
  <2> QED BY <1>0, <2>1, SendDown
<1>6. PathWell(depth, w, Talker)
  BY <1>0 DEF PathWell, Grp!Tree
<1>7. ASSUME NEW x \in Others, up[x] = Talker
      PROVE  LinkWell(up, depth, x)' /\ Chain(net[Way(up, x)], got[x], Told(up, got, up[x]))'
  <2>1. net[Way(up, x)] \in Seq(Signals) /\ got[x] \in Int
    BY <1>1, WayFacts DEF GroupInv, GroupTyped, Others
  <2>2. reader'[Way(up, x)] = reader[Way(up, x)] /\ held'[Way(up, x)] = held[Way(up, x)]
    BY DEF OnlyTalker
  <2>3. net'[Way(up, x)] = Append(net[Way(up, x)], w)
    BY <1>5, <1>7
  <2>4. PathWell(depth, w, up[x]) /\ LinkWell(up, depth, x)
    BY <1>1, <1>6, <1>7 DEF Follows
  <2>5. Chain(net[Way(up, x)], got[x], TalkerTold)
    BY <1>1, <1>3, <1>7 DEF Follows
  <2>6. Chain(Append(net[Way(up, x)], w), got[x], Num(w))
    BY <1>0, <1>4, <2>1, <2>5, ChainAppend
  <2>7. LinkWell(up, depth, x)'
    BY <2>1, <2>2, <2>3, <2>4, LinkGrows
  <2> QED BY <1>3, <1>7, <2>3, <2>6, <2>7 DEF Way
<1>8. ASSUME NEW x \in Others, up[x] # Talker
      PROVE  LinkWell(up, depth, x)' /\ Chain(net[Way(up, x)], got[x], Told(up, got, up[x]))'
  <2>1. net'[Way(up, x)] = net[Way(up, x)]
    BY <1>5, <1>8
  <2>2. Told(up, got, up[x])' = Told(up, got, up[x])
    BY <1>2, <1>8, WayFacts DEF Others
  <2>3. Chain(net[Way(up, x)], got[x], Told(up, got, up[x]))
    BY <1>1 DEF Follows
  <2> QED BY <1>2, <2>1, <2>2, <2>3 DEF Way
<1>9. Follows(up, depth, got)'
  BY <1>2, <1>7, <1>8 DEF Follows
<1>10. QuietBack(up)'
  BY <1>5 DEF GroupInv, QuietBack, OnlyTalker, Away, Way, Grp!Nothing
<1> QED BY <1>1, <1>9, <1>10 DEF GroupInv

-----------------------------------------------------------------------------
(* The steps of the talker's server.                                       *)

LEMMA TalkerWorks ==
    ASSUME NEW up, NEW depth, Grp!Tree(up, depth), GroupInv(up, depth),
           Grp!Begin \/ Grp!TellStart \/ Grp!IdleInjected \/ Grp!Finish \/ Grp!TellEnd
    PROVE  GroupInv(up, depth)'
<1>1. Talker \in Node /\ Talker \notin Others /\ Others \subseteq Node /\ MaxSpurts \in Nat
  BY DEF Grp!Tree, Others
<1>2. GroupTyped /\ TalkerWell
  BY DEF GroupInv
<1>3. CASE Grp!Begin
  <2>1. GroupTyped'
    <3>1. spurts' \in 0 .. MaxSpurts /\ at' \in Grp!Stage
      BY <1>1, <1>2, <1>3 DEF GroupTyped, Grp!Begin, Grp!Origin, Grp!Stage
    <3>2. spoken' \in BOOLEAN /\ tracked' \in [Node -> BOOLEAN]
      BY <1>1, <1>2, <1>3 DEF GroupTyped, Grp!Begin
    <3> QED BY <1>2, <1>3, <3>1, <3>2 DEF GroupTyped, Grp!Begin
  <2>2. OnlyTalker
    BY <1>1, <1>2, <1>3 DEF GroupTyped, Grp!Begin, OnlyTalker
  <2>3. TalkerWell' /\ net' = net /\ TalkerTold' = TalkerTold
    BY <1>1, <1>2, <1>3 DEF GroupTyped, TalkerWell, TalkerTold, Grp!Begin, Grp!Origin
  <2> QED BY <2>1, <2>2, <2>3, TalkerInner
<1>4. CASE Grp!TellStart
  <2>1. Grp!Listeners \in BOOLEAN
    BY <1>2 DEF GroupTyped, Grp!Listeners
  <2>2. GroupTyped'
    BY <1>1, <1>2, <1>4, <2>1 DEF GroupTyped, Grp!TellStart, Grp!Origin, Grp!Stage
  <2>3. OnlyTalker
    BY <1>1, <1>2, <1>4 DEF GroupTyped, Grp!TellStart, OnlyTalker
  <2>4. TalkerWell' /\ net' = net /\ TalkerTold' = TalkerTold
    BY <1>1, <1>2, <1>4, <2>1 DEF GroupTyped, TalkerWell, TalkerTold, Grp!TellStart, Grp!Origin
  <2> QED BY <2>2, <2>3, <2>4, TalkerInner
<1>5. CASE Grp!IdleInjected
  <2>1. GroupTyped'
    BY <1>1, <1>2, <1>5 DEF GroupTyped, Grp!IdleInjected, Grp!speaker
  <2>2. OnlyTalker
    BY <1>1, <1>2, <1>5 DEF GroupTyped, Grp!IdleInjected, OnlyTalker
  <2>3. TalkerWell' /\ net' = net /\ TalkerTold' = TalkerTold
    BY <1>1, <1>2, <1>5 DEF GroupTyped, TalkerWell, TalkerTold, Grp!IdleInjected, Grp!speaker
  <2> QED BY <2>1, <2>2, <2>3, TalkerInner
<1>6. CASE Grp!Finish
  <2>1. GroupTyped'
    BY <1>1, <1>2, <1>6 DEF GroupTyped, Grp!Finish, Grp!Origin, Grp!Stage
  <2>2. OnlyTalker
    BY <1>1, <1>2, <1>6 DEF GroupTyped, Grp!Finish, OnlyTalker
  <2>3. TalkerWell' /\ net' = net /\ TalkerTold' = TalkerTold
    BY <1>1, <1>2, <1>6 DEF GroupTyped, TalkerWell, TalkerTold, Grp!Finish, Grp!Origin
  <2> QED BY <2>1, <2>2, <2>3, TalkerInner
<1>7. CASE Grp!TellEnd
  <2>1. GroupTyped'
    BY <1>1, <1>2, <1>7 DEF GroupTyped, Grp!TellEnd, Grp!Origin, Grp!Stage
  <2>2. OnlyTalker
    BY <1>1, <1>2, <1>7 DEF GroupTyped, Grp!TellEnd, OnlyTalker
  <2>3. TalkerWell' /\ net' = net /\ TalkerTold' = TalkerTold
    BY <1>1, <1>2, <1>7 DEF GroupTyped, TalkerWell, TalkerTold, Grp!TellEnd, Grp!Origin
  <2> QED BY <2>1, <2>2, <2>3, TalkerInner
<1> QED BY <1>3, <1>4, <1>5, <1>6, <1>7

LEMMA TalkerBroadcasts ==
    ASSUME NEW up, NEW depth, Grp!Tree(up, depth), GroupInv(up, depth),
           Grp!BroadcastCallStart \/ Grp!Speak \/ Grp!BroadcastCallEnd
    PROVE  GroupInv(up, depth)'
<1>1. Talker \in Node /\ Talker \notin Others /\ Others \subseteq Node /\ MaxSpurts \in Nat
  BY DEF Grp!Tree, Others
<1>2. GroupTyped /\ TalkerWell
  BY DEF GroupInv
<1>3. net \in [Line -> Seq(Signals)] /\ Grp!PeersOf(Talker) = Children(up, Talker)
  BY <1>2, TalkerPeers DEF GroupTyped
<1>4. (UNION activeCalls[Talker]) \subseteq Node /\ Children(up, Talker) \subseteq Node
  BY <1>1, <1>2 DEF GroupTyped, Children
<1>5. ASSUME NEW k \in {"start", "end", "voice"}, spurts # 0
      PROVE  /\ Grp!Message(k, spurts, {Talker}) \in Signals
             /\ Grp!Message(k, spurts, {Talker}).path = {Talker}
             /\ Num(Grp!Message(k, spurts, {Talker})) = IF k = "end" THEN 2 * spurts ELSE 2 * spurts - 1
             /\ Adds(Grp!Message(k, spurts, {Talker})) = IF k = "voice" THEN 0 ELSE 1
  BY <1>1, <1>2, <1>5 DEF Grp!Message, Signals, GroupTyped, Num, Adds
<1>6. ASSUME NEW w \in Signals, net' = Grp!Send(Talker, Children(up, Talker), w)
      PROVE  net' \in [Line -> Seq(Signals)]
  BY <1>1, <1>3, <1>6, SendDown
<1>7. CASE Grp!BroadcastCallStart
  <2>1. at = "notify" /\ at' = "tell" /\ spurts' = spurts /\ spurts # 0
    BY <1>2, <1>7 DEF Grp!BroadcastCallStart, Grp!Origin, TalkerWell
  <2>2. PICK w : w = Grp!Message("start", spurts, {Talker})
    OBVIOUS
  <2>3. w \in Signals /\ w.path = {Talker} /\ Num(w) = 2 * spurts - 1 /\ Adds(w) = 1
    BY <1>5, <2>1, <2>2
  <2>4. net' = Grp!Send(Talker, Children(up, Talker), w)
    BY <1>3, <1>7, <2>2 DEF Grp!BroadcastCallStart
  <2>5. Speaks(up, w)
    BY <1>2, <2>1, <2>3, <2>4 DEF Speaks, TalkerTold, GroupTyped
  <2>6. GroupTyped'
    <3>1. net' \in [Line -> Seq(Signals)]
      BY <1>6, <2>3, <2>4
    <3>2. {(UNION activeCalls[Talker]) \cup Grp!PeersOf(Talker)} \in SUBSET SUBSET Node
      BY <1>3, <1>4
    <3>3. <<"start", spurts>> \in {"start", "end"} \X Nat
      BY <1>2 DEF GroupTyped
    <3> QED BY <1>1, <1>2, <1>7, <3>1, <3>2, <3>3 DEF GroupTyped, Grp!BroadcastCallStart, Grp!Origin, Grp!Stage
  <2>7. OnlyTalker
    BY <1>1, <1>2, <1>7 DEF GroupTyped, Grp!BroadcastCallStart, OnlyTalker
  <2>8. TalkerWell'
    BY <2>1 DEF TalkerWell
  <2> QED BY <2>5, <2>6, <2>7, <2>8, TalkerSpeaks
<1>8. CASE Grp!BroadcastCallEnd
  <2>1. at = "notifyEnd" /\ at' = "lastTell" /\ spurts' = spurts /\ spurts # 0
    BY <1>2, <1>8 DEF Grp!BroadcastCallEnd, Grp!Origin, TalkerWell
  <2>2. PICK w : w = Grp!Message("end", spurts, {Talker})
    OBVIOUS
  <2>3. w \in Signals /\ w.path = {Talker} /\ Num(w) = 2 * spurts /\ Adds(w) = 1
    BY <1>5, <2>1, <2>2
  <2>4. net' = Grp!Send(Talker, Children(up, Talker), w)
    BY <1>3, <1>8, <2>2 DEF Grp!BroadcastCallEnd
  <2>5. Speaks(up, w)
    BY <1>2, <2>1, <2>3, <2>4 DEF Speaks, TalkerTold, GroupTyped
  <2>6. GroupTyped'
    <3>1. net' \in [Line -> Seq(Signals)]
      BY <1>6, <2>3, <2>4
    <3>2. {} \in SUBSET SUBSET Node
      OBVIOUS
    <3>3. <<"end", spurts>> \in {"start", "end"} \X Nat
      BY <1>2 DEF GroupTyped
    <3> QED BY <1>1, <1>2, <1>8, <3>1, <3>2, <3>3 DEF GroupTyped, Grp!BroadcastCallEnd, Grp!Origin, Grp!Stage
  <2>7. OnlyTalker
    BY <1>1, <1>2, <1>8 DEF GroupTyped, Grp!BroadcastCallEnd, OnlyTalker
  <2>8. TalkerWell'
    BY <1>1, <1>2, <1>8, <2>1 DEF TalkerWell, GroupTyped, Grp!BroadcastCallEnd
  <2> QED BY <2>5, <2>6, <2>7, <2>8, TalkerSpeaks
<1>9. CASE Grp!Speak
  <2>1. at = "talking" /\ at' = at /\ spurts' = spurts /\ spurts # 0 /\ spoken' = TRUE
    BY <1>2, <1>9 DEF Grp!Speak, TalkerWell
  <2>2. OnlyTalker /\ TalkerWell' /\ TalkerTold' = TalkerTold
    BY <1>2, <1>9 DEF Grp!Speak, OnlyTalker, TalkerWell, TalkerTold
  <2>3. net' \in [Line -> Seq(Signals)] => GroupTyped'
    BY <1>2, <1>9, <2>1 DEF GroupTyped, Grp!Speak
  <2>4. CASE source = "station"
    <3>1. PICK w : w = Grp!Message("voice", spurts, {Talker})
      OBVIOUS
    <3>2. w \in Signals /\ w.path = {Talker} /\ Num(w) = 2 * spurts - 1 /\ Adds(w) = 0
      BY <1>5, <2>1, <3>1
    <3>3. net' = Grp!Send(Talker, Children(up, Talker), w)
      BY <1>3, <1>9, <2>4, <3>1 DEF Grp!Speak
    <3>4. Speaks(up, w)
      BY <1>2, <2>1, <2>2, <3>2, <3>3 DEF Speaks, TalkerTold, GroupTyped
    <3>5. GroupTyped'
      BY <1>6, <2>3, <3>2, <3>3
    <3> QED BY <2>2, <3>4, <3>5, TalkerSpeaks
  <2>5. CASE source # "station"
    <3>1. net' = net
      BY <1>9, <2>5 DEF Grp!Speak
    <3> QED BY <1>3, <2>2, <2>3, <3>1, TalkerInner
  <2> QED BY <2>4, <2>5
<1> QED BY <1>7, <1>8, <1>9

-----------------------------------------------------------------------------
(* The steps of a read loop.                                               *)

\* The message at the head of n's stream is the next one.
LEMMA NextOne ==
    ASSUME NEW up, NEW depth, Grp!Tree(up, depth), GroupInv(up, depth), NEW n \in Others,
           NEW m, m \in Grp!Arrived(Way(up, n))
    PROVE  /\ m \in Signals /\ m = Head(net[Way(up, n)]) /\ net[Way(up, n)] # <<>>
           /\ reader[Way(up, n)] = "recv"
           /\ \E g \in Nat : NodeWell(up, n, g) /\ Num(m) = g + Adds(m)
<1>1. m = Head(net[Way(up, n)]) /\ net[Way(up, n)] # <<>> /\ reader[Way(up, n)] = "recv"
  BY DEF Grp!Arrived
<1>2. PICK got \in [Node -> Nat] : Follows(up, depth, got)
  BY DEF GroupInv
<1>3. /\ net[Way(up, n)] \in Seq(Signals) /\ got[n] \in Nat
      /\ NodeWell(up, n, got[n]) /\ Chain(net[Way(up, n)], got[n], Told(up, got, up[n]))
  BY <1>2, WayFacts DEF GroupInv, GroupTyped, Follows, Others
<1>4. Told(up, got, up[n]) \in Int
  BY <1>2, WayFacts DEF Told, TalkerTold, GroupInv, GroupTyped
<1> QED BY <1>1, <1>3, <1>4, ChainTail

LEMMA TakesStart ==
    ASSUME NEW up, NEW depth, Grp!Tree(up, depth), GroupInv(up, depth), NEW n \in Others,
           Grp!HandleStart(Way(up, n))
    PROVE  GroupInv(up, depth)'
<1>1. /\ Way(up, n) \in Line /\ Way(up, n)[2] = n /\ n \in Node /\ GroupTyped
  BY WayFacts DEF GroupInv
<1>2. PICK m \in Grp!Arrived(Way(up, n)) :
         /\ m.kind = "start"
         /\ Grp!Take(Way(up, n), m, IF Grp!New(n, m) THEN "track" ELSE "recv")
         /\ heard' = [heard EXCEPT ![n] = heard[n] \cup {<<"start", m.id>>}]
         /\ radios' = [radios EXCEPT ![n] = IF Grp!New(n, m) THEN "hearing" ELSE radios[n]]
         /\ UNCHANGED <<Grp!speaker, tracked, activeCalls, stray, panicked>>
  BY <1>1 DEF Grp!HandleStart
<1>3. /\ m \in Signals /\ m = Head(net[Way(up, n)]) /\ net[Way(up, n)] # <<>>
      /\ reader[Way(up, n)] = "recv"
  BY <1>2, NextOne
<1>4. PICK now \in Nat : NodeWell(up, n, now) /\ Num(m) = now + Adds(m)
  BY <1>2, NextOne
<1>5. m.id \in Nat \ {0} /\ Num(m) = 2 * m.id - 1 /\ Adds(m) = 1 /\ Odd(Num(m)) /\ m # Grp!Nothing
  BY <1>2, <1>3, Numbers DEF Adds
<1>6. Grp!New(n, m)
  <2>1. <<"start", m.id>> \in heard[n] <=> 2 * m.id - 1 <= now
    BY <1>4, <1>5 DEF NodeWell, SeenWell
  <2>2. ~(2 * m.id - 1 <= now)
    BY <1>4, <1>5
  <2> QED BY <1>2, <2>1, <2>2 DEF Grp!New
<1>7. /\ net' = [net EXCEPT ![Way(up, n)] = Tail(net[Way(up, n)])]
      /\ reader' = [reader EXCEPT ![Way(up, n)] = "track"]
      /\ held' = [held EXCEPT ![Way(up, n)] = m]
      /\ radios' = [radios EXCEPT ![n] = "hearing"]
  BY <1>2, <1>6 DEF Grp!Take
<1>8. /\ reader'[Way(up, n)] = "track" /\ held'[Way(up, n)] = m /\ radios'[n] = "hearing"
      /\ heard'[n] = heard[n] \cup {<<"start", m.id>>}
      /\ tracked' = tracked /\ activeCalls' = activeCalls
  BY <1>1, <1>2, <1>7 DEF GroupTyped
<1>9. GroupTyped'
  <2>1. Tail(net[Way(up, n)]) \in Seq(Signals)
    BY <1>1, <1>3 DEF GroupTyped
  <2>2. <<"start", m.id>> \in {"start", "end"} \X Nat /\ "track" \in Starting
    BY <1>5 DEF Starting
  <2>3. net' \in [Line -> Seq(Signals)] /\ reader' \in [Line -> {"recv"} \cup Starting \cup Ending]
        /\ held' \in [Line -> Signals \cup {Grp!Nothing}]
    BY <1>1, <1>3, <1>7, <2>1, <2>2 DEF GroupTyped
  <2>4. /\ heard' \in [Node -> SUBSET ({"start", "end"} \X Nat)]
        /\ radios' \in [Node -> {"quiet", "hearing"}]
    BY <1>1, <1>2, <1>7, <2>2 DEF GroupTyped
  <2> QED BY <1>1, <1>2, <2>3, <2>4 DEF GroupTyped, Grp!speaker
<1>10. OnlyAt(up, n)
  BY <1>1, <1>2, <1>7 DEF OnlyAt, GroupTyped, Grp!speaker
<1>11. ASSUME NEW g \in Nat, NodeWell(up, n, g), Num(m) = g + Adds(m)
       PROVE  NodeWell(up, n, Num(m))'
  <2>1. SeenWell(n, Num(m))'
    <3> SUFFICES ASSUME NEW i \in Nat \ {0}
                 PROVE  /\ <<"start", i>> \in heard'[n] <=> 2 * i - 1 <= Num(m)
                        /\ <<"end", i>> \in heard'[n] <=> 2 * i <= Num(m)
      BY DEF SeenWell, Num
    <3>1. /\ <<"start", i>> \in heard[n] <=> 2 * i - 1 <= g
          /\ <<"end", i>> \in heard[n] <=> 2 * i <= g
      BY <1>11 DEF NodeWell, SeenWell
    <3>2. /\ <<"start", i>> \in heard'[n] <=> <<"start", i>> \in heard[n] \/ i = m.id
          /\ <<"end", i>> \in heard'[n] <=> <<"end", i>> \in heard[n]
      BY <1>8
    <3>3. /\ 2 * i - 1 <= Num(m) <=> 2 * i - 1 <= g \/ i = m.id
          /\ 2 * i <= Num(m) <=> 2 * i <= g
      BY <1>5, <1>11
    <3> QED BY <3>1, <3>2, <3>3
  <2>2. LoopWell(Way(up, n), Num(m))'
    BY <1>2, <1>5, <1>8 DEF LoopWell, Way, Starting, Ending, Grp!Nothing
  <2>3. ~Odd(g)
    BY <1>5, <1>11 DEF Odd
  <2>4. CallWell(Way(up, n), n, Num(m))'
    <3>1. ~tracked[n] /\ activeCalls[n] = {}
      BY <1>3, <1>11, <2>3 DEF NodeWell, CallWell
    <3> QED BY <1>5, <1>8, <3>1 DEF CallWell, Way
  <2> QED BY <2>1, <2>2, <2>4 DEF NodeWell, Way
<1>12. TakesIn(up, n, m)
  BY <1>2, <1>3, <1>7, <1>8, <1>10, <1>11 DEF TakesIn
<1> QED BY <1>9, <1>12, TakeStep

LEMMA TakesEnd ==
    ASSUME NEW up, NEW depth, Grp!Tree(up, depth), GroupInv(up, depth), NEW n \in Others,
           Grp!HandleEnd(Way(up, n))
    PROVE  GroupInv(up, depth)'
<1>1. /\ Way(up, n) \in Line /\ Way(up, n)[2] = n /\ n \in Node /\ GroupTyped
  BY WayFacts DEF GroupInv
<1>2. PICK m \in Grp!Arrived(Way(up, n)) :
         /\ m.kind = "end"
         /\ Grp!Take(Way(up, n), m,
                     IF ~Grp!New(n, m) THEN "recv" ELSE IF tracked[n] THEN "untrack" ELSE "forget")
         /\ heard' = [heard EXCEPT ![n] = heard[n] \cup {<<"end", m.id>>}]
         /\ radios' = [radios EXCEPT ![n] = IF Grp!New(n, m) /\ tracked[n] THEN "quiet" ELSE radios[n]]
         /\ UNCHANGED <<Grp!speaker, tracked, activeCalls, stray, panicked>>
  BY <1>1 DEF Grp!HandleEnd
<1>3. /\ m \in Signals /\ m = Head(net[Way(up, n)]) /\ net[Way(up, n)] # <<>>
      /\ reader[Way(up, n)] = "recv"
  BY <1>2, NextOne
<1>4. PICK now \in Nat : NodeWell(up, n, now) /\ Num(m) = now + Adds(m)
  BY <1>2, NextOne
<1>5. m.id \in Nat \ {0} /\ Num(m) = 2 * m.id /\ Adds(m) = 1 /\ ~Odd(Num(m)) /\ m # Grp!Nothing
  BY <1>2, <1>3, Numbers DEF Adds
<1>6. Grp!New(n, m)
  <2>1. <<"end", m.id>> \in heard[n] <=> 2 * m.id <= now
    BY <1>4, <1>5 DEF NodeWell, SeenWell
  <2>2. ~(2 * m.id <= now)
    BY <1>4, <1>5
  <2> QED BY <1>2, <2>1, <2>2 DEF Grp!New
<1>7. ASSUME NEW g \in Nat, NodeWell(up, n, g), Num(m) = g + Adds(m)
      PROVE  tracked[n] /\ activeCalls[n] # {}
  <2>1. Odd(g)
    BY <1>5, <1>7 DEF Odd
  <2> QED BY <1>3, <1>7, <2>1 DEF NodeWell, CallWell
<1>8. /\ net' = [net EXCEPT ![Way(up, n)] = Tail(net[Way(up, n)])]
      /\ reader' = [reader EXCEPT ![Way(up, n)] = "untrack"]
      /\ held' = [held EXCEPT ![Way(up, n)] = m]
      /\ radios' = [radios EXCEPT ![n] = "quiet"]
  <2>1. tracked[n]
    BY <1>4, <1>7
  <2> QED BY <1>2, <1>6, <2>1 DEF Grp!Take
<1>9. /\ reader'[Way(up, n)] = "untrack" /\ held'[Way(up, n)] = m /\ radios'[n] = "quiet"
      /\ heard'[n] = heard[n] \cup {<<"end", m.id>>}
      /\ tracked' = tracked /\ activeCalls' = activeCalls
  BY <1>1, <1>2, <1>8 DEF GroupTyped
<1>10. GroupTyped'
  <2>1. Tail(net[Way(up, n)]) \in Seq(Signals)
    BY <1>1, <1>3 DEF GroupTyped
  <2>2. <<"end", m.id>> \in {"start", "end"} \X Nat /\ "untrack" \in Ending
    BY <1>5 DEF Ending
  <2>3. net' \in [Line -> Seq(Signals)] /\ reader' \in [Line -> {"recv"} \cup Starting \cup Ending]
        /\ held' \in [Line -> Signals \cup {Grp!Nothing}]
    BY <1>1, <1>3, <1>8, <2>1, <2>2 DEF GroupTyped
  <2>4. /\ heard' \in [Node -> SUBSET ({"start", "end"} \X Nat)]
        /\ radios' \in [Node -> {"quiet", "hearing"}]
    BY <1>1, <1>2, <1>8, <2>2 DEF GroupTyped
  <2> QED BY <1>1, <1>2, <2>3, <2>4 DEF GroupTyped, Grp!speaker
<1>11. OnlyAt(up, n)
  BY <1>1, <1>2, <1>8 DEF OnlyAt, GroupTyped, Grp!speaker
<1>12. ASSUME NEW g \in Nat, NodeWell(up, n, g), Num(m) = g + Adds(m)
       PROVE  NodeWell(up, n, Num(m))'
  <2>1. SeenWell(n, Num(m))'
    <3> SUFFICES ASSUME NEW i \in Nat \ {0}
                 PROVE  /\ <<"start", i>> \in heard'[n] <=> 2 * i - 1 <= Num(m)
                        /\ <<"end", i>> \in heard'[n] <=> 2 * i <= Num(m)
      BY DEF SeenWell, Num
    <3>1. /\ <<"start", i>> \in heard[n] <=> 2 * i - 1 <= g
          /\ <<"end", i>> \in heard[n] <=> 2 * i <= g
      BY <1>12 DEF NodeWell, SeenWell
    <3>2. /\ <<"start", i>> \in heard'[n] <=> <<"start", i>> \in heard[n]
          /\ <<"end", i>> \in heard'[n] <=> <<"end", i>> \in heard[n] \/ i = m.id
      BY <1>9
    <3>3. /\ 2 * i - 1 <= Num(m) <=> 2 * i - 1 <= g
          /\ 2 * i <= Num(m) <=> 2 * i <= g \/ i = m.id
      BY <1>5, <1>12
    <3> QED BY <3>1, <3>2, <3>3
  <2>2. LoopWell(Way(up, n), Num(m))'
    BY <1>2, <1>5, <1>9 DEF LoopWell, Way, Starting, Ending, Grp!Nothing
  <2>3. CallWell(Way(up, n), n, Num(m))'
    <3>1. tracked[n] /\ activeCalls[n] # {}
      BY <1>7, <1>12
    <3> QED BY <1>5, <1>9, <3>1 DEF CallWell, Way
  <2> QED BY <2>1, <2>2, <2>3 DEF NodeWell, Way
<1>13. TakesIn(up, n, m)
  BY <1>2, <1>3, <1>8, <1>9, <1>11, <1>12 DEF TakesIn
<1> QED BY <1>10, <1>13, TakeStep

LEMMA TakesVoice ==
    ASSUME NEW up, NEW depth, Grp!Tree(up, depth), GroupInv(up, depth), NEW n \in Others,
           Grp!HandleVoice(Way(up, n))
    PROVE  GroupInv(up, depth)'
<1>1. /\ Way(up, n) \in Line /\ Way(up, n)[2] = n /\ n \in Node /\ GroupTyped
  BY WayFacts DEF GroupInv
<1>2. PICK m \in Grp!Arrived(Way(up, n)) :
         /\ m.kind = "voice"
         /\ Grp!Take(Way(up, n), m, "recv")
         /\ stray' = IF tracked[n] /\ radios[n] = "quiet" THEN stray \cup {n} ELSE stray
         /\ UNCHANGED <<Grp!speaker, tracked, radios, activeCalls, heard, panicked>>
  BY <1>1 DEF Grp!HandleVoice
<1>3. /\ m \in Signals /\ m = Head(net[Way(up, n)]) /\ net[Way(up, n)] # <<>>
      /\ reader[Way(up, n)] = "recv"
  BY <1>2, NextOne
<1>4. PICK now \in Nat : NodeWell(up, n, now) /\ Num(m) = now + Adds(m)
  BY <1>2, NextOne
<1>5. Num(m) \in Nat /\ Adds(m) = 0 /\ Odd(Num(m))
  BY <1>2, <1>3, Numbers DEF Adds
<1>6. radios[n] = "hearing"
  BY <1>4, <1>5 DEF NodeWell, CallWell
<1>7. held[Way(up, n)] = Grp!Nothing
  BY <1>3, <1>4 DEF NodeWell, LoopWell
<1>8. /\ net' = [net EXCEPT ![Way(up, n)] = Tail(net[Way(up, n)])]
      /\ reader' = reader /\ held' = held /\ stray' = stray
  <2>1. reader' = reader /\ held' = held
    BY <1>1, <1>2, <1>3, <1>7 DEF Grp!Take, GroupTyped
  <2> QED BY <1>2, <1>6, <2>1 DEF Grp!Take
<1>9. GroupTyped'
  <2>1. Tail(net[Way(up, n)]) \in Seq(Signals)
    BY <1>1, <1>3 DEF GroupTyped
  <2>2. net' \in [Line -> Seq(Signals)]
    BY <1>1, <1>8, <2>1 DEF GroupTyped
  <2> QED BY <1>1, <1>2, <1>8, <2>2 DEF GroupTyped, Grp!speaker
<1>10. OnlyAt(up, n)
  BY <1>2, <1>8 DEF OnlyAt, Grp!speaker
<1>11. ASSUME NEW g \in Nat, NodeWell(up, n, g), Num(m) = g + Adds(m)
       PROVE  NodeWell(up, n, Num(m))'
  <2>1. Num(m) = g
    BY <1>5, <1>11
  <2>2. NodeWell(up, n, g)'
    BY <1>2, <1>8, <1>11 DEF NodeWell, SeenWell, LoopWell, CallWell, Way, Grp!Nothing
  <2> QED BY <2>1, <2>2
<1>12. TakesIn(up, n, m)
  BY <1>2, <1>3, <1>8, <1>10, <1>11 DEF TakesIn
<1> QED BY <1>9, <1>12, TakeStep

\* Between two locks.
LEMMA WorksOn ==
    ASSUME NEW up, NEW depth, Grp!Tree(up, depth), GroupInv(up, depth), NEW n \in Others,
           \/ Grp!Track(Way(up, n)) \/ Grp!Note(Way(up, n))
           \/ Grp!Untrack(Way(up, n)) \/ Grp!Forget(Way(up, n))
    PROVE  GroupInv(up, depth)'
<1> DEFINE l == Way(up, n)
<1>1. /\ l \in Line /\ l[2] = n /\ n \in Node /\ GroupTyped
  BY WayFacts DEF GroupInv
<1>2. PICK got \in Nat : NodeWell(up, n, got)
  BY <1>1 DEF GroupInv, Follows
<1> HIDE DEF l
<1>3. CASE Grp!Track(l)
  <2>1. /\ reader[l] = "track" /\ reader' = [reader EXCEPT ![l] = "note"] /\ held' = held
        /\ tracked' = [tracked EXCEPT ![n] = TRUE]
        /\ UNCHANGED <<Grp!speaker, radios, activeCalls, net, heard, stray, panicked>>
    BY <1>1, <1>3 DEF Grp!Track, Grp!Step, GroupTyped
  <2>2. reader'[l] = "note" /\ held'[l] = held[l] /\ tracked'[n] /\ radios'[n] = radios[n]
        /\ activeCalls'[n] = activeCalls[n]
    BY <1>1, <2>1 DEF GroupTyped
  <2>3. GroupTyped' /\ OnlyAt(up, n)
    BY <1>1, <2>1 DEF GroupTyped, OnlyAt, Starting, Grp!speaker, l
  <2>4. ASSUME NEW g \in Nat, LoopWell(l, g), CallWell(l, n, g) PROVE (LoopWell(l, g) /\ CallWell(l, n, g))'
    <3>1. Odd(g)
      <4>1. held[l] \in Signals /\ held[l].kind = "start" /\ Num(held[l]) = g
        BY <1>1, <2>1, <2>4 DEF LoopWell, GroupTyped, Starting
      <4> QED BY <4>1, Numbers
    <3>2. LoopWell(l, g)'
      BY <2>1, <2>2, <2>4 DEF LoopWell, Starting, Ending, l, Way, Grp!Nothing
    <3>3. CallWell(l, n, g)'
      BY <2>1, <2>2, <2>4, <3>1 DEF CallWell, l, Way
    <3> QED BY <3>2, <3>3
  <2> QED BY <2>1, <2>2, <2>3, <2>4, InnerStep DEF l
<1>4. CASE Grp!Note(l)
  <2>1. /\ reader[l] = "note" /\ reader' = [reader EXCEPT ![l] = "relay"] /\ held' = held
        /\ activeCalls' = [activeCalls EXCEPT ![n] = IF activeCalls[n] = {} THEN {{}} ELSE activeCalls[n]]
        /\ UNCHANGED <<Grp!speaker, radios, tracked, net, heard, stray, panicked>>
    BY <1>1, <1>4 DEF Grp!Note, Grp!Step, GroupTyped
  <2>2. reader'[l] = "relay" /\ held'[l] = held[l] /\ tracked'[n] = tracked[n] /\ radios'[n] = radios[n]
        /\ activeCalls'[n] # {}
    BY <1>1, <2>1 DEF GroupTyped
  <2>3. GroupTyped' /\ OnlyAt(up, n)
    <3>1. {{}} \in SUBSET SUBSET Node
      OBVIOUS
    <3> QED BY <1>1, <2>1, <3>1 DEF GroupTyped, OnlyAt, Starting, Grp!speaker, l
  <2>4. ASSUME NEW g \in Nat, LoopWell(l, g), CallWell(l, n, g) PROVE (LoopWell(l, g) /\ CallWell(l, n, g))'
    <3>1. Odd(g)
      <4>1. held[l] \in Signals /\ held[l].kind = "start" /\ Num(held[l]) = g
        BY <1>1, <2>1, <2>4 DEF LoopWell, GroupTyped, Starting
      <4> QED BY <4>1, Numbers
    <3>2. LoopWell(l, g)'
      BY <2>1, <2>2, <2>4 DEF LoopWell, Starting, Ending, l, Way, Grp!Nothing
    <3>3. CallWell(l, n, g)'
      BY <2>1, <2>2, <2>4, <3>1 DEF CallWell, l, Way
    <3> QED BY <3>2, <3>3
  <2> QED BY <2>1, <2>2, <2>3, <2>4, InnerStep DEF l
<1>5. CASE Grp!Untrack(l)
  <2>1. /\ reader[l] = "untrack" /\ reader' = [reader EXCEPT ![l] = "forget"] /\ held' = held
        /\ tracked' = [tracked EXCEPT ![n] = FALSE]
        /\ UNCHANGED <<Grp!speaker, radios, activeCalls, net, heard, stray, panicked>>
    BY <1>1, <1>5 DEF Grp!Untrack, Grp!Step, GroupTyped
  <2>2. reader'[l] = "forget" /\ held'[l] = held[l] /\ ~tracked'[n] /\ radios'[n] = radios[n]
        /\ activeCalls'[n] = activeCalls[n]
    BY <1>1, <2>1 DEF GroupTyped
  <2>3. GroupTyped' /\ OnlyAt(up, n)
    BY <1>1, <2>1 DEF GroupTyped, OnlyAt, Ending, Grp!speaker, l
  <2>4. ASSUME NEW g \in Nat, LoopWell(l, g), CallWell(l, n, g) PROVE (LoopWell(l, g) /\ CallWell(l, n, g))'
    <3>1. ~Odd(g)
      <4>1. held[l] \in Signals /\ held[l].kind = "end" /\ Num(held[l]) = g
        BY <1>1, <2>1, <2>4 DEF LoopWell, GroupTyped, Ending
      <4> QED BY <4>1, Numbers
    <3>2. LoopWell(l, g)'
      BY <2>1, <2>2, <2>4 DEF LoopWell, Starting, Ending, l, Way, Grp!Nothing
    <3>3. CallWell(l, n, g)'
      BY <2>1, <2>2, <2>4, <3>1 DEF CallWell, l, Way
    <3> QED BY <3>2, <3>3
  <2> QED BY <2>1, <2>2, <2>3, <2>4, InnerStep DEF l
<1>6. CASE Grp!Forget(l)
  <2>1. /\ reader[l] = "forget" /\ reader' = [reader EXCEPT ![l] = "relayEnd"] /\ held' = held
        /\ activeCalls' = [activeCalls EXCEPT ![n] = {}]
        /\ UNCHANGED <<Grp!speaker, radios, tracked, net, heard, stray, panicked>>
    BY <1>1, <1>6 DEF Grp!Forget, Grp!Step, GroupTyped
  <2>2. reader'[l] = "relayEnd" /\ held'[l] = held[l] /\ tracked'[n] = tracked[n] /\ radios'[n] = radios[n]
        /\ activeCalls'[n] = {}
    BY <1>1, <2>1 DEF GroupTyped
  <2>3. GroupTyped' /\ OnlyAt(up, n)
    <3>1. {} \in SUBSET SUBSET Node
      OBVIOUS
    <3> QED BY <1>1, <2>1, <3>1 DEF GroupTyped, OnlyAt, Ending, Grp!speaker, l
  <2>4. ASSUME NEW g \in Nat, LoopWell(l, g), CallWell(l, n, g) PROVE (LoopWell(l, g) /\ CallWell(l, n, g))'
    <3>1. ~Odd(g)
      <4>1. held[l] \in Signals /\ held[l].kind = "end" /\ Num(held[l]) = g
        BY <1>1, <2>1, <2>4 DEF LoopWell, GroupTyped, Ending
      <4> QED BY <4>1, Numbers
    <3>2. LoopWell(l, g)'
      BY <2>1, <2>2, <2>4 DEF LoopWell, Starting, Ending, l, Way, Grp!Nothing
    <3>3. CallWell(l, n, g)'
      BY <2>1, <2>2, <2>4, <3>1 DEF CallWell, l, Way
    <3> QED BY <3>2, <3>3
  <2> QED BY <2>1, <2>2, <2>3, <2>4, InnerStep DEF l
<1> QED BY <1>3, <1>4, <1>5, <1>6 DEF l

\* The message is passed on.
LEMMA Relays ==
    ASSUME NEW up, NEW depth, Grp!Tree(up, depth), GroupInv(up, depth), NEW n \in Others,
           Grp!Relay(Way(up, n)) \/ Grp!RelayEnd(Way(up, n))
    PROVE  GroupInv(up, depth)'
<1> DEFINE l == Way(up, n)
<1>1. /\ l \in Line /\ l[2] = n /\ n \in Node /\ GroupTyped
  BY WayFacts DEF GroupInv
<1>2. PICK got \in Nat : NodeWell(up, n, got) /\ LinkWell(up, depth, n)
  BY <1>1 DEF GroupInv, Follows
<1>3. reader[l] \in {"relay", "relayEnd"}
  BY DEF Grp!Relay, Grp!RelayEnd, Grp!Step
<1>4. Grp!RelayTo(l) = Children(up, n)
  BY <1>2, <1>3, RelayDown
<1> HIDE DEF l
<1>5. /\ held[l] \in Signals
      /\ held[l].kind = IF reader[l] = "relay" THEN "start" ELSE "end"
      /\ Num(held[l]) = got
  BY <1>1, <1>2, <1>3 DEF NodeWell, LoopWell, GroupTyped, Starting, Ending, l
<1>6. PICK w : w = Grp!Relayed(l)
  OBVIOUS
<1>7. w \in Signals /\ w.kind = held[l].kind /\ w.kind # "voice" /\ w.id = held[l].id
      /\ w.path = held[l].path \cup {n}
  BY <1>1, <1>3, <1>5, <1>6 DEF Grp!Relayed, Signals
<1>8. Num(w) = Num(held[l])
  BY <1>7 DEF Num
<1>9. Grp!Send(n, Children(up, n), w) \in [Line -> Seq(Signals)]
  <2>1. \A k \in Line : Append(net[k], w) \in Seq(Signals) /\ net[k] \in Seq(Signals)
    BY <1>1, <1>7 DEF GroupTyped
  <2> QED BY <2>1 DEF Grp!Send
<1>10. CASE Grp!Relay(l)
  <2>1. reader[l] = "relay"
    BY <1>10 DEF Grp!Relay, Grp!Step
  <2>2. Odd(got) /\ activeCalls[n] # {}
    <3>1. Odd(got)
      BY <1>5, <2>1, Numbers
    <3> QED BY <1>2, <2>1, <3>1 DEF NodeWell, CallWell, l
  <2>3. /\ reader' = [reader EXCEPT ![l] = "recv"] /\ held' = [held EXCEPT ![l] = Grp!Nothing]
        /\ net' = Grp!Send(n, Children(up, n), w)
        /\ activeCalls' = [activeCalls EXCEPT ![n] = {(UNION activeCalls[n]) \cup Children(up, n)}]
        /\ panicked' = panicked
        /\ UNCHANGED <<Grp!speaker, tracked, radios, heard, stray>>
    BY <1>1, <1>4, <1>6, <1>10, <2>2 DEF Grp!Relay, Grp!Step
  <2>4. /\ reader'[l] = "recv" /\ held'[l] = Grp!Nothing /\ activeCalls'[n] # {}
    BY <1>1, <2>3 DEF GroupTyped
  <2>5. GroupTyped'
    <3>1. {(UNION activeCalls[n]) \cup Children(up, n)} \in SUBSET SUBSET Node
      <4>1. (UNION activeCalls[n]) \subseteq Node /\ Children(up, n) \subseteq Node
        BY <1>1 DEF GroupTyped, Children, Others
      <4> QED BY <4>1
    <3> QED BY <1>1, <1>9, <2>3, <3>1 DEF GroupTyped, Grp!speaker
  <2>6. OnlyAt(up, n)
    BY <1>1, <2>3 DEF OnlyAt, GroupTyped, Grp!speaker, l
  <2>7. ASSUME NEW g \in Nat, NodeWell(up, n, g) PROVE NodeWell(up, n, g)'
    <3>1. Odd(g)
      BY <1>5, <2>1, <2>7, Numbers DEF NodeWell, LoopWell, l
    <3>2. SeenWell(n, g)'
      BY <2>3, <2>7 DEF NodeWell, SeenWell
    <3>3. LoopWell(l, g)'
      BY <2>4 DEF LoopWell, l, Way, Starting, Ending, Grp!Nothing
    <3>4. CallWell(l, n, g)'
      BY <2>1, <2>3, <2>4, <2>7, <3>1 DEF NodeWell, CallWell, l, Way
    <3> QED BY <3>2, <3>3, <3>4 DEF NodeWell, l
  <2>8. PassesOn(up, n, w)
    BY <1>7, <1>8, <2>1, <2>3, <2>4, <2>6, <2>7 DEF PassesOn, l
  <2> QED BY <2>5, <2>8, PassStep
<1>11. CASE Grp!RelayEnd(l)
  <2>1. reader[l] = "relayEnd"
    BY <1>11 DEF Grp!RelayEnd, Grp!Step
  <2>2. /\ reader' = [reader EXCEPT ![l] = "recv"] /\ held' = [held EXCEPT ![l] = Grp!Nothing]
        /\ net' = Grp!Send(n, Children(up, n), w)
        /\ UNCHANGED <<Grp!speaker, tracked, radios, activeCalls, heard, stray, panicked>>
    BY <1>1, <1>4, <1>6, <1>11 DEF Grp!RelayEnd, Grp!Step
  <2>3. /\ reader'[l] = "recv" /\ held'[l] = Grp!Nothing
    BY <1>1, <2>2 DEF GroupTyped
  <2>4. GroupTyped'
    BY <1>1, <1>9, <2>2 DEF GroupTyped, Grp!speaker
  <2>5. OnlyAt(up, n)
    BY <1>1, <2>2 DEF OnlyAt, GroupTyped, Grp!speaker, l
  <2>6. ASSUME NEW g \in Nat, NodeWell(up, n, g) PROVE NodeWell(up, n, g)'
    <3>1. ~Odd(g)
      BY <1>5, <2>1, <2>6, Numbers DEF NodeWell, LoopWell, l
    <3>2. SeenWell(n, g)'
      BY <2>2, <2>6 DEF NodeWell, SeenWell
    <3>3. LoopWell(l, g)'
      BY <2>3 DEF LoopWell, l, Way, Starting, Ending, Grp!Nothing
    <3>4. CallWell(l, n, g)'
      BY <2>1, <2>2, <2>3, <2>6, <3>1 DEF NodeWell, CallWell, l, Way
    <3> QED BY <3>2, <3>3, <3>4 DEF NodeWell, l
  <2>7. PassesOn(up, n, w)
    BY <1>7, <1>8, <2>1, <2>2, <2>3, <2>5, <2>6 DEF PassesOn, l
  <2> QED BY <2>4, <2>7, PassStep
<1> QED BY <1>10, <1>11 DEF l

\* A read loop that does anything reads from the talker's side.
LEMMA ReadsAway ==
    ASSUME NEW up, NEW depth, Grp!Tree(up, depth), GroupInv(up, depth), NEW l \in Line, Grp!ReadLoop(l)
    PROVE  \E n \in Others : l = Way(up, n)
<1>1. CASE Away(up, l)
  BY <1>1 DEF Away
<1>2. CASE ~Away(up, l)
  <2>1. Grp!Arrived(l) = {} /\ reader[l] = "recv"
    BY <1>2 DEF GroupInv, QuietBack, Grp!Arrived
  <2>2. ~Grp!HandleStart(l) /\ ~Grp!HandleEnd(l) /\ ~Grp!HandleVoice(l)
    BY <2>1 DEF Grp!HandleStart, Grp!HandleEnd, Grp!HandleVoice
  <2>3. /\ ~Grp!Track(l) /\ ~Grp!Note(l) /\ ~Grp!Relay(l)
        /\ ~Grp!Untrack(l) /\ ~Grp!Forget(l) /\ ~Grp!RelayEnd(l)
    BY <2>1 DEF Grp!Track, Grp!Note, Grp!Relay, Grp!Untrack, Grp!Forget, Grp!RelayEnd, Grp!Step
  <2> QED BY <2>2, <2>3 DEF Grp!ReadLoop
<1> QED BY <1>1, <1>2

LEMMA GroupInvariant ==
    ASSUME NEW up, NEW depth, Grp!Tree(up, depth)
    PROVE  Grp!Spec => []GroupInv(up, depth)
<1>1. ASSUME Grp!Init PROVE GroupInv(up, depth)
  <2>1. \A x \in Others : x \in Node /\ x # Talker /\ up[x] \in Node /\ Way(up, x) \in Line
    BY WayFacts DEF Others
  <2>2. GroupTyped /\ TalkerWell /\ QuietBack(up)
    <3>1. <<>> \in Seq(Signals) /\ {} \in SUBSET SUBSET Node /\ Talker \in Node /\ 0 \in 0 .. MaxSpurts
      BY DEF Grp!Tree
    <3> QED BY <1>1, <3>1 DEF Grp!Init, GroupTyped, TalkerWell, QuietBack, Grp!Stage
  <2>3. PICK got : got = [x \in Node |-> 0]
    OBVIOUS
  <2>4. ASSUME NEW x \in Others PROVE NodeWell(up, x, got[x]) /\ LinkWell(up, depth, x)
    <3>1. /\ got[x] = 0 /\ heard[x] = {} /\ reader[Way(up, x)] = "recv" /\ held[Way(up, x)] = Grp!Nothing
          /\ radios[x] = "quiet" /\ tracked[x] = FALSE /\ activeCalls[x] = {} /\ net[Way(up, x)] = <<>>
      BY <1>1, <2>1, <2>3 DEF Grp!Init
    <3>2. ~Odd(0)
      BY DEF Odd
    <3>3. SeenWell(x, got[x])
      BY <3>1 DEF SeenWell
    <3> QED BY <3>1, <3>2, <3>3 DEF NodeWell, LoopWell, CallWell, LinkWell, Starting, Ending
  <2>5. ASSUME NEW x \in Others PROVE Chain(net[Way(up, x)], got[x], Told(up, got, up[x]))
    <3>1. net[Way(up, x)] = <<>> /\ got[x] = 0
      BY <1>1, <2>1, <2>3 DEF Grp!Init
    <3>2. Told(up, got, up[x]) = 0
      <4>1. CASE up[x] = Talker
        BY <1>1, <4>1 DEF Told, TalkerTold, Grp!Init
      <4>2. CASE up[x] # Talker
        <5>1. up[x] \in Others
          BY <2>1, <4>2 DEF Others
        <5>2. reader[Way(up, up[x])] = "recv"
          BY <1>1, <2>1, <5>1 DEF Grp!Init
        <5> QED BY <2>1, <2>3, <4>2, <5>2 DEF Told
      <4> QED BY <4>1, <4>2
    <3> QED BY <3>1, <3>2 DEF Chain
  <2>6. Follows(up, depth, got) /\ got \in [Node -> Nat]
    BY <2>3, <2>4, <2>5 DEF Follows
  <2> QED BY <2>2, <2>6 DEF GroupInv
<1>2. ASSUME GroupInv(up, depth), Grp!Next PROVE GroupInv(up, depth)'
  <2>1. ASSUME NEW l \in Line, Grp!ReadLoop(l) PROVE GroupInv(up, depth)'
    <3>1. PICK n \in Others : l = Way(up, n)
      BY <1>2, <2>1, ReadsAway
    <3> QED BY <1>2, <2>1, <3>1, TakesStart, TakesEnd, TakesVoice, WorksOn, Relays DEF Grp!ReadLoop
  <2> QED BY <1>2, <2>1, TalkerWorks, TalkerBroadcasts DEF Grp!Next, Grp!Speaker
<1>3. ASSUME GroupInv(up, depth), UNCHANGED Grp!vars PROVE GroupInv(up, depth)'
  <2>1. GroupTyped' /\ TalkerWell' /\ QuietBack(up)'
    BY <1>3 DEF Grp!vars, Grp!speaker, GroupInv, GroupTyped, TalkerWell, QuietBack, Away, Way, Grp!Nothing,
                Grp!Stage, Starting, Ending, Signals
  <2>2. PICK got \in [Node -> Nat] : Follows(up, depth, got)
    BY <1>3 DEF GroupInv
  <2>3. Follows(up, depth, got)'
    <3>1. \A x \in Others : NodeWell(up, x, got[x])' /\ LinkWell(up, depth, x)'
      BY <1>3, <2>2 DEF Grp!vars, Follows, NodeWell, SeenWell, LoopWell, CallWell, LinkWell, Way, Grp!Nothing
    <3>2. \A x \in Node : Told(up, got, x)' = Told(up, got, x)
      BY <1>3 DEF Grp!vars, Grp!speaker, Told, TalkerTold, Way
    <3>3. ASSUME NEW x \in Others PROVE Chain(net[Way(up, x)], got[x], Told(up, got, up[x]))'
      <4>1. Told(up, got, up[x])' = Told(up, got, up[x])
        BY <3>2, WayFacts
      <4>2. Chain(net[Way(up, x)], got[x], Told(up, got, up[x]))
        BY <2>2 DEF Follows
      <4> QED BY <1>3, <4>1, <4>2 DEF Grp!vars, Way
    <3> QED BY <3>1, <3>3 DEF Follows
  <2> QED BY <2>1, <2>2, <2>3 DEF GroupInv
<1>4. GroupInv(up, depth) /\ [Grp!Next]_(Grp!vars) => GroupInv(up, depth)'
  BY <1>2, <1>3
<1> QED BY <1>1, <1>4, PTL DEF Grp!Spec

-----------------------------------------------------------------------------
(* What follows from it.                                                   *)

\* Among servers there is one that is nearest to the talker.
LEMMA Nearest ==
    ASSUME NEW S \in SUBSET Nat, S # {}
    PROVE  \E k \in S : \A j \in S : ~(j < k)
<1>1. PICK k \in S : \A j \in S : ~(<<j, k>> \in OpToRel(<, Nat))
  BY NatLessThanWellFounded, WFMin
<1> QED BY <1>1 DEF OpToRel

\* Once nothing is under way, every server has heard all that the talker has told.
LEMMA AllHeard ==
    ASSUME NEW up, NEW depth, Grp!Tree(up, depth), NEW got \in [Node -> Nat],
           Follows(up, depth, got), Grp!Settled
    PROVE  \A n \in Others : got[n] = TalkerTold
<1>1. ASSUME NEW n \in Others, got[n] # TalkerTold
      PROVE  \E p \in Others : depth[p] < depth[n] /\ got[p] # TalkerTold
  <2>1. Chain(net[Way(up, n)], got[n], Told(up, got, up[n])) /\ net[Way(up, n)] = <<>>
    BY WayFacts DEF Follows, Grp!Settled
  <2>2. got[n] = Told(up, got, up[n])
    BY <2>1 DEF Chain
  <2>3. up[n] # Talker /\ up[n] \in Others
    BY <1>1, <2>2, WayFacts DEF Told, Others
  <2>4. Told(up, got, up[n]) = got[up[n]]
    <3>1. reader[Way(up, up[n])] = "recv"
      BY <2>3, WayFacts DEF Grp!Settled
    <3> QED BY <2>3, <3>1 DEF Told
  <2>5. depth[up[n]] < depth[n]
    BY WayFacts
  <2> QED BY <1>1, <2>2, <2>3, <2>4, <2>5
<1>2. PICK late : late = {depth[n] : n \in {x \in Others : got[x] # TalkerTold}}
  OBVIOUS
<1>3. late \subseteq Nat
  BY <1>2, WayFacts
<1>4. ASSUME late # {} PROVE FALSE
  <2>1. PICK k \in late : \A j \in late : ~(j < k)
    BY <1>3, <1>4, Nearest
  <2>2. PICK n \in Others : got[n] # TalkerTold /\ k = depth[n]
    BY <1>2, <2>1
  <2>3. PICK p \in Others : depth[p] < depth[n] /\ got[p] # TalkerTold
    BY <1>1, <2>2
  <2>4. depth[p] \in late
    BY <1>2, <2>3
  <2> QED BY <2>1, <2>2, <2>3, <2>4
<1> QED BY <1>2, <1>4

LEMMA SettledAgree ==
    ASSUME NEW up, NEW depth, Grp!Tree(up, depth), GroupInv(up, depth)
    PROVE  Grp!CallsAgree
<1> SUFFICES ASSUME Grp!Settled
             PROVE  /\ at = "talking" => \A n \in Others :
                          tracked[n] /\ radios[n] = "hearing" /\ activeCalls[n] # {}
                    /\ at = "idle" => \A n \in Node :
                          ~tracked[n] /\ radios[n] = "quiet" /\ activeCalls[n] = {}
  BY DEF Grp!CallsAgree, Others
<1>1. PICK got \in [Node -> Nat] : Follows(up, depth, got)
  BY DEF GroupInv
<1>2. \A n \in Others : got[n] = TalkerTold
  BY <1>1, AllHeard
<1>3. \A n \in Others : CallWell(Way(up, n), n, TalkerTold) /\ reader[Way(up, n)] = "recv"
  BY <1>1, <1>2, WayFacts DEF Follows, NodeWell, Grp!Settled
<1>4. spurts \in Nat /\ GroupTyped
  BY DEF GroupInv, GroupTyped, Grp!Tree
<1>5. ASSUME at = "talking", NEW n \in Others
      PROVE  tracked[n] /\ radios[n] = "hearing" /\ activeCalls[n] # {}
  <2>1. Odd(TalkerTold)
    BY <1>4, <1>5 DEF TalkerTold, Odd
  <2> QED BY <1>3, <2>1 DEF CallWell
<1>6. ASSUME at = "idle", NEW n \in Node
      PROVE  ~tracked[n] /\ radios[n] = "quiet" /\ activeCalls[n] = {}
  <2>1. ~Odd(TalkerTold)
    BY <1>4, <1>6 DEF TalkerTold, Odd
  <2>2. CASE n \in Others
    BY <1>3, <2>1, <2>2 DEF CallWell
  <2>3. CASE n = Talker
    BY <1>6, <2>3 DEF GroupInv, TalkerWell
  <2> QED BY <2>2, <2>3 DEF Others
<1> QED BY <1>5, <1>6

\* However many servers stand in line, and wherever each read loop is between its
\* locks: no radio gets voice of a call it has not been told of, no server stops over a
\* nil entry, and once nothing is under way all servers are in the talker's call or none
\* is (broadcastCallStart, handleCallStart, handleCallEnd, relayCallEnd).
THEOREM GroupAlwaysSound ==
    ASSUME NEW up, NEW depth, Grp!Tree(up, depth)
    PROVE  Grp!Spec => []GroupSound
<1>1. GroupInv(up, depth) => GroupSound
  <2> SUFFICES ASSUME GroupInv(up, depth) PROVE GroupSound
    OBVIOUS
  <2>1. Grp!VoiceInCall
    BY DEF GroupInv, GroupTyped, Grp!VoiceInCall
  <2>2. \A l \in Line : reader[l] = "recv" <=> held[l] = Grp!Nothing
    <3> SUFFICES ASSUME NEW l \in Line PROVE reader[l] = "recv" <=> held[l] = Grp!Nothing
      OBVIOUS
    <3>1. CASE Away(up, l)
      BY <3>1 DEF Away, GroupInv, Follows, NodeWell, LoopWell
    <3>2. CASE ~Away(up, l)
      BY <3>2 DEF GroupInv, QuietBack
    <3> QED BY <3>1, <3>2
  <2>3. Grp!TypeOK
    BY <2>2 DEF GroupInv, GroupTyped, Grp!TypeOK
  <2> QED BY <2>1, <2>3, SettledAgree DEF GroupSound
<1>2. Grp!Spec => []GroupInv(up, depth)
  BY GroupInvariant
<1> QED BY <1>1, <1>2, PTL

-----------------------------------------------------------------------------
(* A private call.  The caller is at "A", the called radio at "B"; a phone *)
(* that has ended never gets back into the call (a caller is at most rung  *)
(* back), and until then nothing it sent takes the call away.  A start     *)
(* from B, made of an answer to a call that B has not tracked yet, only    *)
(* adds to what A has.                                                     *)

Carries(q, m) == \E i \in 1 .. Len(q) : q[i] = m
Ended == Prv!Finished \cup {"rungBack"}
Phones == Prv!Active \cup Prv!Finished \cup {"idle", "rungBack"}
Gone(n) == phone[n] \in Ended
Sent(n, m) == \E c \in Pair : Carries(wire[<<n, c>>], m)
Leaving == {"reject", "release", "lost"}

Answers == {"accept", "reject", "connect", "echoed"}
Opening == {"setup", "connect", "echoed"}

\* Only the caller sends a setup, only the called radio is rung and answers.
Roles ==
    /\ phone["A"] \notin {"ringing", "accepted"}
    /\ \A m \in Answers : ~Carries(out["A"], m) /\ msg["A"] # m
    /\ phone["B"] \notin {"calling", "through"}
    /\ ~Carries(out["B"], "setup") /\ msg["B"] # "setup"

\* The start of the call is at one place, and before it arrives the called radio is idle.
Dialling == Carries(out["A"], "setup")
OneAtMost ==
    \A c, d \in Pair :
        \A i \in 1 .. Len(wire[<<"A", c>>]) : \A j \in 1 .. Len(wire[<<"A", d>>]) :
            wire[<<"A", c>>][i] = "start" /\ wire[<<"A", d>>][j] = "start" => c = d /\ i = j
Dialled == client["A"] \in {"track", "start"}
OneStart ==
    /\ phone["A"] = "idle" => out["A"] = <<>> /\ client["A"] = "idle"
    /\ phone["A"] = "idle" \/ Dialling \/ Dialled => ~Sent("A", "start") /\ phone["B"] = "idle"
    /\ Dialling => client["A"] = "idle"
    /\ \A i \in 1 .. Len(out["A"]) : out["A"][i] = "setup" => i = 1
    /\ Dialled => msg["A"] = "setup"
    /\ Sent("A", "start") => phone["B"] = "idle"
    /\ OneAtMost

\* A phone that has not ended has sent nothing that ends the call.
Staying(n) ==
    /\ \A m \in Leaving : ~Carries(out[n], m) /\ msg[n] # m
    /\ client[n] \notin {"untrack", "end"}
    /\ ~Sent(n, "end") /\ ~Sent(n, "reject")
    /\ \A c \in Pair : rd[<<n, c>>] \notin {"endUntrack", "endUnbind"}

\* While neither has ended: the caller's server has the call once the setup is read, the
\* other one once it works on a connect request, and bound when that is on its way.
Answering ==
    \/ client["B"] \in {"start", "bind"}
    \/ client["B"] = "reply" /\ msg["B"] \in Prv!Connects
Held ==
    ~Gone("A") /\ ~Gone("B") =>
        /\ phone["A"] # "idle" =>
              \/ Dialling \/ client["A"] = "track"
              \/ calls["A"] # "none" /\ (client["A"] \in {"start", "bind"} \/ priv["A"])
        /\ Answering => calls["B"] # "none"
        /\ Sent("B", "connect") \/ phone["A"] = "through" => priv["B"] /\ calls["B"] # "none"

\* What a base station's loop holds at its later stages.
Working ==
    \A n \in Prv!Site :
        /\ client[n] = "track" => msg[n] \in Opening
        /\ client[n] = "reply" => msg[n] \in Answers

\* The inductive invariant.
CallInv ==
    /\ Prv!TypeOK /\ Working /\ Roles /\ OneStart
    /\ \A n \in Prv!Site : ~Gone(n) => Staying(n)
    /\ Held

LEMMA CarriesMore ==
    ASSUME NEW S, NEW q \in Seq(S), NEW x \in S, NEW m
    PROVE  Carries(Append(q, x), m) <=> Carries(q, m) \/ x = m
<1>1. /\ Len(q) \in Nat /\ Len(Append(q, x)) = Len(q) + 1
      /\ \A i \in 1 .. Len(q) : Append(q, x)[i] = q[i]
      /\ Append(q, x)[Len(q) + 1] = x
  OBVIOUS
<1>2. \A i \in 1 .. Len(q) + 1 : i \in 1 .. Len(q) \/ i = Len(q) + 1
  BY <1>1
<1>3. Len(q) + 1 \in 1 .. Len(q) + 1 /\ \A i \in 1 .. Len(q) : i \in 1 .. Len(q) + 1
  BY <1>1
<1> QED BY <1>1, <1>2, <1>3 DEF Carries

LEMMA CarriesLess ==
    ASSUME NEW S, NEW q \in Seq(S), q # <<>>
    PROVE  /\ Head(q) \in S /\ Tail(q) \in Seq(S) /\ Carries(q, Head(q))
           /\ \A m : Carries(Tail(q), m) => Carries(q, m)
           /\ q[1] = Head(q)
           /\ \A i \in 1 .. Len(Tail(q)) : i + 1 \in 1 .. Len(q) /\ Tail(q)[i] = q[i + 1]
<1>1. /\ Len(q) \in Nat \ {0} /\ Head(q) = q[1] /\ q[1] \in S
      /\ Tail(q) \in Seq(S) /\ Len(Tail(q)) = Len(q) - 1
      /\ \A i \in 1 .. Len(Tail(q)) : Tail(q)[i] = q[i + 1]
  BY HeadTailProperties, EmptySeq
<1>2. 1 \in 1 .. Len(q) /\ \A i \in 1 .. Len(Tail(q)) : i + 1 \in 1 .. Len(q)
  BY <1>1
<1> QED BY <1>1, <1>2 DEF Carries

LEMMA StreamNames ==
    ASSUME NEW s \in Prv!Way
    PROVE  /\ s[1] \in Prv!Site /\ s[2] \in Pair /\ s = <<s[1], s[2]>>
           /\ s[1] = "A" => Prv!Other(s[1]) = "B"
           /\ s[1] = "B" => Prv!Other(s[1]) = "A"
BY DEF Prv!Way, Prv!Site, Prv!Other

\* A phone changes and its base station says so.
LEMMA SignalEffect ==
    ASSUME Prv!TypeOK, NEW n \in Prv!Site, NEW from, NEW m \in Prv!ClientMsg, NEW to,
           to \in Prv!Active \cup Prv!Finished, Prv!Signal(n, from, m, to)
    PROVE  /\ phone[n] \in from /\ phone'[n] = to
           /\ \A k \in Prv!Site : k # n => phone'[k] = phone[k] /\ out'[k] = out[k]
           /\ phone' \in [Prv!Site -> Phones]
           /\ out' \in [Prv!Site -> Seq(Prv!ClientMsg)]
           /\ out'[n] = Append(out[n], m)
           /\ \A x : Carries(out'[n], x) <=> Carries(out[n], x) \/ x = m
           /\ UNCHANGED <<client, msg, found, calls, priv, wire, rd>>
<1>1. phone' = [phone EXCEPT ![n] = to] /\ out' = [out EXCEPT ![n] = Append(out[n], m)]
  BY DEF Prv!Signal
<1>2. out[n] \in Seq(Prv!ClientMsg)
  BY DEF Prv!TypeOK
<1>3. \A x : Carries(Append(out[n], m), x) <=> Carries(out[n], x) \/ m = x
  BY <1>2, CarriesMore
<1>4. Append(out[n], m) \in Seq(Prv!ClientMsg)
  BY <1>2
<1> QED BY <1>1, <1>3, <1>4 DEF Phones, Prv!Signal, Prv!TypeOK

Stages == {"idle", "track", "start", "bind", "reply", "untrack", "end"}

\* Base station n's loop reads m.
Reads(n, m) ==
    /\ m \in Prv!ClientMsg /\ Carries(out[n], m) /\ out[n][1] = m /\ client[n] = "idle"
    /\ out' \in [Prv!Site -> Seq(Prv!ClientMsg)]
    /\ \A x : Carries(out'[n], x) => Carries(out[n], x)
    /\ \A i \in 1 .. Len(out'[n]) : i + 1 \in 1 .. Len(out[n]) /\ out'[n][i] = out[n][i + 1]
    /\ \/ client'[n] = "idle" /\ msg'[n] = "none" /\ calls' = calls /\ m \notin Opening
       \/ client'[n] = "track" /\ msg'[n] = m /\ m \in Opening /\ calls' = calls
       \/ client'[n] = "reply" /\ msg'[n] = m /\ m \in {"accept", "reject"} /\ calls' = calls
          /\ calls[n] # "none"
       \/ client'[n] = "untrack" /\ msg'[n] = m /\ m = "release" /\ calls' = calls /\ calls[n] # "none"
       \/ client'[n] = "end" /\ msg'[n] = m /\ m = "lost" /\ calls[n] # "none" /\ calls'[n] = "none"
    /\ \A k \in Prv!Site : k # n =>
          out'[k] = out[k] /\ client'[k] = client[k] /\ msg'[k] = msg[k] /\ found'[k] = found[k]
          /\ calls'[k] = calls[k]
    /\ client' \in [Prv!Site -> Stages]
    /\ msg' \in [Prv!Site -> Prv!ClientMsg \cup {"none"}]
    /\ calls' \in [Prv!Site -> Prv!Origin]
    /\ found' \in [Prv!Site -> Prv!Origin] /\ found'[n] = calls[n]
    /\ UNCHANGED <<phone, priv, wire, rd>>

LEMMA LookupEffect ==
    ASSUME Prv!TypeOK, NEW n \in Prv!Site, Prv!Lookup(n)
    PROVE  \E m : Reads(n, m)
<1>1. PICK m : m = Head(out[n])
  OBVIOUS
<1>2. out[n] \in Seq(Prv!ClientMsg) /\ out[n] # <<>>
  BY DEF Prv!TypeOK, Prv!Lookup
<1>3. /\ m \in Prv!ClientMsg /\ Tail(out[n]) \in Seq(Prv!ClientMsg) /\ Carries(out[n], m)
      /\ \A x : Carries(Tail(out[n]), x) => Carries(out[n], x)
      /\ out[n][1] = m
      /\ \A i \in 1 .. Len(Tail(out[n])) : i + 1 \in 1 .. Len(out[n]) /\ Tail(out[n])[i] = out[n][i + 1]
  BY <1>1, <1>2, CarriesLess
<1>4. PICK l : l = Prv!AfterLookup(m, calls[n])
  OBVIOUS
<1>5. calls[n] \in Prv!Origin
  BY DEF Prv!TypeOK
<1>6. \/ l = "idle" /\ m \notin Opening
      \/ l = "track" /\ m \in Opening
      \/ l = "reply" /\ m \in {"accept", "reject"} /\ calls[n] # "none"
      \/ l = "untrack" /\ m = "release" /\ calls[n] # "none"
      \/ l = "end" /\ m = "lost" /\ calls[n] # "none"
  <2>1. m \in {"setup", "accept", "reject", "connect", "echoed", "release", "lost"}
    BY <1>3 DEF Prv!ClientMsg, Prv!Connects
  <2>2. CASE m = "lost"
    BY <1>4, <2>2 DEF Prv!AfterLookup, Prv!Connects, Opening
  <2>3. CASE m \in Opening
    BY <1>4, <2>3 DEF Prv!AfterLookup, Prv!Connects, Opening
  <2>4. CASE m \in {"accept", "reject"}
    BY <1>4, <2>4 DEF Prv!AfterLookup, Prv!Connects, Opening
  <2>5. CASE m = "release"
    BY <1>4, <2>5 DEF Prv!AfterLookup, Prv!Connects, Opening
  <2> QED BY <2>1, <2>2, <2>3, <2>4, <2>5 DEF Opening
<1>7. /\ client[n] = "idle"
      /\ out' = [out EXCEPT ![n] = Tail(out[n])]
      /\ client' = [client EXCEPT ![n] = l]
      /\ msg' = [msg EXCEPT ![n] = IF l = "idle" THEN "none" ELSE m]
      /\ found' = [found EXCEPT ![n] = calls[n]]
      /\ calls' = [calls EXCEPT ![n] = IF l = "end" THEN "none" ELSE calls[n]]
      /\ UNCHANGED <<phone, priv, wire, rd>>
  BY <1>1, <1>4 DEF Prv!Lookup
<1>8. out' \in [Prv!Site -> Seq(Prv!ClientMsg)] /\ out'[n] = Tail(out[n])
      /\ \A k \in Prv!Site : k # n => out'[k] = out[k]
  BY <1>3, <1>7 DEF Prv!TypeOK
<1>9. /\ client' \in [Prv!Site -> Stages]
      /\ client'[n] = l /\ msg'[n] = IF l = "idle" THEN "none" ELSE m
      /\ msg' \in [Prv!Site -> Prv!ClientMsg \cup {"none"}]
      /\ \A k \in Prv!Site : k # n => client'[k] = client[k] /\ msg'[k] = msg[k] /\ calls'[k] = calls[k]
  BY <1>3, <1>6, <1>7 DEF Prv!TypeOK, Stages
<1>10. (l # "end" => calls' = calls) /\ (l = "end" => calls'[n] = "none")
       /\ calls' \in [Prv!Site -> Prv!Origin]
  BY <1>7 DEF Prv!TypeOK, Prv!Origin
<1>11. found' \in [Prv!Site -> Prv!Origin] /\ found'[n] = calls[n]
       /\ \A k \in Prv!Site : k # n => found'[k] = found[k]
  BY <1>5, <1>7 DEF Prv!TypeOK
<1>12. \/ client'[n] = "idle" /\ msg'[n] = "none" /\ calls' = calls /\ m \notin Opening
       \/ client'[n] = "track" /\ msg'[n] = m /\ m \in Opening /\ calls' = calls
       \/ client'[n] = "reply" /\ msg'[n] = m /\ m \in {"accept", "reject"} /\ calls' = calls
          /\ calls[n] # "none"
       \/ client'[n] = "untrack" /\ msg'[n] = m /\ m = "release" /\ calls' = calls /\ calls[n] # "none"
       \/ client'[n] = "end" /\ msg'[n] = m /\ m = "lost" /\ calls[n] # "none" /\ calls'[n] = "none"
  BY <1>6, <1>9, <1>10
<1>13. Reads(n, m)
  BY <1>3, <1>7, <1>8, <1>9, <1>10, <1>11, <1>12 DEF Reads
<1> QED BY <1>13

\* A message goes out on a stream.
LEMMA SendEffect ==
    ASSUME Prv!TypeOK, NEW s \in Prv!Way, NEW m \in Prv!FedMsg, Prv!SendControl(s, m)
    PROVE  /\ wire' \in [Prv!Way -> Seq(Prv!FedMsg)]
           /\ wire'[s] = Append(wire[s], m)
           /\ \A k \in Prv!Way : k # s => wire'[k] = wire[k]
           /\ \A n \in Prv!Site : \A x : Sent(n, x)' <=> Sent(n, x) \/ (n = s[1] /\ x = m)
<1>1. wire' = [wire EXCEPT ![s] = Append(wire[s], m)] /\ wire[s] \in Seq(Prv!FedMsg)
  BY DEF Prv!SendControl, Prv!TypeOK
<1>2. /\ wire' \in [Prv!Way -> Seq(Prv!FedMsg)] /\ wire'[s] = Append(wire[s], m)
      /\ \A k \in Prv!Way : k # s => wire'[k] = wire[k]
  BY <1>1 DEF Prv!TypeOK
<1>3. ASSUME NEW x PROVE Carries(wire'[s], x) <=> Carries(wire[s], x) \/ x = m
  BY <1>1, <1>2, CarriesMore
<1>4. ASSUME NEW n \in Prv!Site, NEW x
      PROVE  Sent(n, x)' <=> Sent(n, x) \/ (n = s[1] /\ x = m)
  <2>1. s[1] \in Prv!Site /\ s[2] \in Pair /\ s = <<s[1], s[2]>>
    BY StreamNames
  <2>2. \A c \in Pair : <<n, c>> \in Prv!Way /\ (<<n, c>> = s <=> n = s[1] /\ c = s[2])
    BY <2>1 DEF Prv!Way
  <2>3. \A c \in Pair : Carries(wire'[<<n, c>>], x)
                           <=> Carries(wire[<<n, c>>], x) \/ (n = s[1] /\ c = s[2] /\ x = m)
    BY <1>2, <1>3, <2>2
  <2> QED BY <2>1, <2>3 DEF Sent, Carries
<1> QED BY <1>2, <1>4

\* A message is taken from a stream.
LEMMA ReceiveEffect ==
    ASSUME Prv!TypeOK, NEW s \in Prv!Way, NEW m, Prv!Receive(s, m)
    PROVE  /\ wire' \in [Prv!Way -> Seq(Prv!FedMsg)]
           /\ rd[s] = "idle" /\ wire[s] # <<>> /\ wire[s][1] = m
           /\ \A k \in Prv!Way : k # s => wire'[k] = wire[k]
           /\ \A i \in 1 .. Len(wire'[s]) : i + 1 \in 1 .. Len(wire[s]) /\ wire'[s][i] = wire[s][i + 1]
           /\ Sent(s[1], m) /\ 1 \in 1 .. Len(wire[s])
           /\ \A n \in Prv!Site : \A x : Sent(n, x)' => Sent(n, x)
<1>1. /\ wire' = [wire EXCEPT ![s] = Tail(wire[s])] /\ wire[s] \in Seq(Prv!FedMsg)
      /\ wire[s] # <<>> /\ m = Head(wire[s]) /\ rd[s] = "idle"
  BY DEF Prv!Receive, Prv!TypeOK
<1>2. /\ Tail(wire[s]) \in Seq(Prv!FedMsg) /\ Carries(wire[s], m) /\ wire[s][1] = m
      /\ \A x : Carries(Tail(wire[s]), x) => Carries(wire[s], x)
      /\ \A i \in 1 .. Len(Tail(wire[s])) : i + 1 \in 1 .. Len(wire[s]) /\ Tail(wire[s])[i] = wire[s][i + 1]
  BY <1>1, CarriesLess
<1>3. /\ wire' \in [Prv!Way -> Seq(Prv!FedMsg)] /\ wire'[s] = Tail(wire[s])
      /\ \A k \in Prv!Way : k # s => wire'[k] = wire[k]
  BY <1>1, <1>2 DEF Prv!TypeOK
<1>4. s[1] \in Prv!Site /\ s[2] \in Pair /\ s = <<s[1], s[2]>>
  BY StreamNames
<1>5. Sent(s[1], m)
  BY <1>2, <1>4 DEF Sent
<1>6. ASSUME NEW n \in Prv!Site, NEW x, Sent(n, x)' PROVE Sent(n, x)
  <2>1. PICK c \in Pair : Carries(wire'[<<n, c>>], x)
    BY <1>6 DEF Sent, Carries
  <2>2. <<n, c>> \in Prv!Way
    BY DEF Prv!Way
  <2>3. Carries(wire[<<n, c>>], x)
    <3>1. CASE <<n, c>> = s
      BY <1>2, <1>3, <2>1, <3>1
    <3>2. CASE <<n, c>> # s
      BY <1>3, <2>1, <2>2, <3>2
    <3> QED BY <3>1, <3>2
  <2> QED BY <2>3 DEF Sent
<1>7. 1 \in 1 .. Len(wire[s])
  BY <1>1, EmptySeq
<1> QED BY <1>1, <1>2, <1>3, <1>5, <1>6, <1>7

\* The types: of the loops, and of what they work on.
LoopTyped ==
    /\ client \in [Prv!Site -> Stages]
    /\ msg \in [Prv!Site -> Prv!ClientMsg \cup {"none"}]
    /\ found \in [Prv!Site -> Prv!Origin]
    /\ \A n \in Prv!Site :
          /\ client[n] = "idle" <=> msg[n] = "none"
          /\ client[n] \in {"reply", "untrack", "end"} => found[n] # "none" \/ msg[n] \in Prv!Connects
          /\ client[n] = "track" => msg[n] \in Opening
          /\ client[n] = "reply" => msg[n] \in Answers
DataTyped ==
    /\ phone \in [Prv!Site -> Phones]
    /\ out \in [Prv!Site -> Seq(Prv!ClientMsg)]
    /\ calls \in [Prv!Site -> Prv!Origin]
    /\ priv \in [Prv!Site -> BOOLEAN]
    /\ wire \in [Prv!Way -> Seq(Prv!FedMsg)]
    /\ rd \in [Prv!Way -> {"idle", "startTrack", "startBind", "endUntrack", "endUnbind"}]

LEMMA TypesParted ==
    /\ Prv!TypeOK /\ Working <=> LoopTyped /\ DataTyped
    /\ (Prv!TypeOK /\ Working)' <=> LoopTyped' /\ DataTyped'
BY DEF Prv!TypeOK, Working, LoopTyped, DataTyped, Stages, Phones

\* A loop that goes on with its message, or is done with it.
LEMMA GotoTyped ==
    ASSUME LoopTyped, NEW n \in Prv!Site, NEW l \in Stages, client[n] # "idle", Prv!Goto(n, l),
           found' = found, l # "track", l = "reply" => msg[n] \in Prv!Connects,
           l \in {"untrack", "end"} => client[n] \in {"reply", "untrack"}
    PROVE  /\ LoopTyped'
           /\ client'[n] = l /\ msg'[n] = IF l = "idle" THEN "none" ELSE msg[n]
           /\ \A k \in Prv!Site : k # n => client'[k] = client[k] /\ msg'[k] = msg[k]
<1>1. /\ client' = [client EXCEPT ![n] = l]
      /\ msg' = [msg EXCEPT ![n] = IF l = "idle" THEN "none" ELSE msg[n]]
  BY DEF Prv!Goto
<1>2. /\ client' \in [Prv!Site -> Stages] /\ msg' \in [Prv!Site -> Prv!ClientMsg \cup {"none"}]
      /\ client'[n] = l /\ msg'[n] = IF l = "idle" THEN "none" ELSE msg[n]
      /\ \A k \in Prv!Site : k # n => client'[k] = client[k] /\ msg'[k] = msg[k]
  BY <1>1 DEF LoopTyped
<1> QED BY <1>2 DEF LoopTyped, Answers, Prv!Connects

LEMMA PrivateTyped ==
    ASSUME Prv!CallConstants, Prv!TypeOK, Working, Prv!Next
    PROVE  Prv!TypeOK' /\ Working'
<1>0. LoopTyped /\ DataTyped
  BY TypesParted
<1> SUFFICES LoopTyped' /\ DataTyped'
  BY TypesParted
<1>1. ASSUME NEW n \in Prv!Site, NEW from, NEW m \in Prv!ClientMsg, NEW to,
             to \in Prv!Active \cup Prv!Finished, Prv!Signal(n, from, m, to)
      PROVE  LoopTyped' /\ DataTyped'
  <2>1. /\ phone' \in [Prv!Site -> Phones]
        /\ out' \in [Prv!Site -> Seq(Prv!ClientMsg)]
        /\ UNCHANGED <<client, msg, found, calls, priv, wire, rd>>
    BY <1>1, SignalEffect
  <2> QED BY <1>0, <2>1 DEF LoopTyped, DataTyped
<1>2. /\ {"setup", "accept", "reject", "connect", "echoed", "release", "lost"} \subseteq Prv!ClientMsg
      /\ {"calling", "through", "accepted", "talking", "over", "gone"} \subseteq Prv!Active \cup Prv!Finished
      /\ "A" \in Prv!Site
  BY DEF Prv!ClientMsg, Prv!Connects, Prv!Active, Prv!Finished, Prv!Site
<1>3. CASE Prv!Dial
  BY <1>1, <1>2, <1>3 DEF Prv!Dial
<1>4. ASSUME NEW n \in Prv!Site, Prv!Accept(n) PROVE LoopTyped' /\ DataTyped'
  BY <1>1, <1>2, <1>4 DEF Prv!Accept
<1>5. ASSUME NEW n \in Prv!Site, Prv!Answer(n) PROVE LoopTyped' /\ DataTyped'
  <2>1. PICK m \in Prv!Connects : Prv!Signal(n, {"ringing", "accepted"}, m, "talking")
    BY <1>5 DEF Prv!Answer
  <2> QED BY <1>1, <1>2, <2>1 DEF Prv!Connects
<1>6. ASSUME NEW n \in Prv!Site, Prv!Reject(n) PROVE LoopTyped' /\ DataTyped'
  BY <1>1, <1>2, <1>6 DEF Prv!Reject
<1>7. ASSUME NEW n \in Prv!Site, Prv!HangUp(n) PROVE LoopTyped' /\ DataTyped'
  BY <1>1, <1>2, <1>7 DEF Prv!HangUp
<1>8. ASSUME NEW n \in Prv!Site, Prv!Lose(n) PROVE LoopTyped' /\ DataTyped'
  BY <1>1, <1>2, <1>8 DEF Prv!Lose
<1>9. ASSUME NEW n \in Prv!Site, Prv!Lookup(n) PROVE LoopTyped' /\ DataTyped'
  <2>1. PICK m : Reads(n, m)
    BY <1>9, LookupEffect
  <2>2. m \in Prv!ClientMsg /\ m # "none"
    BY <2>1 DEF Reads, Prv!ClientMsg, Prv!Connects
  <2>3. DataTyped'
    BY <1>0, <2>1 DEF Reads, DataTyped
  <2>4. \A k \in Prv!Site :
           /\ client'[k] = "idle" <=> msg'[k] = "none"
           /\ client'[k] \in {"reply", "untrack", "end"} => found'[k] # "none" \/ msg'[k] \in Prv!Connects
           /\ client'[k] = "track" => msg'[k] \in Opening
           /\ client'[k] = "reply" => msg'[k] \in Answers
    <3> TAKE k \in Prv!Site
    <3>1. CASE k = n
      <4>1. found'[n] = calls[n]
        BY <2>1 DEF Reads
      <4>2. \/ client'[n] = "idle" /\ msg'[n] = "none"
            \/ client'[n] = "track" /\ msg'[n] = m /\ m \in Opening
            \/ client'[n] = "reply" /\ msg'[n] = m /\ m \in {"accept", "reject"} /\ calls[n] # "none"
            \/ client'[n] \in {"untrack", "end"} /\ msg'[n] = m /\ calls[n] # "none"
        BY <2>1 DEF Reads
      <4> QED BY <2>2, <3>1, <4>1, <4>2 DEF Answers
    <3>2. CASE k # n
      <4>1. client'[k] = client[k] /\ msg'[k] = msg[k] /\ found'[k] = found[k]
        BY <2>1, <3>2 DEF Reads
      <4> QED BY <1>0, <4>1 DEF LoopTyped
    <3> QED BY <3>1, <3>2
  <2> QED BY <2>1, <2>3, <2>4 DEF Reads, LoopTyped
<1>11. ASSUME NEW n \in Prv!Site, Prv!Track(n) PROVE LoopTyped' /\ DataTyped'
  <2>1. PICK l : l = IF Prv!DestIsRemote(n) THEN "start" ELSE Prv!AfterStart(n)
    OBVIOUS
  <2>2. l \in {"start", "reply", "idle"} /\ (l = "reply" => msg[n] \in Prv!Connects)
    BY <2>1 DEF Prv!AfterStart
  <2>3. Prv!Goto(n, l) /\ client[n] = "track"
    BY <1>11, <2>1 DEF Prv!Track
  <2>4. calls' \in [Prv!Site -> Prv!Origin] /\ UNCHANGED <<phone, out, found, priv, wire, rd>>
    BY <1>0, <1>11 DEF Prv!Track, Prv!Entered, Prv!Origin, DataTyped, LoopTyped
  <2>5. LoopTyped'
    BY <1>0, <2>2, <2>3, <2>4, GotoTyped DEF Stages
  <2> QED BY <1>0, <2>4, <2>5 DEF DataTyped
<1>12. ASSUME NEW n \in Prv!Site, Prv!SendStart(n) PROVE LoopTyped' /\ DataTyped'
  <2>1. wire' \in [Prv!Way -> Seq(Prv!FedMsg)]
    BY <1>12, SendEffect DEF Prv!SendStart, Prv!FedMsg, Prv!Way
  <2>2. Prv!Goto(n, "bind") /\ client[n] = "start" /\ UNCHANGED <<phone, out, found, calls, priv, rd>>
    BY <1>12 DEF Prv!SendStart
  <2>3. LoopTyped'
    BY <1>0, <2>2, GotoTyped DEF Stages
  <2> QED BY <1>0, <2>1, <2>2, <2>3 DEF DataTyped
<1>13. ASSUME NEW n \in Prv!Site, Prv!Bind(n) PROVE LoopTyped' /\ DataTyped'
  <2>1. PICK l : l = Prv!AfterStart(n)
    OBVIOUS
  <2>2. l \in {"reply", "idle"} /\ (l = "reply" => msg[n] \in Prv!Connects)
    BY <2>1 DEF Prv!AfterStart
  <2>3. /\ Prv!Goto(n, l) /\ client[n] = "bind" /\ priv' \in [Prv!Site -> BOOLEAN]
        /\ UNCHANGED <<phone, out, found, calls, wire, rd>>
    BY <1>0, <1>13, <2>1 DEF Prv!Bind, DataTyped
  <2>4. LoopTyped'
    BY <1>0, <2>2, <2>3, GotoTyped DEF Stages
  <2> QED BY <1>0, <2>3, <2>4 DEF DataTyped
<1>14. \A n \in Prv!Site : Prv!Preferred(n) \in Prv!Way /\ Prv!Preferred(n)[1] = n
  BY DEF Prv!Preferred, Prv!Way, Prv!CallConstants
<1>15. ASSUME NEW n \in Prv!Site, Prv!Reply(n) PROVE LoopTyped' /\ DataTyped'
  <2>1. PICK l : l = IF msg[n] = "reject" THEN "untrack" ELSE "idle"
    OBVIOUS
  <2>2. /\ Prv!Goto(n, l) /\ client[n] = "reply" /\ l \in {"untrack", "idle"}
        /\ UNCHANGED <<phone, out, found, calls, priv, rd>>
    BY <1>15, <2>1 DEF Prv!Reply
  <2>3. wire' \in [Prv!Way -> Seq(Prv!FedMsg)]
    <3>1. Prv!Carried(msg[n]) \in Prv!FedMsg
      BY <1>0, <2>2 DEF Prv!FedMsg, Prv!Carried, LoopTyped, Answers
    <3> QED BY <1>0, <1>14, <1>15, <3>1, SendEffect DEF Prv!Reply, DataTyped
  <2>4. LoopTyped'
    BY <1>0, <2>1, <2>2, GotoTyped DEF Stages
  <2> QED BY <1>0, <2>2, <2>3, <2>4 DEF DataTyped
<1>16. ASSUME NEW n \in Prv!Site, Prv!Untrack(n) PROVE LoopTyped' /\ DataTyped'
  <2>1. /\ Prv!Goto(n, "end") /\ client[n] = "untrack" /\ calls' \in [Prv!Site -> Prv!Origin]
        /\ UNCHANGED <<phone, out, found, priv, wire, rd>>
    BY <1>0, <1>16 DEF Prv!Untrack, Prv!Origin, DataTyped
  <2>2. LoopTyped'
    BY <1>0, <2>1, GotoTyped DEF Stages
  <2> QED BY <1>0, <2>1, <2>2 DEF DataTyped
<1>17. ASSUME NEW n \in Prv!Site, Prv!End(n) PROVE LoopTyped' /\ DataTyped'
  <2>1. wire' \in [Prv!Way -> Seq(Prv!FedMsg)]
    BY <1>14, <1>17, SendEffect DEF Prv!End, Prv!FedMsg, Prv!Way
  <2>2. /\ Prv!Goto(n, "idle") /\ client[n] = "end" /\ priv' \in [Prv!Site -> BOOLEAN]
        /\ UNCHANGED <<phone, out, found, calls, rd>>
    BY <1>0, <1>17 DEF Prv!End, DataTyped
  <2>3. LoopTyped'
    BY <1>0, <2>2, GotoTyped DEF Stages
  <2> QED BY <1>0, <2>1, <2>2, <2>3 DEF DataTyped
<1>18. ASSUME NEW s \in Prv!Way, Prv!PeerLoop(s) PROVE LoopTyped' /\ DataTyped'
  <2>1. Prv!Other(s[1]) \in Prv!Site
    BY StreamNames DEF Prv!Other, Prv!Site
  <2>2. \A m : Prv!Receive(s, m) => wire' \in [Prv!Way -> Seq(Prv!FedMsg)]
    BY ReceiveEffect
  <2>3. CASE Prv!ReceiveStart(s)
    BY <1>0, <2>1, <2>2, <2>3 DEF Prv!ReceiveStart, Prv!Rung, Prv!Step, Prv!Active, Phones, LoopTyped, DataTyped
  <2>4. CASE Prv!StartTrack(s)
    BY <1>0, <2>1, <2>4 DEF Prv!StartTrack, Prv!Step, Prv!Origin, LoopTyped, DataTyped
  <2>5. CASE Prv!StartBind(s)
    BY <1>0, <2>1, <2>5 DEF Prv!StartBind, Prv!Step, LoopTyped, DataTyped
  <2>6. CASE Prv!ReceiveEnd(s)
    <3>1. /\ rd' \in [Prv!Way -> {"idle", "startTrack", "startBind", "endUntrack", "endUnbind"}]
          /\ phone' \in [Prv!Site -> Phones]
      <4>1. CASE calls[Prv!Other(s[1])] = "none"
        BY <1>0, <2>6, <4>1 DEF Prv!ReceiveEnd, Prv!Step, DataTyped
      <4>2. CASE calls[Prv!Other(s[1])] # "none"
        BY <1>0, <2>1, <2>6, <4>2 DEF Prv!ReceiveEnd, Prv!Step, Prv!Finished, Phones, DataTyped
      <4> QED BY <4>1, <4>2
    <3>2. wire' \in [Prv!Way -> Seq(Prv!FedMsg)] /\ UNCHANGED <<out, client, msg, found, calls, priv>>
      BY <2>2, <2>6 DEF Prv!ReceiveEnd
    <3> QED BY <1>0, <3>1, <3>2 DEF LoopTyped, DataTyped
  <2>7. CASE Prv!EndUntrack(s)
    BY <1>0, <2>1, <2>7 DEF Prv!EndUntrack, Prv!Step, Prv!Origin, LoopTyped, DataTyped
  <2>8. CASE Prv!EndUnbind(s)
    BY <1>0, <2>1, <2>8 DEF Prv!EndUnbind, Prv!Step, LoopTyped, DataTyped
  <2>9. ASSUME NEW m, Prv!ReceiveReply(s, m) PROVE LoopTyped' /\ DataTyped'
    BY <1>0, <2>1, <2>2, <2>9 DEF Prv!ReceiveReply, Prv!Active, Prv!Finished, Phones, LoopTyped, DataTyped
  <2> QED BY <1>18, <2>3, <2>4, <2>5, <2>6, <2>7, <2>8, <2>9 DEF Prv!PeerLoop
<1> QED
  BY <1>3, <1>4, <1>5, <1>6, <1>7, <1>8, <1>9, <1>11, <1>12, <1>13, <1>15, <1>16, <1>17, <1>18
     DEF Prv!Next, Prv!ClientLoop

LEMMA TwoSites ==
    /\ "A" \in Prv!Site /\ "B" \in Prv!Site /\ "A" # "B"
    /\ \A n \in Prv!Site : n = "A" \/ n = "B"
    /\ \A n \in Prv!Site, c \in Pair : <<n, c>> \in Prv!Way /\ <<n, c>>[1] = n
BY DEF Prv!Site, Prv!Way

\* Base station n's loop goes on with its message, or is done with it.
GoesOn(n) ==
    /\ client[n] # "idle"
    /\ \/ client'[n] = "idle" /\ msg'[n] = "none"
       \/ client'[n] # "idle" /\ msg'[n] = msg[n]
    /\ \A k \in Prv!Site : k # n => client'[k] = client[k] /\ msg'[k] = msg[k]
    /\ client'[n] # "track"
    /\ client'[n] = "start" => client[n] = "track" /\ Prv!DestIsRemote(n)
    /\ client'[n] = "bind" => client[n] = "start"
    /\ client'[n] = "reply" => msg[n] \in Prv!Connects /\ client[n] \in {"track", "bind"}
    /\ client'[n] = "untrack" => msg[n] = "reject"
    /\ client'[n] = "end" => client[n] = "untrack"
    /\ UNCHANGED <<phone, out, found, rd>>

LEMMA LoopEffects ==
    ASSUME Prv!TypeOK, Working, NEW n \in Prv!Site,
           \/ Prv!Track(n) \/ Prv!SendStart(n) \/ Prv!Bind(n)
           \/ Prv!Reply(n) \/ Prv!Untrack(n) \/ Prv!End(n)
    PROVE  GoesOn(n)
<1>1. LoopTyped
  BY TypesParted
<1>2. ASSUME NEW l \in Stages, Prv!Goto(n, l)
      PROVE  /\ client'[n] = l /\ msg'[n] = IF l = "idle" THEN "none" ELSE msg[n]
             /\ \A k \in Prv!Site : k # n => client'[k] = client[k] /\ msg'[k] = msg[k]
  BY <1>1, <1>2 DEF Prv!Goto, LoopTyped
<1>3. CASE Prv!Track(n)
  <2>1. PICK l : l = IF Prv!DestIsRemote(n) THEN "start" ELSE Prv!AfterStart(n)
    OBVIOUS
  <2>2. l \in {"start", "reply", "idle"} /\ (l = "reply" => msg[n] \in Prv!Connects)
        /\ (l = "start" => Prv!DestIsRemote(n)) /\ l \in Stages
    BY <2>1 DEF Prv!AfterStart, Stages
  <2>3. Prv!Goto(n, l) /\ client[n] = "track" /\ UNCHANGED <<phone, out, found, rd>>
    BY <1>3, <2>1 DEF Prv!Track
  <2> QED BY <1>2, <2>2, <2>3 DEF GoesOn
<1>4. CASE Prv!SendStart(n)
  <2>1. Prv!Goto(n, "bind") /\ client[n] = "start" /\ "bind" \in Stages /\ UNCHANGED <<phone, out, found, rd>>
    BY <1>4 DEF Prv!SendStart, Stages
  <2> QED BY <1>2, <2>1 DEF GoesOn
<1>5. CASE Prv!Bind(n)
  <2>1. PICK l : l = Prv!AfterStart(n)
    OBVIOUS
  <2>2. l \in {"reply", "idle"} /\ (l = "reply" => msg[n] \in Prv!Connects) /\ l \in Stages
    BY <2>1 DEF Prv!AfterStart, Stages
  <2>3. Prv!Goto(n, l) /\ client[n] = "bind" /\ UNCHANGED <<phone, out, found, rd>>
    BY <1>5, <2>1 DEF Prv!Bind
  <2> QED BY <1>2, <2>2, <2>3 DEF GoesOn
<1>6. CASE Prv!Reply(n)
  <2>1. PICK l : l = IF msg[n] = "reject" THEN "untrack" ELSE "idle"
    OBVIOUS
  <2>2. l \in {"untrack", "idle"} /\ (l = "untrack" => msg[n] = "reject") /\ l \in Stages
    BY <2>1 DEF Stages
  <2>3. Prv!Goto(n, l) /\ client[n] = "reply" /\ UNCHANGED <<phone, out, found, rd>>
    BY <1>6, <2>1 DEF Prv!Reply
  <2> QED BY <1>2, <2>2, <2>3 DEF GoesOn
<1>7. CASE Prv!Untrack(n)
  <2>1. Prv!Goto(n, "end") /\ client[n] = "untrack" /\ "end" \in Stages /\ UNCHANGED <<phone, out, found, rd>>
    BY <1>7 DEF Prv!Untrack, Stages
  <2> QED BY <1>2, <2>1 DEF GoesOn
<1>8. CASE Prv!End(n)
  <2>1. Prv!Goto(n, "idle") /\ client[n] = "end" /\ "idle" \in Stages /\ UNCHANGED <<phone, out, found, rd>>
    BY <1>8 DEF Prv!End, Stages
  <2> QED BY <1>2, <2>1 DEF GoesOn
<1> QED BY <1>3, <1>4, <1>5, <1>6, <1>7, <1>8

\* A phone's step, a lookup, another step of a base station's loop, or one of a stream's.
LEMMA StepKinds ==
    ASSUME Prv!Next
    PROVE  \/ Prv!Dial
           \/ \E n \in Prv!Site :
                 Prv!Accept(n) \/ Prv!Answer(n) \/ Prv!Reject(n) \/ Prv!HangUp(n) \/ Prv!Lose(n)
           \/ \E n \in Prv!Site : Prv!Lookup(n)
           \/ \E n \in Prv!Site :
                 \/ Prv!Track(n) \/ Prv!SendStart(n) \/ Prv!Bind(n)
                 \/ Prv!Reply(n) \/ Prv!Untrack(n) \/ Prv!End(n)
           \/ \E s \in Prv!Way : Prv!PeerLoop(s)
BY DEF Prv!Next, Prv!ClientLoop

\* What the steps of a stream's loop leave alone.
LEMMA PeerEffects ==
    ASSUME Prv!TypeOK, NEW s \in Prv!Way, Prv!PeerLoop(s)
    PROVE  /\ UNCHANGED <<out, client, msg, found>>
           /\ \A n \in Prv!Site : \A x : Sent(n, x)' => Sent(n, x)
           /\ \A k \in Prv!Way : k # s => rd'[k] = rd[k] /\ wire'[k] = wire[k]
<1>1. UNCHANGED <<out, client, msg, found>>
  BY DEF Prv!PeerLoop, Prv!ReceiveStart, Prv!StartTrack, Prv!StartBind, Prv!ReceiveEnd,
         Prv!EndUntrack, Prv!EndUnbind, Prv!ReceiveReply
<1>2. wire' = wire \/ \E m : Prv!Receive(s, m)
  BY DEF Prv!PeerLoop, Prv!ReceiveStart, Prv!StartTrack, Prv!StartBind, Prv!ReceiveEnd,
         Prv!EndUntrack, Prv!EndUnbind, Prv!ReceiveReply
<1>3. wire' = wire => \A n \in Prv!Site : \A x : Sent(n, x)' => Sent(n, x)
  BY DEF Sent
<1>4. \A k \in Prv!Way : k # s => rd'[k] = rd[k]
  BY DEF Prv!PeerLoop, Prv!ReceiveStart, Prv!StartTrack, Prv!StartBind, Prv!ReceiveEnd,
         Prv!EndUntrack, Prv!EndUnbind, Prv!ReceiveReply, Prv!Step, Prv!TypeOK
<1>5. \A k \in Prv!Way : k # s => wire'[k] = wire[k]
  BY <1>2, ReceiveEffect
<1> QED BY <1>1, <1>2, <1>3, <1>4, <1>5, ReceiveEffect

\* Base station n sends m as its phone gets to the given state.
Signalled(n, m, to) ==
    /\ phone' \in [Prv!Site -> Phones] /\ phone'[n] = to
    /\ out[n] \in Seq(Prv!ClientMsg) /\ m \in Prv!ClientMsg /\ out'[n] = Append(out[n], m)
    /\ \A x : Carries(out'[n], x) <=> Carries(out[n], x) \/ x = m
    /\ \A k \in Prv!Site : k # n => phone'[k] = phone[k] /\ out'[k] = out[k]
    /\ UNCHANGED <<client, msg, found, calls, priv, wire, rd>>
    /\ phone[n] \notin Prv!Finished
    /\ \/ m = "setup" /\ n = "A" /\ phone[n] = "idle" /\ to = "calling"
       \/ m \in {"accept", "connect", "echoed"} /\ phone[n] \in {"ringing", "accepted"}
          /\ to \in {"accepted", "talking"}
       \/ m \in Leaving /\ to \in Prv!Finished /\ phone[n] # "idle"
          /\ (m = "reject" => phone[n] \in {"ringing", "accepted"})

LEMMA SignalKinds ==
    ASSUME Prv!TypeOK,
           \/ Prv!Dial
           \/ \E n \in Prv!Site :
                 Prv!Accept(n) \/ Prv!Answer(n) \/ Prv!Reject(n) \/ Prv!HangUp(n) \/ Prv!Lose(n)
    PROVE  \E n \in Prv!Site : \E m, to : Signalled(n, m, to)
<1>1. ASSUME NEW n \in Prv!Site, NEW from, NEW m \in Prv!ClientMsg, NEW to,
             Prv!Signal(n, from, m, to), from \cap Prv!Finished = {},
             \/ m = "setup" /\ n = "A" /\ from = {"idle"} /\ to = "calling"
             \/ m \in {"accept", "connect", "echoed"} /\ from \subseteq {"ringing", "accepted"}
                /\ to \in {"accepted", "talking"}
             \/ m \in Leaving /\ to \in Prv!Finished /\ "idle" \notin from
                /\ (m = "reject" => from \subseteq {"ringing", "accepted"})
      PROVE  Signalled(n, m, to)
  <2>1. to \in Prv!Active \cup Prv!Finished
    BY <1>1 DEF Prv!Active
  <2>2. /\ phone[n] \in from /\ phone'[n] = to
        /\ \A k \in Prv!Site : k # n => phone'[k] = phone[k] /\ out'[k] = out[k]
        /\ phone' \in [Prv!Site -> Phones]
        /\ out'[n] = Append(out[n], m)
        /\ \A x : Carries(out'[n], x) <=> Carries(out[n], x) \/ x = m
        /\ UNCHANGED <<client, msg, found, calls, priv, wire, rd>>
    <3>1. Prv!Signal(n, from, m, to) /\ Prv!TypeOK
      BY <1>1
    <3>2. phone[n] \in from /\ phone'[n] = to /\ out'[n] = Append(out[n], m)
      BY <3>1 DEF Prv!Signal, Prv!TypeOK
    <3>3. \A k \in Prv!Site : k # n => phone'[k] = phone[k] /\ out'[k] = out[k]
      BY <2>1, <3>1, SignalEffect
    <3>4. phone' \in [Prv!Site -> Phones]
      BY <2>1, <3>1, SignalEffect
    <3>5. UNCHANGED <<client, msg, found, calls, priv, wire, rd>>
      BY <2>1, <3>1, SignalEffect
    <3>6. \A x : Carries(out'[n], x) <=> Carries(out[n], x) \/ x = m
      BY <2>1, <3>1, SignalEffect
    <3> QED BY <3>2, <3>3, <3>4, <3>5, <3>6
  <2>3. phone[n] \notin Prv!Finished /\ out[n] \in Seq(Prv!ClientMsg)
    BY <1>1, <2>2 DEF Prv!TypeOK
  <2>4. \/ m = "setup" /\ n = "A" /\ phone[n] = "idle" /\ to = "calling"
        \/ m \in {"accept", "connect", "echoed"} /\ phone[n] \in {"ringing", "accepted"}
           /\ to \in {"accepted", "talking"}
        \/ m \in Leaving /\ to \in Prv!Finished /\ phone[n] # "idle"
           /\ (m = "reject" => phone[n] \in {"ringing", "accepted"})
    BY <1>1, <2>2
  <2> QED BY <1>1, <2>2, <2>3, <2>4 DEF Signalled
<1>2. CASE Prv!Dial
  <2>1. Signalled("A", "setup", "calling")
    BY <1>1, <1>2 DEF Prv!Dial, Prv!Site, Prv!ClientMsg, Prv!Finished
  <2> QED BY <2>1, TwoSites
<1>3. ASSUME NEW n \in Prv!Site, Prv!Accept(n) PROVE \E m, to : Signalled(n, m, to)
  <2>1. Signalled(n, "accept", "accepted")
    BY <1>1, <1>3 DEF Prv!Accept, Prv!ClientMsg, Prv!Finished
  <2> QED BY <2>1
<1>4. ASSUME NEW n \in Prv!Site, Prv!Answer(n) PROVE \E m, to : Signalled(n, m, to)
  <2>1. PICK m \in Prv!Connects : Prv!Signal(n, {"ringing", "accepted"}, m, "talking")
    BY <1>4 DEF Prv!Answer
  <2>2. m \in Prv!ClientMsg /\ m \in {"accept", "connect", "echoed"}
    BY DEF Prv!ClientMsg, Prv!Connects
  <2>3. Signalled(n, m, "talking")
    BY <1>1, <2>1, <2>2 DEF Prv!Finished
  <2> QED BY <2>3
<1>5. ASSUME NEW n \in Prv!Site, Prv!Reject(n) PROVE \E m, to : Signalled(n, m, to)
  <2>1. Signalled(n, "reject", "over")
    BY <1>1, <1>5 DEF Prv!Reject, Prv!ClientMsg, Prv!Finished, Leaving
  <2> QED BY <2>1
<1>6. ASSUME NEW n \in Prv!Site, Prv!HangUp(n) PROVE \E m, to : Signalled(n, m, to)
  <2>1. Signalled(n, "release", "over")
    BY <1>1, <1>6 DEF Prv!HangUp, Prv!ClientMsg, Prv!Finished, Leaving
  <2> QED BY <2>1
<1>7. ASSUME NEW n \in Prv!Site, Prv!Lose(n) PROVE \E m, to : Signalled(n, m, to)
  <2>1. Signalled(n, "lost", "gone")
    BY <1>1, <1>7 DEF Prv!Lose, Prv!ClientMsg, Prv!Finished, Prv!Active, Leaving
  <2> QED BY <2>1
<1> QED BY <1>2, <1>3, <1>4, <1>5, <1>6, <1>7

\* The reply that base station n's loop works on goes over the federation as m.
Replies(n, m) ==
    \/ m = "accept"
    \/ m = "reject" /\ msg[n] = "reject"
    \/ m = "connect" /\ msg[n] \in Prv!Connects

\* What base station n's loop sends: a start, an answer, or the end of the call.
LEMMA LoopSends ==
    ASSUME Prv!CallConstants, Prv!TypeOK, Working, NEW n \in Prv!Site,
           \/ Prv!Track(n) \/ Prv!SendStart(n) \/ Prv!Bind(n)
           \/ Prv!Reply(n) \/ Prv!Untrack(n) \/ Prv!End(n)
    PROVE  \/ wire' = wire
           \/ \E s \in Prv!Way, m \in Prv!FedMsg :
                 /\ s[1] = n /\ Prv!SendControl(s, m)
                 /\ \/ m = "start" /\ client[n] = "start" /\ client'[n] = "bind"
                    \/ Replies(n, m) /\ client[n] = "reply"
                       /\ priv[n] /\ client'[n] # "reply"
                    \/ m = "end" /\ client[n] = "end"
<1>1. {"start", "accept", "reject", "connect", "end"} \subseteq Prv!FedMsg
  BY DEF Prv!FedMsg
<1>2. Prv!Preferred(n) \in Prv!Way /\ Prv!Preferred(n)[1] = n
  BY DEF Prv!Preferred, Prv!Way, Prv!CallConstants
<1>3. CASE Prv!Track(n) \/ Prv!Bind(n) \/ Prv!Untrack(n)
  BY <1>3 DEF Prv!Track, Prv!Bind, Prv!Untrack
<1>4. CASE Prv!SendStart(n)
  <2>1. PICK c \in Pair : Prv!SendControl(<<n, c>>, "start")
    BY <1>4 DEF Prv!SendStart
  <2>2. client[n] = "start" /\ client'[n] = "bind"
    BY <1>4 DEF Prv!SendStart, Prv!Goto, Prv!TypeOK
  <2>3. <<n, c>> \in Prv!Way /\ <<n, c>>[1] = n
    BY TwoSites
  <2> QED BY <1>1, <2>1, <2>2, <2>3
<1>5. CASE Prv!Reply(n)
  <2>1. client[n] = "reply" /\ msg[n] \in Answers
    BY <1>5 DEF Prv!Reply, Working
  <2>2. priv[n] => Prv!SendControl(Prv!Preferred(n), Prv!Carried(msg[n]))
    BY <1>5 DEF Prv!Reply
  <2>5. Prv!Carried(msg[n]) \in Prv!FedMsg /\ Replies(n, Prv!Carried(msg[n]))
    BY <1>1, <2>1 DEF Prv!Carried, Answers, Replies, Prv!Connects
  <2>3. ~priv[n] => wire' = wire
    BY <1>5 DEF Prv!Reply
  <2>4. client'[n] # "reply"
    BY <1>5 DEF Prv!Reply, Prv!Goto, Prv!TypeOK
  <2> QED BY <1>1, <1>2, <2>1, <2>2, <2>3, <2>4, <2>5
<1>6. CASE Prv!End(n)
  <2>1. client[n] = "end"
    BY <1>6 DEF Prv!End
  <2>2. priv[n] => Prv!SendControl(Prv!Preferred(n), "end")
    BY <1>6 DEF Prv!End
  <2>3. ~priv[n] => \E c \in Pair : Prv!SendControl(<<n, c>>, "end")
    BY <1>6 DEF Prv!End
  <2>4. \A c \in Pair : <<n, c>> \in Prv!Way /\ <<n, c>>[1] = n
    BY TwoSites
  <2> QED BY <1>1, <1>2, <2>1, <2>2, <2>3, <2>4
<1> QED BY <1>3, <1>4, <1>5, <1>6

\* Which messages are on the way after such a step.
LEMMA LoopSent ==
    ASSUME Prv!CallConstants, Prv!TypeOK, Working, NEW n \in Prv!Site,
           \/ Prv!Track(n) \/ Prv!SendStart(n) \/ Prv!Bind(n)
           \/ Prv!Reply(n) \/ Prv!Untrack(n) \/ Prv!End(n)
    PROVE  \A k \in Prv!Site : \A x : Sent(k, x)' =>
              \/ Sent(k, x)
              \/ /\ k = n
                 /\ \/ x = "start" /\ client[n] = "start" /\ client'[n] = "bind"
                    \/ Replies(n, x) /\ client[n] = "reply"
                       /\ priv[n] /\ client'[n] # "reply"
                    \/ x = "end" /\ client[n] = "end"
<1>1. CASE wire' = wire
  BY <1>1 DEF Sent
<1>2. ASSUME NEW s \in Prv!Way, NEW m \in Prv!FedMsg, s[1] = n, Prv!SendControl(s, m)
      PROVE  \A k \in Prv!Site : \A x : Sent(k, x)' <=> Sent(k, x) \/ (k = n /\ x = m)
  BY <1>2, SendEffect
<1> QED BY <1>1, <1>2, LoopSends

LEMMA RolesNext ==
    ASSUME /\ phone'["A"] \notin {"ringing", "accepted"}
           /\ \A m \in Answers : ~Carries(out'["A"], m) /\ msg'["A"] # m
           /\ phone'["B"] \notin {"calling", "through"}
           /\ ~Carries(out'["B"], "setup") /\ msg'["B"] # "setup"
    PROVE  Roles'
BY DEF Roles, Carries

\* How a stream's step changes the phone it is for: a start rings, an end ends the
\* call, an answer is for a caller that waits.
LEMMA PhoneEffects ==
    ASSUME Prv!TypeOK, NEW s \in Prv!Way, Prv!PeerLoop(s)
    PROVE  /\ \A k \in Prv!Site : s[1] = k => phone'[k] = phone[k]
           /\ \A k \in Prv!Site : s[1] # k =>
                 \/ phone'[k] = phone[k]
                 \/ /\ Prv!ReceiveStart(s) /\ phone[k] \in {"idle", "over"}
                    /\ phone'[k] = IF k = "A" THEN "rungBack" ELSE "ringing"
                 \/ phone[k] \in Prv!Active /\ phone'[k] = "over"
                 \/ phone[k] = "calling" /\ phone'[k] = "through" /\ Prv!Receive(s, "connect")
<1>0. /\ s[1] \in Prv!Site
      /\ \A k \in Prv!Site : s[1] = k => Prv!Other(s[1]) # k
      /\ \A k \in Prv!Site : s[1] # k => Prv!Other(s[1]) = k
      /\ Prv!Other(s[1]) \in Prv!Site
  BY StreamNames DEF Prv!Site, Prv!Other
<1>1. CASE Prv!ReceiveStart(s)
  BY <1>0, <1>1 DEF Prv!ReceiveStart, Prv!Rung, Prv!TypeOK
<1>2. CASE Prv!StartTrack(s) \/ Prv!StartBind(s) \/ Prv!EndUntrack(s) \/ Prv!EndUnbind(s)
  BY <1>2 DEF Prv!StartTrack, Prv!StartBind, Prv!EndUntrack, Prv!EndUnbind
<1>3. CASE Prv!ReceiveEnd(s)
  <2>1. CASE calls[Prv!Other(s[1])] = "none"
    BY <1>3, <2>1 DEF Prv!ReceiveEnd
  <2>2. CASE calls[Prv!Other(s[1])] # "none"
    BY <1>0, <1>3, <2>2 DEF Prv!ReceiveEnd, Prv!TypeOK
  <2> QED BY <2>1, <2>2
<1>4. ASSUME NEW m \in {"accept", "reject", "connect"}, Prv!ReceiveReply(s, m)
      PROVE  /\ \A k \in Prv!Site : s[1] = k => phone'[k] = phone[k]
             /\ \A k \in Prv!Site : s[1] # k =>
                   \/ phone'[k] = phone[k]
                   \/ phone[k] = "calling" /\ phone'[k] = "over"
                   \/ phone[k] = "calling" /\ phone'[k] = "through" /\ Prv!Receive(s, "connect")
  BY <1>0, <1>4 DEF Prv!ReceiveReply, Prv!TypeOK
<1>5. "calling" \in Prv!Active
  BY DEF Prv!Active
<1> QED BY <1>1, <1>2, <1>3, <1>4, <1>5 DEF Prv!PeerLoop

LEMMA RolesStep ==
    ASSUME Prv!CallConstants, Prv!TypeOK, Working, Roles, Prv!Next
    PROVE  Roles'
<1>1. CASE \/ Prv!Dial
           \/ \E n \in Prv!Site :
                 Prv!Accept(n) \/ Prv!Answer(n) \/ Prv!Reject(n) \/ Prv!HangUp(n) \/ Prv!Lose(n)
  <2>0. PICK n \in Prv!Site : \E m, to : Signalled(n, m, to)
    BY <1>1, SignalKinds
  <2>1. PICK m, to : Signalled(n, m, to)
    BY <2>0
  <2>2. phone'["A"] \notin {"ringing", "accepted"} /\ phone'["B"] \notin {"calling", "through"}
    BY <2>1, TwoSites DEF Signalled, Roles, Prv!Finished
  <2>3. \A x \in Answers : ~Carries(out'["A"], x) /\ msg'["A"] # x
    BY <2>1, TwoSites DEF Signalled, Roles, Leaving, Answers
  <2>4. ~Carries(out'["B"], "setup") /\ msg'["B"] # "setup"
    BY <2>1, TwoSites DEF Signalled, Roles, Leaving, Answers
  <2> QED BY <2>2, <2>3, <2>4, RolesNext
<1>2. ASSUME NEW n \in Prv!Site, Prv!Lookup(n) PROVE Roles'
  <2>1. PICK m : Reads(n, m)
    BY <1>2, LookupEffect
  <2>2. phone'["A"] \notin {"ringing", "accepted"} /\ phone'["B"] \notin {"calling", "through"}
    BY <2>1 DEF Reads, Roles
  <2>3. \A x \in Answers : ~Carries(out'["A"], x) /\ msg'["A"] # x
    BY <2>1, TwoSites DEF Reads, Roles, Answers, Opening
  <2>4. ~Carries(out'["B"], "setup") /\ msg'["B"] # "setup"
    BY <2>1, TwoSites DEF Reads, Roles, Answers, Opening
  <2> QED BY <2>2, <2>3, <2>4, RolesNext
<1>3. ASSUME NEW n \in Prv!Site,
             \/ Prv!Track(n) \/ Prv!SendStart(n) \/ Prv!Bind(n)
             \/ Prv!Reply(n) \/ Prv!Untrack(n) \/ Prv!End(n)
      PROVE  Roles'
  <2>1. GoesOn(n)
    BY <1>3, LoopEffects
  <2>2. phone'["A"] \notin {"ringing", "accepted"} /\ phone'["B"] \notin {"calling", "through"}
    BY <2>1 DEF GoesOn, Roles
  <2>3. \A x \in Answers : ~Carries(out'["A"], x) /\ msg'["A"] # x
    BY <2>1, TwoSites DEF GoesOn, Roles, Answers
  <2>4. ~Carries(out'["B"], "setup") /\ msg'["B"] # "setup"
    BY <2>1, TwoSites DEF GoesOn, Roles, Answers
  <2> QED BY <2>2, <2>3, <2>4, RolesNext
<1>4. ASSUME NEW s \in Prv!Way, Prv!PeerLoop(s) PROVE Roles'
  <2>1. UNCHANGED <<out, client, msg>>
    BY <1>4, PeerEffects
  <2>2. phone'["B"] \notin {"calling", "through"}
    BY <1>4, PhoneEffects, TwoSites DEF Roles
  <2>4. phone'["A"] \notin {"ringing", "accepted"}
    BY <1>4, PhoneEffects, TwoSites DEF Roles
  <2>5. /\ \A x \in Answers : ~Carries(out'["A"], x) /\ msg'["A"] # x
        /\ ~Carries(out'["B"], "setup") /\ msg'["B"] # "setup"
       
    BY <2>1 DEF Roles
  <2> QED BY <2>1, <2>2, <2>4, <2>5, RolesNext
<1> QED BY <1>1, <1>2, <1>3, <1>4, StepKinds

LEMMA OneMore ==
    ASSUME Prv!TypeOK, OneAtMost, NEW s \in Prv!Way, NEW m \in Prv!FedMsg, Prv!SendControl(s, m),
           m # "start" \/ s[1] # "A" \/ ~Sent("A", "start")
    PROVE  OneAtMost'
<1>1. /\ wire'[s] = Append(wire[s], m)
      /\ \A k \in Prv!Way : k # s => wire'[k] = wire[k]
  BY SendEffect
<1>2. /\ s[1] \in Prv!Site /\ s[2] \in Pair /\ s = <<s[1], s[2]>>
      /\ \A c \in Pair : <<"A", c>> \in Prv!Way
      /\ \A c \in Pair : <<"A", c>> = s => s[1] = "A" /\ s[2] = c
  BY StreamNames, TwoSites
<1>3. wire[s] \in Seq(Prv!FedMsg)
  BY DEF Prv!TypeOK
<1>4. /\ Len(wire[s]) \in Nat /\ Len(Append(wire[s], m)) = Len(wire[s]) + 1
      /\ \A i \in 1 .. Len(wire[s]) : Append(wire[s], m)[i] = wire[s][i]
      /\ Append(wire[s], m)[Len(wire[s]) + 1] = m
  BY <1>3
\* A start that is under way now was under way before, or it is the one sent.
<1>5. ASSUME NEW c \in Pair, NEW i \in 1 .. Len(wire'[<<"A", c>>]), wire'[<<"A", c>>][i] = "start"
      PROVE  \/ i \in 1 .. Len(wire[<<"A", c>>]) /\ wire[<<"A", c>>][i] = "start"
             \/ m = "start" /\ s = <<"A", c>> /\ i = Len(wire[s]) + 1
  <2>1. CASE <<"A", c>> = s
    <3>1. i \in 1 .. Len(wire[s]) \/ i = Len(wire[s]) + 1
      BY <1>1, <1>4, <1>5, <2>1
    <3> QED BY <1>1, <1>4, <1>5, <2>1, <3>1
  <2>2. CASE <<"A", c>> # s
    BY <1>1, <1>2, <1>5, <2>2
  <2> QED BY <2>1, <2>2
<1>6. ASSUME NEW c \in Pair, NEW i \in 1 .. Len(wire[<<"A", c>>]), wire[<<"A", c>>][i] = "start"
      PROVE  Sent("A", "start")
  BY <1>6 DEF Sent, Carries
<1>7. ASSUME NEW c \in Pair, NEW d \in Pair,
             NEW i \in 1 .. Len(wire'[<<"A", c>>]), NEW j \in 1 .. Len(wire'[<<"A", d>>]),
             wire'[<<"A", c>>][i] = "start", wire'[<<"A", d>>][j] = "start"
      PROVE  c = d /\ i = j
  <2>1. CASE m = "start" /\ s[1] = "A"
    <3>1. s = <<"A", c>> /\ s = <<"A", d>> /\ i = Len(wire[s]) + 1 /\ j = Len(wire[s]) + 1
      BY <1>5, <1>6, <1>7, <2>1
    <3> QED BY <3>1
  <2>2. CASE ~(m = "start" /\ s[1] = "A")
    <3>1. /\ i \in 1 .. Len(wire[<<"A", c>>]) /\ wire[<<"A", c>>][i] = "start"
          /\ j \in 1 .. Len(wire[<<"A", d>>]) /\ wire[<<"A", d>>][j] = "start"
      BY <1>2, <1>5, <1>7, <2>2
    <3> QED BY <3>1 DEF OneAtMost
  <2> QED BY <2>1, <2>2
<1> QED BY <1>7 DEF OneAtMost

LEMMA OneLess ==
    ASSUME Prv!TypeOK, OneAtMost, NEW s \in Prv!Way, NEW m, Prv!Receive(s, m)
    PROVE  OneAtMost' /\ (s[1] = "A" /\ m = "start" => ~Sent("A", "start")')
<1>1. /\ wire[s] # <<>> /\ wire[s][1] = m /\ 1 \in 1 .. Len(wire[s])
      /\ \A k \in Prv!Way : k # s => wire'[k] = wire[k]
      /\ \A i \in 1 .. Len(wire'[s]) : i + 1 \in 1 .. Len(wire[s]) /\ wire'[s][i] = wire[s][i + 1]
  BY ReceiveEffect
<1>2. /\ s[1] \in Prv!Site /\ s[2] \in Pair /\ s = <<s[1], s[2]>>
      /\ \A c \in Pair : <<"A", c>> \in Prv!Way
      /\ \A c \in Pair : <<"A", c>> = s => s[1] = "A" /\ s[2] = c
  BY StreamNames, TwoSites
\* A start that is under way now was so before: one place further on this stream.
<1>3. ASSUME NEW c \in Pair, NEW i \in 1 .. Len(wire'[<<"A", c>>]), wire'[<<"A", c>>][i] = "start"
      PROVE  \/ <<"A", c>> = s /\ i + 1 \in 1 .. Len(wire[<<"A", c>>]) /\ wire[<<"A", c>>][i + 1] = "start"
             \/ <<"A", c>> # s /\ i \in 1 .. Len(wire[<<"A", c>>]) /\ wire[<<"A", c>>][i] = "start"
  <2>1. CASE <<"A", c>> = s
    BY <1>1, <1>3, <2>1
  <2>2. CASE <<"A", c>> # s
    BY <1>1, <1>2, <1>3, <2>2
  <2> QED BY <2>1, <2>2
<1>4. ASSUME NEW c \in Pair, NEW d \in Pair,
             NEW i \in 1 .. Len(wire'[<<"A", c>>]), NEW j \in 1 .. Len(wire'[<<"A", d>>]),
             wire'[<<"A", c>>][i] = "start", wire'[<<"A", d>>][j] = "start"
      PROVE  c = d /\ i = j
  <2>0. i \in Int /\ j \in Int
    OBVIOUS
  <2>1. PICK k : k \in 1 .. Len(wire[<<"A", c>>]) /\ wire[<<"A", c>>][k] = "start"
                 /\ (k = IF <<"A", c>> = s THEN i + 1 ELSE i)
    BY <1>3, <1>4
  <2>2. PICK l : l \in 1 .. Len(wire[<<"A", d>>]) /\ wire[<<"A", d>>][l] = "start"
                 /\ (l = IF <<"A", d>> = s THEN j + 1 ELSE j)
    BY <1>3, <1>4
  <2>3. c = d /\ k = l
    BY <2>1, <2>2 DEF OneAtMost
  <2> QED BY <2>0, <2>1, <2>2, <2>3
<1>5. OneAtMost'
  BY <1>4 DEF OneAtMost
<1>6. ASSUME s[1] = "A", m = "start", Sent("A", "start")' PROVE FALSE
  <2>1. PICK c \in Pair : Carries(wire'[<<"A", c>>], "start")
    BY <1>6 DEF Sent, Carries
  <2>2. PICK i \in 1 .. Len(wire'[<<"A", c>>]) : wire'[<<"A", c>>][i] = "start"
    BY <2>1 DEF Carries
  <2>3. PICK k : k \in 1 .. Len(wire[<<"A", c>>]) /\ wire[<<"A", c>>][k] = "start"
                 /\ (<<"A", c>> = s => k = i + 1)
    BY <1>3, <2>2
  <2>4. wire[<<"A", s[2]>>][1] = "start" /\ 1 \in 1 .. Len(wire[<<"A", s[2]>>])
    BY <1>1, <1>2, <1>6
  <2>5. c = s[2] /\ k = 1
    <3>1. \A u \in 1 .. Len(wire[<<"A", c>>]) : \A v \in 1 .. Len(wire[<<"A", s[2]>>]) :
             wire[<<"A", c>>][u] = "start" /\ wire[<<"A", s[2]>>][v] = "start" => c = s[2] /\ u = v
      BY <1>2 DEF OneAtMost
    <3> QED BY <2>3, <2>4, <3>1
  <2>6. k = i + 1 /\ i >= 1
    BY <1>2, <1>6, <2>2, <2>3, <2>5
  <2> QED BY <2>2, <2>5, <2>6
<1> QED BY <1>5, <1>6

LEMMA OneSame ==
    ASSUME OneAtMost, wire' = wire
    PROVE  OneAtMost'
<1>1. PICK w : w = wire
  OBVIOUS
<1>2. wire' = w
  BY <1>1
<1> QED BY <1>1, <1>2 DEF OneAtMost

LEMMA StagesNext ==
    /\ Dialling' <=> Carries(out'["A"], "setup")
    /\ Dialled' <=> client'["A"] \in {"track", "start"}
BY DEF Dialling, Dialled, Carries

LEMMA OneStartNext ==
    ASSUME phone'["A"] = "idle" => out'["A"] = <<>> /\ client'["A"] = "idle",
           phone'["A"] = "idle" \/ Dialling' \/ Dialled' => ~Sent("A", "start")' /\ phone'["B"] = "idle",
           Dialling' => client'["A"] = "idle",
           \A i \in 1 .. Len(out'["A"]) : out'["A"][i] = "setup" => i = 1,
           Dialled' => msg'["A"] = "setup",
           Sent("A", "start")' => phone'["B"] = "idle",
           OneAtMost'
    PROVE  OneStart'
BY DEF OneStart

LEMMA OneStartStep ==
    ASSUME Prv!CallConstants, Prv!TypeOK, Working, Roles, OneStart, Prv!Next
    PROVE  OneStart'
<1>0. OneAtMost /\ \A x \in {"accept", "reject", "connect", "end"} : x # "start"
  BY DEF OneStart
<1>1. CASE \/ Prv!Dial
           \/ \E n \in Prv!Site :
                 Prv!Accept(n) \/ Prv!Answer(n) \/ Prv!Reject(n) \/ Prv!HangUp(n) \/ Prv!Lose(n)
  <2>0. PICK n \in Prv!Site : \E m, to : Signalled(n, m, to)
    BY <1>1, SignalKinds
  <2>1. PICK m, to : Signalled(n, m, to)
    BY <2>0
  <2>2. UNCHANGED <<client, msg, wire>>
    BY <2>1 DEF Signalled
  <2>3. OneAtMost' /\ (Sent("A", "start")' <=> Sent("A", "start")) /\ (Dialled' <=> Dialled)
    BY <1>0, <2>2, OneSame DEF Sent, Dialled
  <2>4. CASE n = "A" /\ m = "setup"
    <3>1. phone["A"] = "idle" /\ phone'["A"] = "calling" /\ phone'["B"] = phone["B"]
      BY <2>1, <2>4, TwoSites DEF Signalled, Leaving
    <3>2. /\ out["A"] = <<>> /\ client["A"] = "idle" /\ ~Sent("A", "start") /\ phone["B"] = "idle"
      BY <3>1 DEF OneStart
    <3>3. out'["A"] = <<"setup">>
      BY <2>1, <2>4, <3>2 DEF Signalled
    <3>4. \A i \in 1 .. Len(out'["A"]) : out'["A"][i] = "setup" => i = 1
      BY <3>3
    <3>5. ~Dialled'
      BY <2>2, <3>2, StagesNext
    <3> QED BY <2>2, <2>3, <3>1, <3>2, <3>4, <3>5, OneStartNext
  <2>5. CASE ~(n = "A" /\ m = "setup")
    <3>1. m # "setup"
      BY <2>1, <2>5 DEF Signalled, Leaving
    <3>2. Dialling' => Dialling
      BY <2>1, <3>1, StagesNext, TwoSites DEF Signalled, Dialling
    <3>3. /\ phone[n] # "idle" /\ phone'[n] # "idle"
          /\ \A k \in Prv!Site : k # n => phone'[k] = phone[k] /\ out'[k] = out[k]
      BY <2>1, <3>1 DEF Signalled, Prv!Finished
    <3>4. /\ phone["A"] = "idle" \/ Dialling \/ Dialled => ~Sent("A", "start") /\ phone["B"] = "idle"
          /\ Sent("A", "start") => phone["B"] = "idle"
      BY DEF OneStart
    <3>5. n = "B" => ~Sent("A", "start") /\ phone["B"] # "idle"
      BY <3>3, <3>4
    <3>6. phone'["A"] = "idle" => phone["A"] = "idle" /\ n = "B"
      BY <3>3, TwoSites
    <3>7. phone'["A"] = "idle" => out'["A"] = <<>> /\ client'["A"] = "idle"
      BY <2>2, <3>3, <3>6, TwoSites DEF OneStart
    <3>8. phone'["A"] = "idle" \/ Dialling' \/ Dialled' => ~Sent("A", "start")' /\ phone'["B"] = "idle"
      BY <2>3, <3>2, <3>3, <3>4, <3>5, <3>6, TwoSites
    <3>9. \A i \in 1 .. Len(out'["A"]) : out'["A"][i] = "setup" => i = 1
      <4>1. CASE n = "A"
        <5>1. out["A"] \in Seq(Prv!ClientMsg) /\ m \in Prv!ClientMsg /\ out'["A"] = Append(out["A"], m)
          BY <2>1, <4>1 DEF Signalled
        <5>2. /\ Len(out["A"]) \in Nat /\ Len(out'["A"]) = Len(out["A"]) + 1
              /\ \A i \in 1 .. Len(out["A"]) : out'["A"][i] = out["A"][i]
              /\ out'["A"][Len(out["A"]) + 1] = m
          BY <5>1
        <5>3. \A i \in 1 .. Len(out["A"]) : out["A"][i] = "setup" => i = 1
          BY DEF OneStart
        <5> QED BY <3>1, <5>2, <5>3
      <4>2. CASE n # "A"
        BY <3>3, <4>2, TwoSites DEF OneStart
      <4> QED BY <4>1, <4>2
    <3>10. (Dialling' => client'["A"] = "idle") /\ (Dialled' => msg'["A"] = "setup")
      BY <2>2, <2>3, <3>2 DEF OneStart
    <3>11. Sent("A", "start")' => phone'["B"] = "idle"
      BY <2>3, <3>3, <3>4, <3>5, TwoSites
    <3> QED BY <2>3, <3>7, <3>8, <3>9, <3>10, <3>11, OneStartNext
  <2> QED BY <2>4, <2>5
<1>2. ASSUME NEW n \in Prv!Site, Prv!Lookup(n) PROVE OneStart'
  <2>1. PICK m : Reads(n, m)
    BY <1>2, LookupEffect
  <2>2. UNCHANGED <<phone, wire>>
    BY <2>1 DEF Reads
  <2>3. OneAtMost' /\ (Sent("A", "start")' <=> Sent("A", "start"))
    BY <1>0, <2>2, OneSame DEF Sent
  <2>4. CASE n = "A"
    <3>1. /\ Carries(out["A"], m) /\ client["A"] = "idle"
          /\ \A i \in 1 .. Len(out'["A"]) : i + 1 \in 1 .. Len(out["A"]) /\ out'["A"][i] = out["A"][i + 1]
      BY <2>1, <2>4 DEF Reads
    <3>2. \A i \in 1 .. Len(out["A"]) : out["A"][i] = "setup" => i = 1
      BY DEF OneStart
    <3>3. \A i \in 1 .. Len(out'["A"]) : out'["A"][i] # "setup"
      BY <3>1, <3>2
    <3>4. ~Dialling'
      BY <3>3, StagesNext DEF Carries
    <3>5. phone["A"] # "idle"
      <4>1. phone["A"] = "idle" => out["A"] = <<>>
        BY DEF OneStart
      <4>2. out["A"] # <<>>
        BY <3>1 DEF Carries
      <4> QED BY <4>1, <4>2
    <3>6. Dialled' => m = "setup" /\ msg'["A"] = "setup" /\ Dialling
      <4>1. m \notin Answers
        BY <3>1 DEF Roles
      <4>2. client'["A"] \in {"track", "start"} => m = "setup" /\ msg'["A"] = m
        BY <2>1, <2>4, <4>1 DEF Reads, Opening, Answers
      <4> QED BY <3>1, <4>2, StagesNext DEF Dialling
    <3>7. Dialling => ~Sent("A", "start") /\ phone["B"] = "idle"
      BY DEF OneStart
    <3>8. Sent("A", "start")' => phone'["B"] = "idle"
      BY <2>2, <2>3 DEF OneStart
    <3> QED BY <2>2, <2>3, <3>3, <3>4, <3>5, <3>6, <3>7, <3>8, OneStartNext
  <2>5. CASE n # "A"
    <3>1. out'["A"] = out["A"] /\ client'["A"] = client["A"] /\ msg'["A"] = msg["A"]
      BY <2>1, <2>5, TwoSites DEF Reads
    <3>2. (Dialling' <=> Dialling) /\ (Dialled' <=> Dialled)
      BY <3>1, StagesNext DEF Dialling, Dialled
    <3> QED BY <2>2, <2>3, <3>1, <3>2, OneStartNext DEF OneStart
  <2> QED BY <2>4, <2>5
<1>3. ASSUME NEW n \in Prv!Site,
             \/ Prv!Track(n) \/ Prv!SendStart(n) \/ Prv!Bind(n)
             \/ Prv!Reply(n) \/ Prv!Untrack(n) \/ Prv!End(n)
      PROVE  OneStart'
  <2>1. GoesOn(n)
    BY <1>3, LoopEffects
  <2>2. UNCHANGED <<phone, out>>
    BY <2>1 DEF GoesOn
  <2>3. Dialling' <=> Dialling
    BY <2>2, StagesNext DEF Dialling
  <2>4. /\ phone["A"] = "idle" => out["A"] = <<>> /\ client["A"] = "idle"
        /\ Dialling => client["A"] = "idle"
        /\ Dialled => msg["A"] = "setup"
        /\ phone["A"] = "idle" \/ Dialling \/ Dialled => ~Sent("A", "start") /\ phone["B"] = "idle"
        /\ Sent("A", "start") => phone["B"] = "idle"
        /\ \A i \in 1 .. Len(out["A"]) : out["A"][i] = "setup" => i = 1
    BY DEF OneStart
  <2>5. n = "A" => phone["A"] # "idle" /\ ~Dialling
    BY <2>1, <2>4 DEF GoesOn
  <2>6. n # "A" => client'["A"] = client["A"] /\ msg'["A"] = msg["A"]
    BY <2>1, TwoSites DEF GoesOn
  <2>7. Dialled' => Dialled /\ msg'["A"] = "setup" /\ (n = "A" => client'["A"] = "start")
    BY <2>1, <2>4, <2>6, StagesNext, TwoSites DEF GoesOn, Dialled
  <2>8. Sent("A", "start")' => \/ Sent("A", "start")
                               \/ n = "A" /\ client["A"] = "start" /\ client'["A"] = "bind"
    BY <1>0, <1>3, LoopSent, TwoSites DEF Replies
  <2>9. phone'["A"] = "idle" \/ Dialling' \/ Dialled' => ~Sent("A", "start")' /\ phone'["B"] = "idle"
    BY <2>2, <2>3, <2>4, <2>5, <2>7, <2>8
  <2>10. Sent("A", "start")' => phone'["B"] = "idle"
    BY <2>2, <2>4, <2>8 DEF Dialled
  <2>11. OneAtMost'
    <3>1. CASE wire' = wire
      BY <1>0, <3>1, OneSame
    <3>2. ASSUME NEW s \in Prv!Way, NEW m \in Prv!FedMsg, s[1] = n, Prv!SendControl(s, m),
                 m = "start" => client[n] = "start"
          PROVE  OneAtMost'
      <4>1. m # "start" \/ s[1] # "A" \/ ~Sent("A", "start")
        BY <2>4, <3>2 DEF Dialled
      <4> QED BY <1>0, <3>2, <4>1, OneMore
    <3>3. \/ wire' = wire
          \/ \E s \in Prv!Way, m \in Prv!FedMsg :
                s[1] = n /\ Prv!SendControl(s, m) /\ (m = "start" => client[n] = "start")
      BY <1>0, <1>3, LoopSends DEF Replies
    <3> QED BY <3>1, <3>2, <3>3
  <2>12. Dialling' => client'["A"] = "idle"
    BY <2>3, <2>4, <2>5, <2>6
  <2>13. phone'["A"] = "idle" => out'["A"] = <<>> /\ client'["A"] = "idle"
    BY <2>2, <2>4, <2>5, <2>6
  <2>14. \A i \in 1 .. Len(out'["A"]) : out'["A"][i] = "setup" => i = 1
    BY <2>2, <2>4
  <2> QED BY <2>7, <2>9, <2>10, <2>11, <2>12, <2>13, <2>14, OneStartNext
<1>4. ASSUME NEW s \in Prv!Way, Prv!PeerLoop(s) PROVE OneStart'
  <2>1. UNCHANGED <<out, client, msg>> /\ (Sent("A", "start")' => Sent("A", "start"))
    BY <1>4, PeerEffects, TwoSites
  <2>2. (Dialling' <=> Dialling) /\ (Dialled' <=> Dialled)
    BY <2>1, StagesNext DEF Dialling, Dialled
  <2>3. wire' = wire \/ \E m : Prv!Receive(s, m)
    BY <1>4 DEF Prv!PeerLoop, Prv!ReceiveStart, Prv!StartTrack, Prv!StartBind, Prv!ReceiveEnd,
       Prv!EndUntrack, Prv!EndUnbind, Prv!ReceiveReply
  <2>4. OneAtMost'
    <3>1. CASE wire' = wire
      BY <1>0, <3>1, OneSame
    <3>2. ASSUME NEW m, Prv!Receive(s, m) PROVE OneAtMost'
      BY <1>0, <3>2, OneLess
    <3> QED BY <2>3, <3>1, <3>2
  <2>5. Prv!ReceiveStart(s) /\ s[1] = "A" => Sent("A", "start") /\ ~Sent("A", "start")'
    <3>1. SUFFICES ASSUME Prv!ReceiveStart(s), s[1] = "A"
                   PROVE  Sent("A", "start") /\ ~Sent("A", "start")'
      OBVIOUS
    <3>2. Prv!Receive(s, "start")
      BY <3>1 DEF Prv!ReceiveStart
    <3>3. Sent(s[1], "start")
      BY <3>2, ReceiveEffect
    <3> QED BY <1>0, <3>1, <3>2, <3>3, OneLess
  <2>6. phone["B"] = "idle" /\ phone'["B"] # "idle" => Prv!ReceiveStart(s) /\ s[1] = "A"
    BY <1>4, PhoneEffects, StreamNames, TwoSites DEF Prv!Active
  <2>7. phone'["A"] = "idle" => phone["A"] = "idle"
    BY <1>4, PhoneEffects, TwoSites
  <2>8. /\ phone["A"] = "idle" \/ Dialling \/ Dialled => ~Sent("A", "start") /\ phone["B"] = "idle"
        /\ Sent("A", "start") => phone["B"] = "idle"
        /\ phone["A"] = "idle" => out["A"] = <<>> /\ client["A"] = "idle"
        /\ Dialling => client["A"] = "idle"
        /\ Dialled => msg["A"] = "setup"
        /\ \A i \in 1 .. Len(out["A"]) : out["A"][i] = "setup" => i = 1
    BY DEF OneStart
  <2>9. phone'["A"] = "idle" \/ Dialling' \/ Dialled' => ~Sent("A", "start")' /\ phone'["B"] = "idle"
    BY <2>1, <2>2, <2>5, <2>6, <2>7, <2>8
  <2>10. Sent("A", "start")' => phone'["B"] = "idle"
    BY <2>1, <2>5, <2>6, <2>8
  <2> QED BY <2>1, <2>2, <2>4, <2>7, <2>8, <2>9, <2>10, OneStartNext
<1> QED BY <1>1, <1>2, <1>3, <1>4, StepKinds

LEMMA StayingNext ==
    ASSUME NEW n,
           \A m \in Leaving : ~Carries(out'[n], m) /\ msg'[n] # m,
           client'[n] \notin {"untrack", "end"},
           ~Sent(n, "end")', ~Sent(n, "reject")',
           \A c \in Pair : rd'[<<n, c>>] \notin {"endUntrack", "endUnbind"}
    PROVE  Staying(n)'
BY DEF Staying, Carries

\* An ended phone stays so: the one start from A finds the called radio idle, one from
\* B at most rings the caller back.
LEMMA GoneStep ==
    ASSUME Prv!TypeOK, Working, Roles, OneStart, Prv!Next, NEW k \in Prv!Site, Gone(k)
    PROVE  Gone(k)'
<1>0. phone[k] \in Ended
  BY DEF Gone
<1> SUFFICES phone'[k] \in Ended
  BY DEF Gone
<1>1. CASE \/ Prv!Dial
           \/ \E n \in Prv!Site :
                 Prv!Accept(n) \/ Prv!Answer(n) \/ Prv!Reject(n) \/ Prv!HangUp(n) \/ Prv!Lose(n)
  <2>0. PICK n \in Prv!Site : \E m, to : Signalled(n, m, to)
    BY <1>1, SignalKinds
  <2>1. PICK m, to : Signalled(n, m, to)
    BY <2>0
  <2> QED BY <1>0, <2>1 DEF Signalled, Ended, Prv!Finished, Leaving
<1>2. ASSUME NEW n \in Prv!Site, Prv!Lookup(n) PROVE phone' = phone
  BY <1>2 DEF Prv!Lookup
<1>3. ASSUME NEW n \in Prv!Site,
             \/ Prv!Track(n) \/ Prv!SendStart(n) \/ Prv!Bind(n)
             \/ Prv!Reply(n) \/ Prv!Untrack(n) \/ Prv!End(n)
      PROVE  phone' = phone
  BY <1>3, LoopEffects DEF GoesOn
<1>4. ASSUME NEW s \in Prv!Way, Prv!PeerLoop(s) PROVE phone'[k] \in Ended
  <2>1. SUFFICES ASSUME phone'[k] # phone[k], phone'[k] # "rungBack", s[1] # k PROVE FALSE
    BY <1>0, <1>4, PhoneEffects, StreamNames DEF Ended
  <2>2. phone[k] \notin Prv!Active /\ phone[k] # "calling" /\ phone[k] # "idle"
    BY <1>0 DEF Ended, Prv!Active, Prv!Finished
  <2>3. Prv!ReceiveStart(s) /\ k # "A"
    BY <1>4, <2>1, <2>2, PhoneEffects
  <2>4. Sent(s[1], "start")
    BY <2>3, ReceiveEffect DEF Prv!ReceiveStart
  <2>5. s[1] = "A" /\ k = "B"
    BY <2>1, <2>3, StreamNames, TwoSites
  <2>6. phone["B"] = "idle"
    BY <2>4, <2>5 DEF OneStart
  <2> QED BY <2>2, <2>5, <2>6
<1> QED BY <1>0, <1>1, <1>2, <1>3, <1>4, StepKinds

LEMMA StayingStep ==
    ASSUME Prv!CallConstants, Prv!TypeOK, Working, Prv!Next,
           NEW k \in Prv!Site, ~Gone(k)', Staying(k)
    PROVE  Staying(k)'
<1>0. /\ phone'[k] \notin Ended
      /\ \A m \in Leaving : ~Carries(out[k], m) /\ msg[k] # m
      /\ client[k] \notin {"untrack", "end"}
      /\ ~Sent(k, "end") /\ ~Sent(k, "reject")
      /\ \A c \in Pair : rd[<<k, c>>] \notin {"endUntrack", "endUnbind"}
  BY DEF Gone, Staying
<1>a. "reject" \in Leaving /\ "lost" \in Leaving /\ "release" \in Leaving /\ "none" \notin Leaving
  BY DEF Leaving
<1>1. CASE \/ Prv!Dial
           \/ \E n \in Prv!Site :
                 Prv!Accept(n) \/ Prv!Answer(n) \/ Prv!Reject(n) \/ Prv!HangUp(n) \/ Prv!Lose(n)
  <2>0. PICK n \in Prv!Site : \E m, to : Signalled(n, m, to)
    BY <1>1, SignalKinds
  <2>1. PICK m, to : Signalled(n, m, to)
    BY <2>0
  <2>2. /\ UNCHANGED <<client, msg, wire, rd>>
        /\ n # k => out'[k] = out[k]
        /\ \A x : Carries(out'[n], x) <=> Carries(out[n], x) \/ x = m
    BY <2>1 DEF Signalled
  <2>3. n = k => m \notin Leaving
    BY <1>0, <2>1 DEF Signalled, Leaving, Ended
  <2>4. \A x \in Leaving : ~Carries(out'[k], x) /\ msg'[k] # x
    BY <1>0, <2>2, <2>3
  <2>5. ~Sent(k, "end")' /\ ~Sent(k, "reject")'
    BY <1>0, <2>2 DEF Sent
  <2> QED BY <1>0, <2>2, <2>4, <2>5, StayingNext
<1>2. ASSUME NEW n \in Prv!Site, Prv!Lookup(n) PROVE Staying(k)'
  <2>1. PICK m : Reads(n, m)
    BY <1>2, LookupEffect
  <2>2. UNCHANGED <<wire, rd>>
    BY <2>1 DEF Reads
  <2>3. ~Sent(k, "end")' /\ ~Sent(k, "reject")'
    BY <1>0, <2>2 DEF Sent
  <2>4. CASE n = k
    <3>1. m \notin Leaving
      BY <1>0, <2>1, <2>4 DEF Reads
    <3>2. client'[k] \notin {"untrack", "end"}
      BY <1>a, <2>1, <2>4, <3>1 DEF Reads
    <3>3. \A x \in Leaving : ~Carries(out'[k], x)
      BY <1>0, <2>1, <2>4 DEF Reads
    <3>4. msg'[k] = m \/ msg'[k] = "none"
      BY <2>1, <2>4 DEF Reads
    <3> QED BY <1>0, <1>a, <2>2, <2>3, <3>1, <3>2, <3>3, <3>4, StayingNext
  <2>5. CASE n # k
    <3>1. out'[k] = out[k] /\ client'[k] = client[k] /\ msg'[k] = msg[k]
      BY <2>1, <2>5 DEF Reads
    <3> QED BY <1>0, <2>2, <2>3, <3>1, StayingNext
  <2> QED BY <2>4, <2>5
<1>3. ASSUME NEW n \in Prv!Site,
             \/ Prv!Track(n) \/ Prv!SendStart(n) \/ Prv!Bind(n)
             \/ Prv!Reply(n) \/ Prv!Untrack(n) \/ Prv!End(n)
      PROVE  Staying(k)'
  <2>1. GoesOn(n)
    BY <1>3, LoopEffects
  <2>2. out' = out /\ rd' = rd
    BY <2>1 DEF GoesOn
  <2>3. msg'[k] = msg[k] \/ msg'[k] = "none"
    BY <2>1 DEF GoesOn
  <2>4. client'[k] \notin {"untrack", "end"}
    <3>1. CASE n = k
      BY <1>0, <1>a, <2>1, <3>1 DEF GoesOn
    <3>2. CASE n # k
      BY <1>0, <2>1, <3>2 DEF GoesOn
    <3> QED BY <3>1, <3>2
  <2>5. \A x \in {"end", "reject"} : ~Sent(k, x)'
    <3>1. SUFFICES ASSUME NEW x \in {"end", "reject"}, Sent(k, x)' PROVE FALSE
      OBVIOUS
    <3>2. ~Sent(k, x)
      BY <1>0, <3>1
    <3>3. k = n /\ (Replies(n, x) \/ client[n] = "end")
      BY <1>3, <3>1, <3>2, LoopSent
    <3>4. Replies(n, x) => msg[n] = "reject"
      BY <3>1 DEF Replies
    <3> QED BY <1>0, <1>a, <3>3, <3>4
  <2> QED BY <1>0, <1>a, <2>2, <2>3, <2>4, <2>5, StayingNext
<1>4. ASSUME NEW s \in Prv!Way, Prv!PeerLoop(s) PROVE Staying(k)'
  <2>1. /\ UNCHANGED <<out, client, msg>>
        /\ ~Sent(k, "end")' /\ ~Sent(k, "reject")'
        /\ \A w \in Prv!Way : w # s => rd'[w] = rd[w]
    BY <1>0, <1>4, PeerEffects
  <2>2. ASSUME NEW c \in Pair PROVE rd'[<<k, c>>] \notin {"endUntrack", "endUnbind"}
    <3>1. <<k, c>> \in Prv!Way /\ <<k, c>>[1] = k
      BY TwoSites
    <3>2. CASE <<k, c>> # s
      BY <1>0, <2>1, <3>1, <3>2
    <3>3. CASE <<k, c>> = s
      <4>1. ~Prv!ReceiveEnd(s)
        <5>1. Prv!ReceiveEnd(s) => Sent(s[1], "end")
          BY ReceiveEffect DEF Prv!ReceiveEnd
        <5> QED BY <1>0, <3>1, <3>3, <5>1
      <4>2. rd[s] \notin {"endUntrack", "endUnbind"}
        BY <1>0, <3>3
      <4>3. ~Prv!EndUntrack(s) /\ ~Prv!EndUnbind(s)
        BY <4>2 DEF Prv!EndUntrack, Prv!EndUnbind, Prv!Step
      <4>4. rd'[s] \in {"startTrack", "startBind", "idle"} \/ rd'[s] = rd[s]
        BY <1>4, <4>1, <4>3 DEF Prv!PeerLoop, Prv!ReceiveStart, Prv!StartTrack, Prv!StartBind,
           Prv!ReceiveReply, Prv!Step, Prv!TypeOK
      <4> QED BY <3>3, <4>2, <4>4
    <3> QED BY <3>2, <3>3
  <2> QED BY <1>0, <2>1, <2>2, StayingNext
<1> QED BY <1>1, <1>2, <1>3, <1>4, StepKinds

\* No server drops the call or its binding.
CallKept(k) == (calls[k] # "none" => calls'[k] # "none") /\ (priv[k] => priv'[k])

\* While both phones stay, no step drops either.
LEMMA CallKeptStep ==
    ASSUME Prv!TypeOK, Working, Prv!Next, \A n \in Prv!Site : Staying(n), NEW k \in Prv!Site
    PROVE  CallKept(k)
<1>0. \A n \in Prv!Site :
         /\ \A m \in Leaving : ~Carries(out[n], m)
         /\ client[n] \notin {"untrack", "end"}
         /\ \A c \in Pair : rd[<<n, c>>] \notin {"endUntrack", "endUnbind"}
  BY DEF Staying
<1>t. calls \in [Prv!Site -> Prv!Origin] /\ priv \in [Prv!Site -> BOOLEAN]
  BY DEF Prv!TypeOK
<1>1. CASE \/ Prv!Dial
           \/ \E n \in Prv!Site :
                 Prv!Accept(n) \/ Prv!Answer(n) \/ Prv!Reject(n) \/ Prv!HangUp(n) \/ Prv!Lose(n)
  <2>0. PICK n \in Prv!Site : \E m, to : Signalled(n, m, to)
    BY <1>1, SignalKinds
  <2>1. PICK m, to : Signalled(n, m, to)
    BY <2>0
  <2> QED BY <2>1 DEF Signalled, CallKept
<1>2. ASSUME NEW n \in Prv!Site, Prv!Lookup(n)
      PROVE  CallKept(k)
  <2>1. PICK m : Reads(n, m)
    BY <1>2, LookupEffect
  <2>2. m # "lost"
    BY <1>0, <2>1 DEF Reads, Leaving
  <2>3. calls' = calls /\ priv' = priv
    BY <2>1, <2>2 DEF Reads
  <2> QED BY <2>3 DEF CallKept
<1>3. ASSUME NEW n \in Prv!Site,
             \/ Prv!Track(n) \/ Prv!SendStart(n) \/ Prv!Bind(n)
             \/ Prv!Reply(n) \/ Prv!Untrack(n) \/ Prv!End(n)
      PROVE  CallKept(k)
  <2>1. ~Prv!Untrack(n) /\ ~Prv!End(n)
    BY <1>0 DEF Prv!Untrack, Prv!End
  <2>2. CASE Prv!Track(n)
    <3>1. PICK o : o = Prv!Entered(n)
      OBVIOUS
    <3>2. o # "none" /\ calls' = [calls EXCEPT ![n] = o] /\ priv' = priv
      BY <2>2, <3>1 DEF Prv!Track, Prv!Entered
    <3> QED BY <1>t, <3>2 DEF CallKept
  <2>3. CASE Prv!SendStart(n) \/ Prv!Reply(n)
    BY <2>3 DEF Prv!SendStart, Prv!Reply, CallKept
  <2>4. CASE Prv!Bind(n)
    BY <1>t, <2>4 DEF Prv!Bind, CallKept
  <2> QED BY <1>3, <2>1, <2>2, <2>3, <2>4
<1>4. ASSUME NEW s \in Prv!Way, Prv!PeerLoop(s)
      PROVE  CallKept(k)
  <2>1. rd[s] \notin {"endUntrack", "endUnbind"}
    BY <1>0, StreamNames
  <2>2. ~Prv!EndUntrack(s) /\ ~Prv!EndUnbind(s)
    BY <2>1 DEF Prv!EndUntrack, Prv!EndUnbind, Prv!Step
  <2>3. CASE Prv!StartTrack(s)
    BY <1>t, <2>3 DEF Prv!StartTrack, CallKept
  <2>4. CASE Prv!StartBind(s)
    BY <1>t, <2>4 DEF Prv!StartBind, CallKept
  <2>5. CASE ~Prv!StartTrack(s) /\ ~Prv!StartBind(s)
    <3>1. UNCHANGED <<calls, priv>>
      BY <1>4, <2>2, <2>5 DEF Prv!PeerLoop, Prv!ReceiveStart, Prv!ReceiveEnd, Prv!ReceiveReply
    <3> QED BY <3>1 DEF CallKept
  <2> QED BY <2>3, <2>4, <2>5
<1> QED BY <1>1, <1>2, <1>3, <1>4, StepKinds

LEMMA HeldNext ==
    ASSUME phone'["A"] # "idle" =>
              \/ Dialling' \/ client'["A"] = "track"
              \/ calls'["A"] # "none" /\ (client'["A"] \in {"start", "bind"} \/ priv'["A"]),
           Answering' => calls'["B"] # "none",
           Sent("B", "connect")' \/ phone'["A"] = "through" => priv'["B"] /\ calls'["B"] # "none"
    PROVE  Held'
BY DEF Held

LEMMA AnsweringNext ==
    Answering' <=> \/ client'["B"] \in {"start", "bind"}
                   \/ client'["B"] = "reply" /\ msg'["B"] \in Prv!Connects
BY DEF Answering

LEMMA HeldStep ==
    ASSUME Prv!CallConstants, Prv!TypeOK, Working, Roles, OneStart, Held, Prv!Next,
           \A n \in Prv!Site : Staying(n), ~Gone("A"), ~Gone("B"), phone'["A"] # "rungBack"
    PROVE  Held'
<1>0. /\ phone["A"] # "idle" =>
            \/ Dialling \/ client["A"] = "track"
            \/ calls["A"] # "none" /\ (client["A"] \in {"start", "bind"} \/ priv["A"])
      /\ Answering => calls["B"] # "none"
      /\ Sent("B", "connect") \/ phone["A"] = "through" => priv["B"] /\ calls["B"] # "none"
  BY DEF Held
<1>k. \A n \in Prv!Site : (calls[n] # "none" => calls'[n] # "none") /\ (priv[n] => priv'[n])
  BY CallKeptStep DEF CallKept
<1>1. CASE \/ Prv!Dial
           \/ \E n \in Prv!Site :
                 Prv!Accept(n) \/ Prv!Answer(n) \/ Prv!Reject(n) \/ Prv!HangUp(n) \/ Prv!Lose(n)
  <2>0. PICK n \in Prv!Site : \E m, to : Signalled(n, m, to)
    BY <1>1, SignalKinds
  <2>1. PICK m, to : Signalled(n, m, to)
    BY <2>0
  <2>2. UNCHANGED <<client, msg, calls, priv, wire>>
    BY <2>1 DEF Signalled
  <2>3. Sent("B", "connect")' => Sent("B", "connect")
    BY <2>2 DEF Sent
  <2>4. (Dialling => Dialling') /\ (n = "A" /\ m = "setup" => Dialling')
    BY <2>1, StagesNext, TwoSites DEF Signalled, Dialling
  <2>5. phone["A"] = "idle" /\ phone'["A"] # "idle" => n = "A" /\ m = "setup"
    BY <2>1, TwoSites DEF Signalled
  <2>6. phone'["A"] = "through" => phone["A"] = "through"
    <3>1. phone["A"] \notin {"ringing", "accepted"}
      BY DEF Roles
    <3> QED BY <2>1, <3>1, TwoSites DEF Signalled, Prv!Finished
  <2>7. Answering' <=> Answering
    BY <2>2, AnsweringNext DEF Answering
  <2> QED BY <1>0, <2>2, <2>3, <2>4, <2>5, <2>6, <2>7, HeldNext
<1>2. ASSUME NEW n \in Prv!Site, Prv!Lookup(n) PROVE Held'
  <2>1. PICK m : Reads(n, m)
    BY <1>2, LookupEffect
  <2>2. UNCHANGED <<phone, priv, wire>>
    BY <2>1 DEF Reads
  <2>3. Sent("B", "connect")' => Sent("B", "connect")
    BY <2>2 DEF Sent
  <2>4. Answering' => calls'["B"] # "none"
    <3>1. CASE n = "B"
      <4>1. client'["B"] \notin {"start", "bind"} /\ (client'["B"] = "reply" => msg'["B"] \in {"accept", "reject"})
        BY <2>1, <3>1 DEF Reads
      <4> QED BY <4>1, AnsweringNext DEF Prv!Connects
    <3>2. CASE n # "B"
      <4>1. client'["B"] = client["B"] /\ msg'["B"] = msg["B"] /\ calls'["B"] = calls["B"]
        BY <2>1, <3>2, TwoSites DEF Reads
      <4> QED BY <1>0, <4>1, AnsweringNext DEF Answering
    <3> QED BY <3>1, <3>2
  <2>5. phone'["A"] # "idle" =>
           \/ Dialling' \/ client'["A"] = "track"
           \/ calls'["A"] # "none" /\ (client'["A"] \in {"start", "bind"} \/ priv'["A"])
    <3>1. CASE n = "A"
      <4>1. Dialling => m = "setup"
        <5>1. Dialling => out["A"][1] = "setup"
          BY DEF Dialling, Carries, OneStart
        <5> QED BY <2>1, <3>1, <5>1 DEF Reads
      <4>2. m = "setup" => client'["A"] = "track"
        BY <2>1, <3>1 DEF Reads, Opening
      <4>3. client["A"] = "idle"
        BY <2>1, <3>1 DEF Reads
      <4> QED BY <1>0, <1>k, <2>2, <4>1, <4>2, <4>3, TwoSites
    <3>2. CASE n # "A"
      <4>1. out'["A"] = out["A"] /\ client'["A"] = client["A"]
        BY <2>1, <3>2, TwoSites DEF Reads
      <4>2. Dialling' <=> Dialling
        BY <4>1, StagesNext DEF Dialling
      <4> QED BY <1>0, <1>k, <2>2, <4>1, <4>2, TwoSites
    <3> QED BY <3>1, <3>2
  <2> QED BY <1>0, <1>k, <2>2, <2>3, <2>4, <2>5, TwoSites, HeldNext
<1>3. ASSUME NEW n \in Prv!Site,
             \/ Prv!Track(n) \/ Prv!SendStart(n) \/ Prv!Bind(n)
             \/ Prv!Reply(n) \/ Prv!Untrack(n) \/ Prv!End(n)
      PROVE  Held'
  <2>1. GoesOn(n)
    BY <1>3, LoopEffects
  <2>2. phone' = phone /\ out' = out
    BY <2>1 DEF GoesOn
  <2>3. Dialling' <=> Dialling
    BY <2>2, StagesNext DEF Dialling
  <2>4. n # "A" => client'["A"] = client["A"]
    BY <2>1, TwoSites DEF GoesOn
  <2>5. n # "B" => client'["B"] = client["B"] /\ msg'["B"] = msg["B"]
    BY <2>1, TwoSites DEF GoesOn
  <2>6. Prv!Track(n) => calls'[n] # "none"
    <3>1. SUFFICES ASSUME Prv!Track(n) PROVE calls'[n] # "none"
      OBVIOUS
    <3>2. PICK o : o = Prv!Entered(n)
      OBVIOUS
    <3>3. o # "none" /\ calls' = [calls EXCEPT ![n] = o] /\ calls \in [Prv!Site -> Prv!Origin]
      BY <3>1, <3>2 DEF Prv!Track, Prv!Entered, Prv!TypeOK
    <3> QED BY <3>3
  \* At the caller: the setup is tracked, the start sent, the call bound.
  <2>7. n = "A" => ~Prv!Reply("A") /\ ~Prv!Untrack("A") /\ ~Prv!End("A")
    <3>1. client["A"] \notin {"untrack", "end"}
      BY TwoSites DEF Staying
    <3>2. client["A"] # "reply"
      <4>1. client["A"] = "reply" => msg["A"] \in Answers
        BY TwoSites DEF Working
      <4> QED BY <4>1 DEF Roles
    <3> QED BY <3>1, <3>2 DEF Prv!Reply, Prv!Untrack, Prv!End
  <2>8. n = "A" /\ Prv!Track("A") => client'["A"] = "start"
    <3>1. SUFFICES ASSUME Prv!Track("A") PROVE client'["A"] = "start"
      OBVIOUS
    <3>2. client["A"] = "track"
      BY <3>1 DEF Prv!Track
    <3>3. msg["A"] = "setup"
      BY <3>2 DEF OneStart, Dialled
    <3>4. Prv!DestIsRemote("A")
      BY <3>3 DEF Prv!DestIsRemote, Prv!Entered, Prv!Connects
    <3> QED BY <3>1, <3>4, TwoSites DEF Prv!Track, Prv!Goto, Prv!TypeOK
  <2>9. n = "A" /\ Prv!SendStart("A") => client["A"] = "start" /\ client'["A"] = "bind"
    BY TwoSites DEF Prv!SendStart, Prv!Goto, Prv!TypeOK
  <2>10. n = "A" /\ Prv!Bind("A") => client["A"] = "bind" /\ priv'["A"]
    BY TwoSites DEF Prv!Bind, Prv!TypeOK
  <2>11. phone'["A"] # "idle" =>
           \/ Dialling' \/ client'["A"] = "track"
           \/ calls'["A"] # "none" /\ (client'["A"] \in {"start", "bind"} \/ priv'["A"])
    <3>1. CASE n = "A"
      <4>1. Dialling => client["A"] = "idle"
        BY DEF OneStart
      <4>2. client["A"] # "idle"
        BY <2>1, <3>1 DEF GoesOn
      <4>3. CASE Prv!Track("A")
        BY <2>6, <2>8, <3>1, <4>3
      <4>4. CASE Prv!SendStart("A")
        BY <1>0, <1>k, <2>2, <2>9, <3>1, <4>1, <4>2, <4>4, TwoSites
      <4>5. CASE Prv!Bind("A")
        BY <1>0, <1>k, <2>2, <2>10, <3>1, <4>1, <4>2, <4>5, TwoSites
      <4> QED BY <1>3, <2>7, <3>1, <4>3, <4>4, <4>5
    <3>2. CASE n # "A"
      BY <1>0, <1>k, <2>2, <2>3, <2>4, <3>2, TwoSites
    <3> QED BY <3>1, <3>2
  \* At the called radio's server: a connect request finds the call or tracks it anew.
  <2>12. Answering' => calls'["B"] # "none"
    <3>1. CASE n = "B"
      <4>1. CASE client["B"] = "track"
        <5>1. Prv!Track("B")
          BY <1>3, <3>1, <4>1 DEF Prv!SendStart, Prv!Bind, Prv!Reply, Prv!Untrack, Prv!End
        <5> QED BY <2>6, <3>1, <5>1
      <4>2. CASE client["B"] # "track" /\ Answering'
        <5>1. client["B"] \in {"start", "bind"}
          BY <2>1, <3>1, <4>2, AnsweringNext DEF GoesOn
        <5>2. calls["B"] # "none"
          BY <1>0, <5>1 DEF Answering
        <5> QED BY <1>k, <5>2, TwoSites
      <4> QED BY <4>1, <4>2
    <3>2. CASE n # "B"
      <4>1. Answering' <=> Answering
        BY <2>5, <3>2, AnsweringNext DEF Answering
      <4> QED BY <1>0, <1>k, <4>1, TwoSites
    <3> QED BY <3>1, <3>2
  <2>13. Sent("B", "connect")' => priv'["B"] /\ calls'["B"] # "none"
    <3>1. SUFFICES ASSUME Sent("B", "connect")', ~Sent("B", "connect")
                   PROVE  priv["B"] /\ calls["B"] # "none"
      BY <1>0, <1>k, TwoSites
    <3>2. n = "B" /\ Replies(n, "connect") /\ client[n] = "reply" /\ priv[n]
      BY <1>3, <3>1, LoopSent, TwoSites
    <3>3. Answering
      BY <3>2 DEF Answering, Replies
    <3> QED BY <1>0, <3>2, <3>3
  <2>14. phone'["A"] = "through" => priv'["B"] /\ calls'["B"] # "none"
    BY <1>0, <1>k, <2>2, TwoSites
  <2> QED BY <2>11, <2>12, <2>13, <2>14, HeldNext
<1>4. ASSUME NEW s \in Prv!Way, Prv!PeerLoop(s) PROVE Held'
  <2>1. UNCHANGED <<out, client, msg>> /\ (Sent("B", "connect")' => Sent("B", "connect"))
    BY <1>4, PeerEffects, TwoSites
  <2>2. Dialling' <=> Dialling
    BY <2>1, StagesNext DEF Dialling
  <2>3. phone'["A"] # "idle" => phone["A"] # "idle"
    BY <1>4, PhoneEffects, StreamNames, TwoSites DEF Prv!Active
  <2>4. phone'["A"] = "through" => phone["A"] = "through" \/ Sent("B", "connect")
    <3>1. Prv!Receive(s, "connect") => Sent(s[1], "connect")
      BY ReceiveEffect
    <3> QED BY <1>4, <3>1, PhoneEffects, StreamNames, TwoSites
  <2>5. Answering' <=> Answering
    BY <2>1, AnsweringNext DEF Answering
  <2> QED BY <1>0, <1>k, <2>1, <2>2, <2>3, <2>4, <2>5, TwoSites, HeldNext
<1> QED BY <1>1, <1>2, <1>3, <1>4, StepKinds

LEMMA CallStutters ==
    ASSUME CallInv, UNCHANGED <<phone, out, client, msg, found, calls, priv, wire, rd>>
    PROVE  CallInv'
<1>1. Prv!TypeOK' /\ Working'
  BY DEF CallInv, Prv!TypeOK, Working
<1>2. Roles'
  BY DEF CallInv, Roles, Sent, Carries
<1>3. OneStart'
  <2>1. OneAtMost'
    BY OneSame DEF CallInv, OneStart
  <2>2. (Dialling' <=> Dialling) /\ (Dialled' <=> Dialled) /\ (Sent("A", "start")' <=> Sent("A", "start"))
    BY DEF Dialling, Dialled, Sent, Carries
  <2> QED BY <2>1, <2>2, OneStartNext DEF CallInv, OneStart
<1>4. ASSUME NEW n \in Prv!Site, ~Gone(n)' PROVE Staying(n)'
  BY <1>4 DEF CallInv, Gone, Staying, Sent, Carries
<1>5. Held'
  <2>1. CASE Gone("A") \/ Gone("B")
    BY <2>1 DEF Held, Gone
  <2>2. CASE ~Gone("A") /\ ~Gone("B")
    <3>1. /\ (Dialling' <=> Dialling) /\ (Sent("B", "connect")' <=> Sent("B", "connect"))
          /\ (Answering' <=> Answering)
      BY DEF Dialling, Sent, Carries, Answering
    <3> QED BY <2>2, <3>1, HeldNext DEF CallInv, Held
  <2> QED BY <2>1, <2>2
<1> QED BY <1>1, <1>2, <1>3, <1>4, <1>5 DEF CallInv

LEMMA CallStarts ==
    ASSUME Prv!Init
    PROVE  CallInv
<1>1. Prv!TypeOK
  BY DEF Prv!Init, Prv!TypeOK, Prv!Origin
<1>2. /\ \A n \in Prv!Site : /\ phone[n] = "idle" /\ out[n] = <<>> /\ client[n] = "idle" /\ msg[n] = "none"
      /\ \A s \in Prv!Way : wire[s] = <<>> /\ rd[s] = "idle"
  BY DEF Prv!Init
<1>3. \A m : ~Carries(<<>>, m)
  BY DEF Carries
<1>4. \A n \in Prv!Site : \A x : ~Sent(n, x)
  <2>1. SUFFICES ASSUME NEW n \in Prv!Site, NEW x, NEW c \in Pair, Carries(wire[<<n, c>>], x)
                 PROVE  FALSE
    BY DEF Sent
  <2>2. wire[<<n, c>>] = <<>>
    BY <1>2, TwoSites
  <2> QED BY <1>3, <2>1, <2>2
<1>5. Working
  BY <1>2 DEF Working
<1>6. Roles
  BY <1>2, <1>3, <1>4, TwoSites DEF Roles, Answers
<1>7. OneStart
  <2>1. OneAtMost
    BY <1>2, TwoSites DEF OneAtMost
  <2>2. ~Dialling /\ ~Dialled
    BY <1>2, <1>3, TwoSites DEF Dialling, Dialled
  <2>3. \A i \in 1 .. Len(out["A"]) : out["A"][i] = "setup" => i = 1
    BY <1>2, TwoSites
  <2> QED BY <1>2, <1>4, <2>1, <2>2, <2>3, TwoSites DEF OneStart
<1>8. \A n \in Prv!Site : Staying(n)
  <2> TAKE n \in Prv!Site
  <2>1. "none" \notin Leaving
    BY DEF Leaving
  <2>2. \A m \in Leaving : ~Carries(out[n], m) /\ msg[n] # m
    BY <1>2, <1>3, <2>1
  <2> QED BY <1>2, <1>4, <2>2, TwoSites DEF Staying
<1>9. Held
  BY <1>2, <1>4, TwoSites DEF Held, Answering
<1> QED BY <1>1, <1>5, <1>6, <1>7, <1>8, <1>9 DEF CallInv

LEMMA CallInvariant ==
    ASSUME Prv!CallConstants
    PROVE  Prv!Spec => []CallInv
<1>1. Prv!Init => CallInv
  BY CallStarts
<1>2. CallInv /\ [Prv!Next]_Prv!vars => CallInv'
  <2>1. CASE UNCHANGED Prv!vars
    BY <2>1, CallStutters DEF Prv!vars
  <2>2. ASSUME CallInv, Prv!Next PROVE CallInv'
    <3>0. /\ Prv!TypeOK /\ Working /\ Roles /\ OneStart /\ Held
          /\ \A n \in Prv!Site : ~Gone(n) => Staying(n)
      BY <2>2 DEF CallInv
    <3>1. Prv!TypeOK' /\ Working'
      BY <2>2, <3>0, PrivateTyped
    <3>2. Roles'
      BY <2>2, <3>0, RolesStep
    <3>3. OneStart'
      BY <2>2, <3>0, OneStartStep
    <3>4. \A n \in Prv!Site : ~Gone(n)' => ~Gone(n)
      BY <2>2, <3>0, GoneStep
    <3>5. \A n \in Prv!Site : ~Gone(n)' => Staying(n)'
      BY <2>2, <3>0, <3>4, StayingStep
    <3>6. Held'
      <4>1. CASE Gone("A")' \/ Gone("B")'
        BY <4>1 DEF Held
      <4>2. CASE ~Gone("A")' /\ ~Gone("B")'
        <5>1. ~Gone("A") /\ ~Gone("B") /\ \A n \in Prv!Site : Staying(n)
          BY <3>0, <3>4, <4>2, TwoSites
        <5>2. phone'["A"] # "rungBack"
          BY <4>2 DEF Gone, Ended
        <5> QED BY <2>2, <3>0, <5>1, <5>2, HeldStep
      <4> QED BY <4>1, <4>2
    <3> QED BY <3>1, <3>2, <3>3, <3>5, <3>6 DEF CallInv
  <2> QED BY <2>1, <2>2
<1> QED BY <1>1, <1>2, PTL DEF Prv!Spec

\* Once every message is read and both radios talk, both servers have the call tracked
\* and bound (RouteCallStartToPeerForISSI, handleCallStart), whatever the number of
\* connections, whether or not a base station answers at once and whichever route its
\* answer names: voice and the end of the call go to the one peer.
THEOREM TalkingAlwaysBound ==
    ASSUME Prv!CallConstants
    PROVE  Prv!Spec => []TalkingBound
<1>1. CallInv => TalkingBound
  <2>1. SUFFICES ASSUME CallInv, Prv!Settled, phone["A"] = "through", phone["B"] = "talking"
                 PROVE  \A n \in Prv!Site : priv[n] /\ calls[n] # "none"
    BY DEF TalkingBound, CallInv, Prv!TalkingBound
  <2>2. ~Gone("A") /\ ~Gone("B")
    BY <2>1 DEF Gone, Ended, Prv!Finished
  <2>3. out["A"] = <<>> /\ client["A"] = "idle" /\ phone["A"] = "through"
    BY <2>1, TwoSites DEF Prv!Settled
  <2>4. ~Dialling
    BY <2>3 DEF Dialling, Carries
  <2>5. calls["A"] # "none" /\ priv["A"] /\ calls["B"] # "none" /\ priv["B"]
    BY <2>1, <2>2, <2>3, <2>4 DEF CallInv, Held
  <2> QED BY <2>5, TwoSites
<1>2. Prv!Spec => []CallInv
  BY CallInvariant
<1> QED BY <1>1, <1>2, PTL
=============================================================================
