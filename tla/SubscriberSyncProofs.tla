------------------------ MODULE SubscriberSyncProofs ------------------------
(***************************************************************************)
(* Proofs about SubscriberSync, for any mesh, any base stations and any    *)
(* number of messages and lost connections.                                *)
(***************************************************************************)
EXTENDS SubscriberSync, TLAPS

Message == Update \cup Sync

(* Facts about queues.                                                     *)

\* What Append puts in a sequence is what was there, or the new element.
LEMMA AppendRange ==
    ASSUME NEW q \in Seq(Message), NEW m \in Message, NEW x \in Range(Append(q, m))
    PROVE  x \in Range(q) \/ x = m
<1>1. PICK i \in DOMAIN Append(q, m) : x = Append(q, m)[i]
  BY DEF Range
<1>2. CASE i = Len(q) + 1
  BY <1>1, <1>2
<1>3. CASE i # Len(q) + 1
  <2>1. i \in DOMAIN q /\ x = q[i]
    BY <1>1, <1>3
  <2> QED BY <2>1 DEF Range
<1> QED BY <1>2, <1>3

\* Taking the head of a queue brings no new message in.
LEMMA TailRange ==
    ASSUME NEW q \in Seq(Message), q # <<>>
    PROVE  /\ Tail(q) \in Seq(Message)
           /\ Head(q) \in Message
           /\ Head(q) \in Range(q)
           /\ \A x \in Range(Tail(q)) : x \in Range(q)
<1>1. ASSUME NEW x \in Range(Tail(q)) PROVE x \in Range(q)
  <2>1. PICK i \in DOMAIN Tail(q) : x = Tail(q)[i]
    BY DEF Range
  <2>2. i + 1 \in DOMAIN q /\ Tail(q)[i] = q[i + 1]
    BY <2>1
  <2> QED BY <2>1, <2>2 DEF Range
<1>2. Tail(q) \in Seq(Message) /\ Head(q) \in Message /\ Head(q) \in Range(q)
  BY DEF Range
<1> QED BY <1>1, <1>2

\* A link joins two servers and exists in both directions.
LEMMA LinkFacts ==
    ASSUME NEW l \in Link
    PROVE  /\ l[1] \in Server /\ l[2] \in Server /\ l[1] # l[2]
           /\ <<l[2], l[1]>> \in Link
           /\ l = <<l[1], l[2]>>
BY SyncConstants

\* The messages of the program are messages.
LEMMA MessageTypes ==
    /\ \A n \in Server, id \in MsgId, i \in ISSI, G \in Groups :
          [kind |-> "update", id |-> id, origin |-> n, issi |-> i, groups |-> G,
           path |-> <<n>>] \in Message
    /\ \A m \in Message, n \in Server : m.kind = "update" => PrepareRelay(m, n) \in Message
    /\ \A f \in [ISSI -> Groups \cup {None}] : [kind |-> "sync", subs |-> f] \in Message
BY DEF Message, Update, Sync, PrepareRelay

\* Sending keeps every queue a sequence of messages.
LEMMA SendOnType ==
    ASSUME TypeOK, NEW L, NEW m \in Message
    PROVE  SendOn(L, m) \in [Link -> Seq(Message)]
BY DEF TypeOK, SendOn, Message

-----------------------------------------------------------------------------
(* Type correctness                                                        *)

\* Every state is well typed, and a table has groups only for radios it has.
THEOREM SyncTypeCorrect == Spec => []TypeOK
<1>1. Init => TypeOK
  <2> SUFFICES ASSUME Init PROVE TypeOK
    OBVIOUS
  <2>1. {} \in Groups
    BY DEF Groups
  <2>2. msgs \in 0..MaxMsgs /\ breaks \in 0..MaxBreaks
    BY SyncConstants DEF Init
  <2>3. net \in [Link -> Seq(Update \cup Sync)]
    BY DEF Init
  <2>4. issis \in [Link -> [ISSI -> Server \cup {None}]] /\ aff \in [Link -> [ISSI -> Groups]]
    BY <2>1 DEF Init
  <2> QED BY <2>2, <2>3, <2>4 DEF Init, TypeOK
<1>2. TypeOK /\ [Next]_vars => TypeOK'
  <2> SUFFICES ASSUME TypeOK, [Next]_vars PROVE TypeOK'
    OBVIOUS
  <2>0. ASSUME NEW n \in Server, NEW i \in ISSI, NEW G \in Groups, BroadcastSubscriber(n, i, G)
        PROVE net' \in [Link -> Seq(Message)] /\ seen' \in [Server -> SUBSET MsgId]
    <3>1. PICK id \in FreeId :
             /\ net' = SendOn({l \in up : l[1] = n},
                         [kind |-> "update", id |-> id, origin |-> n, issi |-> i,
                          groups |-> G, path |-> <<n>>])
             /\ seen' = [x \in Server |-> IF x = n THEN seen[x] \cup {id} ELSE seen[x] \ {id}]
      BY <2>0 DEF BroadcastSubscriber
    <3>2. id \in MsgId
      BY DEF FreeId
    <3> QED BY <3>1, <3>2, SendOnType, MessageTypes DEF TypeOK
  <2>1. ASSUME NEW c \in Client, NEW k \in Kind, NEW i \in ISSI, NEW G \in Groups,
               OnMessage(c, k, i, G)
        PROVE TypeOK'
    <3>1. Home[c] \in Server
      BY SyncConstants
    <3>2. ApplySubscriber(subs[c][i], k, G) \in Groups \cup {None}
      BY DEF TypeOK, ApplySubscriber, Kind, Groups
    <3>3. subs' \in [Client -> [ISSI -> Groups \cup {None}]]
      BY <2>1, <3>2 DEF OnMessage, TypeOK
    <3> QED BY <2>0, <2>1, <3>1, <3>3, SyncConstants DEF OnMessage, TypeOK, Message
  <2>2. ASSUME NEW c \in Client, OnDisconnect(c) PROVE TypeOK'
    BY <2>2 DEF OnDisconnect, TypeOK
  <2>3. ASSUME NEW n \in Server, SyncSnapshot(n) PROVE TypeOK'
    BY <2>3 DEF SyncSnapshot, TypeOK
  <2>4. ASSUME NEW n \in Server, SyncSend(n) PROVE TypeOK'
    <3>1. PICK e \in round[n] :
             /\ BroadcastSubscriber(n, e[1], e[2])
             /\ round' = [round EXCEPT ![n] = @ \ {e}]
             /\ UNCHANGED <<subs, up, issis, aff, told, msgs, breaks>>
      BY <2>4 DEF SyncSend
    <3>2. e[1] \in ISSI /\ e[2] \in Groups
      BY DEF TypeOK
    <3> QED BY <2>0, <3>1, <3>2 DEF TypeOK, Message
  <2>5. ASSUME NEW l \in Link, HandleUpdate(l) PROVE TypeOK'
    <3> DEFINE m == Head(net[l])
               t == <<l[2], l[1]>>
               rest == [net EXCEPT ![l] = Tail(@)]
    <3>1. net[l] \in Seq(Message) /\ net[l] # <<>> /\ m.kind = "update"
      BY <2>5 DEF HandleUpdate, TypeOK, Message
    <3>2. Tail(net[l]) \in Seq(Message) /\ m \in Message
      BY <3>1, TailRange
    <3>3. rest \in [Link -> Seq(Message)]
      BY <3>2 DEF TypeOK, Message
    <3>4. m.id \in MsgId /\ m.issi \in ISSI /\ m.origin \in Server /\ m.groups \in Groups
      BY <3>1, <3>2 DEF Message, Update, Sync
    <3>5. t \in Link /\ l[2] \in Server
      BY LinkFacts
    <3>6. CASE ShouldProcess(m, l[2])
      <4>1. /\ seen' = [seen EXCEPT ![l[2]] = @ \cup {m.id}]
            /\ issis' = RegisterISSI(t, m.issi, m.origin)
            /\ aff' = Affiliate(t, m.issi, m.groups)
            /\ net' = [k \in Link |-> IF k \in RelayLinks(m, l[2], l[1])
                                      THEN Append(rest[k], PrepareRelay(m, l[2]))
                                      ELSE rest[k]]
            /\ UNCHANGED <<subs, round, up, told, msgs, breaks>>
        BY <2>5, <3>6 DEF HandleUpdate
      <4>2. PrepareRelay(m, l[2]) \in Message
        BY <3>1, <3>2, <3>5, MessageTypes
      <4>3. net' \in [Link -> Seq(Message)]
        BY <3>3, <4>1, <4>2
      <4>4. seen' \in [Server -> SUBSET MsgId]
        BY <3>4, <3>5, <4>1 DEF TypeOK
      <4>5. /\ issis' \in [Link -> [ISSI -> Server \cup {None}]]
            /\ aff' \in [Link -> [ISSI -> Groups]]
        BY <3>4, <3>5, <4>1 DEF TypeOK, RegisterISSI, Affiliate
      <4>6. ASSUME NEW k \in Link, NEW i \in ISSI, aff'[k][i] # {} PROVE issis'[k][i] # None
        BY <3>4, <3>5, <4>1, <4>6, SyncConstants DEF TypeOK, RegisterISSI, Affiliate
      <4> QED BY <4>1, <4>3, <4>4, <4>5, <4>6 DEF TypeOK, Message
    <3>7. CASE ~ShouldProcess(m, l[2])
      BY <2>5, <3>3, <3>7 DEF HandleUpdate, TypeOK, Message
    <3> QED BY <3>6, <3>7
  <2>6. ASSUME NEW l \in Link, HandleSync(l) PROVE TypeOK'
    <3> DEFINE m == Head(net[l])
               t == <<l[2], l[1]>>
    <3>1. net[l] \in Seq(Message) /\ net[l] # <<>> /\ m.kind = "sync"
      BY <2>6 DEF HandleSync, TypeOK, Message
    <3>2. Tail(net[l]) \in Seq(Message) /\ m \in Message
      BY <3>1, TailRange
    <3>3. m.subs \in [ISSI -> Groups \cup {None}]
      BY <3>1, <3>2 DEF Message, Update, Sync
    <3>4. t \in Link /\ l[1] \in Server /\ l[1] # None
      BY LinkFacts, SyncConstants
    <3>5. net' \in [Link -> Seq(Message)]
      BY <2>6, <3>2 DEF HandleSync, TypeOK, Message
    <3>6. /\ issis' \in [Link -> [ISSI -> Server \cup {None}]]
          /\ aff' \in [Link -> [ISSI -> Groups]]
      BY <2>6, <3>3, <3>4 DEF HandleSync, TypeOK
    <3>7. ASSUME NEW k \in Link, NEW i \in ISSI, aff'[k][i] # {} PROVE issis'[k][i] # None
      BY <2>6, <3>3, <3>4, <3>7 DEF HandleSync, TypeOK
    <3> QED BY <2>6, <3>5, <3>6, <3>7 DEF HandleSync, TypeOK, Message
  <2>7. ASSUME NEW l \in Link, Break(l) PROVE TypeOK'
    BY <2>7, SyncConstants DEF Break, TypeOK
  <2>8. ASSUME NEW l \in Link, Return(l) PROVE TypeOK'
    <3> DEFINE r == <<l[2], l[1]>>
    <3>1. PICK lost \in SUBSET Ends(l) : issis' = CleanupISSIs(lost) /\ aff' = CleanupAff(lost)
      BY <2>8 DEF Return
    <3>2. PICK s \in SendFullSync(l), t \in SendFullSync(r) : net' = [net EXCEPT ![l] = s, ![r] = t]
      BY <2>8 DEF Return
    <3>3. s \in Seq(Message) /\ t \in Seq(Message)
      <4>1. ASSUME NEW k \in Link, NEW q \in SendFullSync(k) PROVE q \in Seq(Message)
        <5>1. PICK f \in LocalSubscribers(k[1]) : q = <<[kind |-> "sync", subs |-> f]>>
          BY <4>1 DEF SendFullSync
        <5>2. [kind |-> "sync", subs |-> f] \in Message
          BY MessageTypes DEF LocalSubscribers
        <5> QED BY <5>1, <5>2
      <4>2. r \in Link
        BY LinkFacts
      <4> QED BY <4>1, <4>2
    <3>4. net' \in [Link -> Seq(Message)]
      BY <3>2, <3>3 DEF TypeOK, Message
    <3>5. /\ issis' \in [Link -> [ISSI -> Server \cup {None}]]
          /\ aff' \in [Link -> [ISSI -> Groups]]
      BY <3>1 DEF TypeOK, CleanupISSIs, CleanupAff, Groups
    <3>6. ASSUME NEW k \in Link, NEW i \in ISSI, aff'[k][i] # {} PROVE issis'[k][i] # None
      BY <3>1, <3>6 DEF TypeOK, CleanupISSIs, CleanupAff
    <3>7. up' \subseteq Link
      BY <2>8 DEF Return, Ends, TypeOK
    <3> QED BY <2>8, <3>4, <3>5, <3>6, <3>7 DEF Return, TypeOK, Message
  <2>9. CASE UNCHANGED vars
    BY <2>9 DEF vars, TypeOK
  <2> QED BY <2>1, <2>2, <2>3, <2>4, <2>5, <2>6, <2>7, <2>8, <2>9 DEF Next
<1> QED BY <1>1, <1>2, PTL DEF Spec

-----------------------------------------------------------------------------
(* Tables attribute radios to servers they were reported at                *)

\* What a message on link l claims about radios was reported.
ClaimTrue(m, l) ==
    /\ m.kind = "update" => <<m.issi, m.origin>> \in told
    /\ m.kind = "sync" => \A i \in ISSI : m.subs[i] # None => <<i, l[1]>> \in told

\* What every message under way claims was reported.
ClaimsTrue == \A l \in Link : \A m \in Range(net[l]) : ClaimTrue(m, l)

\* What base stations hold, and what rounds have still to send, was reported.
HeldTrue ==
    /\ \A c \in Client, i \in ISSI : subs[c][i] # None => <<i, Home[c]>> \in told
    /\ \A n \in Server : \A e \in round[n] : <<e[1], n>> \in told

\* The announcement of a server about a reported radio keeps all claims true.
LEMMA AnnouncedTrue ==
    ASSUME TypeOK, ClaimsTrue, told \subseteq told',
           NEW n \in Server, NEW i \in ISSI, NEW G \in Groups,
           BroadcastSubscriber(n, i, G), <<i, n>> \in told'
    PROVE  ClaimsTrue'
<1> SUFFICES ASSUME NEW l \in Link, NEW m \in Range(net'[l]) PROVE ClaimTrue(m, l)'
  BY DEF ClaimsTrue
<1>1. PICK id \in FreeId :
         net' = SendOn({k \in up : k[1] = n},
                       [kind |-> "update", id |-> id, origin |-> n, issi |-> i,
                        groups |-> G, path |-> <<n>>])
  BY DEF BroadcastSubscriber
<1> DEFINE u == [kind |-> "update", id |-> id, origin |-> n, issi |-> i,
                 groups |-> G, path |-> <<n>>]
<1>2. u \in Message /\ net[l] \in Seq(Message)
  BY MessageTypes DEF FreeId, TypeOK, Message
<1>3. net'[l] = net[l] \/ net'[l] = Append(net[l], u)
  BY <1>1 DEF SendOn
<1>4. m \in Range(net[l]) \/ m = u
  <2> HIDE DEF u
  <2> QED BY <1>2, <1>3, AppendRange
<1>5. CASE m \in Range(net[l])
  BY <1>5 DEF ClaimsTrue, ClaimTrue
<1>6. CASE m = u
  BY <1>6 DEF ClaimTrue
<1> QED BY <1>4, <1>5, <1>6

\* Reports are never taken back.
LEMMA ToldGrows == ASSUME [Next]_vars PROVE told \subseteq told'
BY DEF Next, vars, OnMessage, OnDisconnect, SyncSnapshot, SyncSend, HandleUpdate,
       HandleSync, Break, Return

\* Where a table says a radio is, a base station of that server reported on it,
\* and no server lists itself: over any mesh, under relays, stale rounds, full
\* syncs and lost connections.  The claims of all messages under way and of all
\* rounds make it inductive.
THEOREM TablesAlwaysTrue == Spec => []TablesTrue
<1>1. Init => ClaimsTrue /\ HeldTrue /\ OriginTrue
  BY DEF Init, ClaimsTrue, HeldTrue, OriginTrue, Range
<1>2. TypeOK /\ TypeOK' /\ ClaimsTrue /\ HeldTrue /\ [Next]_vars => HeldTrue'
  <2> SUFFICES ASSUME TypeOK, TypeOK', HeldTrue, [Next]_vars PROVE HeldTrue'
    OBVIOUS
  <2>0. told \subseteq told'
    BY ToldGrows
  <2>1. ASSUME NEW c \in Client, NEW k \in Kind, NEW i \in ISSI, NEW G \in Groups,
               OnMessage(c, k, i, G)
        PROVE HeldTrue'
    <3>1. /\ round' = round
          /\ told' = told \cup {<<i, Home[c]>>}
          /\ subs' = [subs EXCEPT ![c][i] = ApplySubscriber(subs[c][i], k, G)]
      BY <2>1 DEF OnMessage
    <3>2. ASSUME NEW d \in Client, NEW j \in ISSI, subs'[d][j] # None
          PROVE <<j, Home[d]>> \in told'
      BY <3>1, <3>2 DEF TypeOK, HeldTrue
    <3> QED BY <2>0, <3>1, <3>2 DEF HeldTrue
  <2>2. ASSUME NEW c \in Client, OnDisconnect(c) PROVE HeldTrue'
    BY <2>2 DEF OnDisconnect, TypeOK, HeldTrue
  <2>3. ASSUME NEW n \in Server, SyncSnapshot(n) PROVE HeldTrue'
    <3>1. subs' = subs /\ told' = told
      BY <2>3 DEF SyncSnapshot
    <3>2. ASSUME NEW x \in Server, NEW e \in round'[x] PROVE <<e[1], x>> \in told
      <4>1. CASE x = n
        <5>1. /\ e \in ISSI \X Groups
              /\ \E c \in Holders(n, e[1]) : e[2] = subs[c][e[1]]
          BY <2>3, <3>2, <4>1 DEF SyncSnapshot, TypeOK
        <5>2. PICK c \in Client : Home[c] = n /\ subs[c][e[1]] # None
          BY <5>1 DEF Holders
        <5> QED BY <4>1, <5>1, <5>2 DEF HeldTrue
      <4>2. CASE x # n
        BY <2>3, <3>2, <4>2 DEF SyncSnapshot, TypeOK, HeldTrue
      <4> QED BY <4>1, <4>2
    <3> QED BY <3>1, <3>2 DEF HeldTrue
  <2>4. ASSUME NEW n \in Server, SyncSend(n) PROVE HeldTrue'
    BY <2>4 DEF SyncSend, TypeOK, HeldTrue
  <2>5. CASE \/ \E l \in Link : HandleUpdate(l) \/ HandleSync(l) \/ Break(l) \/ Return(l)
             \/ UNCHANGED vars
    <3>1. subs' = subs /\ round' = round /\ told' = told
      BY <2>5 DEF HandleUpdate, HandleSync, Break, Return, vars
    <3> QED BY <3>1 DEF HeldTrue
  <2> QED BY <2>1, <2>2, <2>3, <2>4, <2>5 DEF Next
<1>3. TypeOK /\ TypeOK' /\ ClaimsTrue /\ HeldTrue /\ [Next]_vars => ClaimsTrue'
  <2> SUFFICES ASSUME TypeOK, TypeOK', ClaimsTrue, HeldTrue, [Next]_vars PROVE ClaimsTrue'
    OBVIOUS
  <2>0. told \subseteq told'
    BY ToldGrows
  <2>1. ASSUME NEW c \in Client, NEW k \in Kind, NEW i \in ISSI, NEW G \in Groups,
               OnMessage(c, k, i, G)
        PROVE ClaimsTrue'
    <3>1. Home[c] \in Server
      BY SyncConstants
    <3> QED BY <2>0, <2>1, <3>1, AnnouncedTrue DEF OnMessage
  <2>2. ASSUME NEW n \in Server, SyncSend(n) PROVE ClaimsTrue'
    <3>1. PICK e \in round[n] : BroadcastSubscriber(n, e[1], e[2])
      BY <2>2 DEF SyncSend
    <3>2. e[1] \in ISSI /\ e[2] \in Groups /\ <<e[1], n>> \in told'
      BY <2>0 DEF TypeOK, HeldTrue
    <3> QED BY <2>0, <3>1, <3>2, AnnouncedTrue
  <2>3. ASSUME NEW l \in Link, HandleUpdate(l) PROVE ClaimsTrue'
    <3> SUFFICES ASSUME NEW k \in Link, NEW m \in Range(net'[k]) PROVE ClaimTrue(m, k)'
      BY DEF ClaimsTrue
    <3> DEFINE h == Head(net[l])
               rest == [net EXCEPT ![l] = Tail(@)]
               r == PrepareRelay(h, l[2])
    <3>1. net[l] \in Seq(Message) /\ net[l] # <<>> /\ h.kind = "update"
      BY <2>3 DEF HandleUpdate, TypeOK, Message
    <3>2. h \in Message /\ h \in Range(net[l]) /\ r \in Message
      BY <3>1, TailRange, LinkFacts, MessageTypes
    <3>3. rest[k] \in Seq(Message) /\ \A x \in Range(rest[k]) : x \in Range(net[k])
      <4>1. CASE k = l
        <5>1. rest[k] = Tail(net[l])
          BY <4>1 DEF TypeOK
        <5> QED BY <3>1, <4>1, <5>1, TailRange
      <4>2. CASE k # l
        BY <4>2 DEF TypeOK, Message
      <4> QED BY <4>1, <4>2
    <3>4. net'[k] = rest[k] \/ net'[k] = Append(rest[k], r)
      BY <2>3 DEF HandleUpdate
    <3>5. m \in Range(net[k]) \/ m = r
      <4> HIDE DEF r, rest, h
      <4> QED BY <3>2, <3>3, <3>4, AppendRange
    <3>6. CASE m \in Range(net[k])
      BY <2>0, <3>6 DEF ClaimsTrue, ClaimTrue
    <3>7. CASE m = r
      <4>1. <<h.issi, h.origin>> \in told
        BY <3>1, <3>2 DEF ClaimsTrue, ClaimTrue
      <4> QED BY <2>0, <3>7, <4>1 DEF ClaimTrue, PrepareRelay
    <3> QED BY <3>5, <3>6, <3>7
  <2>4. ASSUME NEW l \in Link, HandleSync(l) PROVE ClaimsTrue'
    <3> SUFFICES ASSUME NEW k \in Link, NEW m \in Range(net'[k]) PROVE ClaimTrue(m, k)'
      BY DEF ClaimsTrue
    <3>1. net[l] \in Seq(Message) /\ net[l] # <<>> /\ net' = [net EXCEPT ![l] = Tail(@)]
      BY <2>4 DEF HandleSync, TypeOK, Message
    <3>2. m \in Range(net[k])
      BY <3>1, TailRange DEF TypeOK
    <3> QED BY <2>0, <3>2 DEF ClaimsTrue, ClaimTrue
  <2>5. ASSUME NEW l \in Link, Break(l) PROVE ClaimsTrue'
    <3> SUFFICES ASSUME NEW k \in Link, NEW m \in Range(net'[k]) PROVE ClaimTrue(m, k)'
      BY DEF ClaimsTrue
    <3>1. net'[k] = <<>> \/ net'[k] = net[k]
      BY <2>5 DEF Break
    <3>2. m \in Range(net[k])
      BY <3>1 DEF Range
    <3> QED BY <2>0, <3>2 DEF ClaimsTrue, ClaimTrue
  <2>6. ASSUME NEW l \in Link, Return(l) PROVE ClaimsTrue'
    <3> SUFFICES ASSUME NEW k \in Link, NEW m \in Range(net'[k]) PROVE ClaimTrue(m, k)'
      BY DEF ClaimsTrue
    <3>1. net'[k] = net[k] \/ net'[k] \in SendFullSync(k)
      <4>1. l[1] \in Server /\ l = <<l[1], l[2]>> /\ <<l[2], l[1]>> \in Link
        BY LinkFacts
      <4>2. PICK s \in SendFullSync(l), t \in SendFullSync(<<l[2], l[1]>>) :
               net' = [net EXCEPT ![l] = s, ![<<l[2], l[1]>>] = t]
        BY <2>6 DEF Return
      <4>3. CASE k = <<l[2], l[1]>>
        BY <4>1, <4>2, <4>3 DEF TypeOK
      <4>4. CASE k = l /\ k # <<l[2], l[1]>>
        BY <4>1, <4>2, <4>4 DEF TypeOK
      <4>5. CASE k # l /\ k # <<l[2], l[1]>>
        BY <4>1, <4>2, <4>5 DEF TypeOK
      <4> QED BY <4>3, <4>4, <4>5
    <3>2. CASE net'[k] = net[k]
      BY <2>0, <3>2 DEF ClaimsTrue, ClaimTrue
    <3>3. CASE net'[k] \in SendFullSync(k)
      <4>1. PICK f \in LocalSubscribers(k[1]) : net'[k] = <<[kind |-> "sync", subs |-> f]>>
        BY <3>3 DEF SendFullSync
      <4>2. m = [kind |-> "sync", subs |-> f]
        BY <4>1 DEF Range
      <4>3. ASSUME NEW i \in ISSI, f[i] # None PROVE <<i, k[1]>> \in told
        <5>1. PICK c \in Holders(k[1], i) : f[i] = subs[c][i]
          BY <4>3 DEF LocalSubscribers
        <5> QED BY <5>1 DEF Holders, HeldTrue
      <4> QED BY <2>0, <4>2, <4>3 DEF ClaimTrue
    <3> QED BY <3>1, <3>2, <3>3
  <2>7. CASE \/ \E c \in Client : OnDisconnect(c)
             \/ \E n \in Server : SyncSnapshot(n)
             \/ UNCHANGED vars
    <3>1. net' = net /\ told' = told
      BY <2>7 DEF OnDisconnect, SyncSnapshot, vars
    <3> QED BY <3>1 DEF ClaimsTrue, ClaimTrue
  <2> QED BY <2>1, <2>2, <2>3, <2>4, <2>5, <2>6, <2>7 DEF Next
<1>4. TypeOK /\ TypeOK' /\ ClaimsTrue /\ OriginTrue /\ [Next]_vars => OriginTrue'
  <2> SUFFICES ASSUME TypeOK, ClaimsTrue, OriginTrue, [Next]_vars,
                      NEW k \in Link, NEW i \in ISSI, issis'[k][i] # None
               PROVE  <<i, issis'[k][i]>> \in told' /\ issis'[k][i] # k[1]
    BY DEF OriginTrue
  <2>0. told \subseteq told'
    BY ToldGrows
  <2>1. ASSUME NEW l \in Link, HandleUpdate(l)
        PROVE \/ issis'[k][i] = issis[k][i]
              \/ <<i, issis'[k][i]>> \in told /\ issis'[k][i] # k[1]
    <3> DEFINE h == Head(net[l])
    <3>1. net[l] \in Seq(Message) /\ net[l] # <<>> /\ h.kind = "update"
      BY <2>1 DEF HandleUpdate, TypeOK, Message
    <3>2. h \in Range(net[l])
      BY <3>1, TailRange
    <3>3. <<h.issi, h.origin>> \in told
      BY <3>1, <3>2 DEF ClaimsTrue, ClaimTrue
    <3>4. CASE ShouldProcess(h, l[2])
      <4>1. issis' = [issis EXCEPT ![<<l[2], l[1]>>][h.issi] = h.origin]
        BY <2>1, <3>4 DEF HandleUpdate, RegisterISSI
      <4>2. h.origin # l[2]
        BY <3>4 DEF ShouldProcess
      <4> HIDE DEF h
      <4>3. CASE k = <<l[2], l[1]>> /\ i = h.issi
        BY <3>3, <4>1, <4>2, <4>3 DEF TypeOK
      <4>4. CASE ~(k = <<l[2], l[1]>> /\ i = h.issi)
        BY <4>1, <4>4 DEF TypeOK
      <4> QED BY <4>3, <4>4
    <3>5. CASE ~ShouldProcess(h, l[2])
      BY <2>1, <3>5 DEF HandleUpdate
    <3> QED BY <3>4, <3>5
  <2>2. ASSUME NEW l \in Link, HandleSync(l)
        PROVE \/ issis'[k][i] = issis[k][i]
              \/ <<i, issis'[k][i]>> \in told /\ issis'[k][i] # k[1]
    <3> DEFINE h == Head(net[l])
    <3>1. net[l] \in Seq(Message) /\ net[l] # <<>> /\ h.kind = "sync"
      BY <2>2 DEF HandleSync, TypeOK, Message
    <3>2. h \in Range(net[l])
      BY <3>1, TailRange
    <3>3. h.subs[i] # None => <<i, l[1]>> \in told
      BY <3>1, <3>2 DEF ClaimsTrue, ClaimTrue
    <3>4. l[1] # l[2]
      BY LinkFacts
    <3>5. issis' = [issis EXCEPT ![<<l[2], l[1]>>] =
             [j \in ISSI |-> IF h.subs[j] # None THEN l[1] ELSE issis[<<l[2], l[1]>>][j]]]
      BY <2>2 DEF HandleSync
    <3> HIDE DEF h
    <3>6. CASE k = <<l[2], l[1]>>
      BY <3>3, <3>4, <3>5, <3>6 DEF TypeOK
    <3>7. CASE k # <<l[2], l[1]>>
      BY <3>5, <3>7 DEF TypeOK
    <3> QED BY <3>6, <3>7
  <2>3. ASSUME NEW l \in Link, Return(l) PROVE issis'[k][i] = issis[k][i]
    BY <2>3 DEF Return, CleanupISSIs
  <2>4. ASSUME \/ \E c \in Client, j \in Kind, r \in ISSI, G \in Groups : OnMessage(c, j, r, G)
               \/ \E c \in Client : OnDisconnect(c)
               \/ \E n \in Server : SyncSnapshot(n) \/ SyncSend(n)
               \/ \E l \in Link : Break(l)
               \/ UNCHANGED vars
        PROVE  issis'[k][i] = issis[k][i]
    BY <2>4 DEF OnMessage, OnDisconnect, SyncSnapshot, SyncSend, Break, vars
  <2>5. \/ issis'[k][i] = issis[k][i]
        \/ <<i, issis'[k][i]>> \in told /\ issis'[k][i] # k[1]
    BY <2>1, <2>2, <2>3, <2>4 DEF Next
  <2> QED BY <2>0, <2>5 DEF OriginTrue
<1>5. TypeOK /\ OriginTrue => TablesTrue
  BY DEF TablesTrue
<1> QED BY <1>1, <1>2, <1>3, <1>4, <1>5, SyncTypeCorrect, PTL DEF Spec
=============================================================================
