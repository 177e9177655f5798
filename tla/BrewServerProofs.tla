--------------------------- MODULE BrewServerProofs ---------------------------
(***************************************************************************)
(* Proofs about the Brew server: the admission of base stations, for any   *)
(* number of users, nonces and tokens, their sessions, for any number of   *)
(* sessions and any capacity of their channels, and the station registry,  *)
(* for any number of stations and radios.                                  *)
(***************************************************************************)
EXTENDS ServerParts, Naturals, Sequences, FiniteSetTheorems, SequenceTheorems, TLAPS

-----------------------------------------------------------------------------
(* Admission                                                               *)

\* What a token in the table says is what was proven when it was issued, and it
\* has opened nothing yet.
TokensUnused ==
    \A t \in Token : tokens[t] # Adm!NoToken =>
        /\ sessions[t] = {}
        /\ \A p \in upgrading : p[1] # t
        /\ tokens[t].user = proven[t][1]
        /\ tokens[t].exp = proven[t][2] + TokenTTL

\* An upgrade has a token of its own, which was valid when it was taken.
UpgradesApart ==
    \A p \in upgrading :
        /\ sessions[p[1]] = {}
        /\ p[2] = proven[p[1]][1]
        /\ clock <= proven[p[1]][2] + TokenTTL
        /\ \A q \in upgrading : q[1] = p[1] => q = p

\* A token has opened one session at most.
OneEach == \A t \in Token : \A r, s \in sessions[t] : r = s

TokensInv == Adm!TablesTyped /\ TokensUnused /\ UpgradesApart /\ OneEach /\ Adm!SessionFresh
AdmissionInv == Adm!TypeOK /\ Adm!InOrder /\ TokensInv

\* A set with at most one element has at most one element.
LEMMA AtMostOne ==
    ASSUME NEW S, \A x, y \in S : x = y
    PROVE  Cardinality(S) \in {0, 1} /\ (Cardinality(S) = 0 <=> S = {})
<1>1. CASE S = {}
  BY <1>1, FS_EmptySet
<1>2. CASE S # {}
  <2>1. PICK x \in S : TRUE
    BY <1>2
  <2>2. S = {x}
    BY <2>1
  <2> QED BY <2>2, FS_Singleton
<1> QED BY <1>1, <1>2

\* The rate limiter keeps its type and order, a failure and a success included.
LEMMA LimiterStep ==
    ASSUME Adm!AdmissionConstants, Adm!TypeOK, Adm!InOrder,
           Adm!Failure \/ Adm!Success \/ UNCHANGED <<attempts, banned>>,
           clock' \in 1..AdmissionTime, clock' >= clock
    PROVE  /\ attempts' \in Seq(1..AdmissionTime) /\ banned' \in 0..AdmissionTime + BanDuration
           /\ Adm!InOrder'
<1>1. /\ clock \in 1..AdmissionTime /\ clock \in Nat /\ AdmissionTime \in Nat /\ BanDuration \in Nat
      /\ attempts \in Seq(1..AdmissionTime) /\ banned \in 0..AdmissionTime + BanDuration
      /\ Len(attempts) \in Nat
  BY DEF Adm!TypeOK, Adm!TablesTyped, Adm!AdmissionConstants
<1>2. CASE Adm!Failure
  <2> DEFINE past == {i \in 1..Len(attempts) : attempts[i] + AuthWindow <= clock}
             n == Cardinality(past) + 1
             kept == SubSeq(attempts, n, Len(attempts))
             recent == Append(kept, clock)
  <2>1. IsFiniteSet(1..Len(attempts)) /\ Cardinality(1..Len(attempts)) = Len(attempts)
    <3>1. 1 \in Int /\ Len(attempts) \in Int /\ Len(attempts) - 1 + 1 = Len(attempts)
          /\ (1 > Len(attempts) => Len(attempts) = 0)
      BY <1>1
    <3> QED BY <3>1, FS_Interval
  <2>2. past \in SUBSET (1..Len(attempts))
    OBVIOUS
  <2>3. n \in Nat /\ n >= 1
    BY <2>1, <2>2, FS_Subset, FS_CardinalityType
  <2>4. \/ attempts' = <<>> /\ banned' = clock + BanDuration
        \/ attempts' = recent /\ UNCHANGED banned
    BY <1>2 DEF Adm!Failure, Adm!Cardinality, Cardinality
  <2> HIDE DEF n
  <2>5. /\ kept \in Seq(1..AdmissionTime)
        /\ Len(kept) = IF n <= Len(attempts) THEN Len(attempts) - n + 1 ELSE 0
        /\ \A i \in 1..Len(attempts) - n + 1 : kept[i] = attempts[n + i - 1]
    <3>1. \A i \in n..Len(attempts) : attempts[i] \in 1..AdmissionTime
      BY <1>1, <2>3
    <3> QED BY <1>1, <2>3, <3>1, SubSeqProperties
  <2> HIDE DEF kept
  <2>6. /\ recent \in Seq(1..AdmissionTime) /\ Len(recent) = Len(kept) + 1
        /\ recent[Len(kept) + 1] = clock
        /\ \A i \in 1..Len(kept) : recent[i] = kept[i]
    BY <1>1, <2>5
  <2> HIDE DEF recent
  <2>7. \A i, j \in 1..Len(kept) : i <= j => kept[i] <= kept[j] /\ kept[j] <= clock
    <3> SUFFICES ASSUME NEW i \in 1..Len(kept), NEW j \in 1..Len(kept), i <= j
                 PROVE  kept[i] <= kept[j] /\ kept[j] <= clock
      OBVIOUS
    <3>1. /\ n + i - 1 \in 1..Len(attempts) /\ n + j - 1 \in 1..Len(attempts)
          /\ i \in 1..Len(attempts) - n + 1 /\ j \in 1..Len(attempts) - n + 1
      <4> DEFINE l == Len(attempts)
                 k == Len(kept)
      <4>1. l \in Nat /\ n \in Nat /\ n >= 1 /\ k = (IF n <= l THEN l - n + 1 ELSE 0)
        BY <1>1, <2>3, <2>5
      <4> HIDE DEF l, k
      <4>2. i \in 1..k /\ j \in 1..k
        BY DEF k
      <4>3. k = l - n + 1
        BY <4>1, <4>2
      <4> QED BY <4>1, <4>2, <4>3 DEF l
    <3>2. attempts[n + i - 1] <= attempts[n + j - 1] /\ attempts[n + j - 1] <= clock
      <4>1. n + i - 1 <= n + j - 1
        BY <2>3, <3>1
      <4> QED BY <3>1, <4>1 DEF Adm!InOrder
    <3> QED BY <2>5, <3>1, <3>2
  <2>8. \A i, j \in 1..Len(recent) : i <= j => recent[i] <= recent[j] /\ recent[j] <= clock
    <3> SUFFICES ASSUME NEW i \in 1..Len(recent), NEW j \in 1..Len(recent), i <= j
                 PROVE  recent[i] <= recent[j] /\ recent[j] <= clock
      OBVIOUS
    <3>1. CASE j \in 1..Len(kept)
      BY <2>5, <2>6, <2>7, <3>1
    <3>2. CASE j = Len(kept) + 1
      <4>1. recent[i] \in Nat /\ recent[j] = clock
        BY <1>1, <2>6, <3>2
      <4>2. i \in 1..Len(kept) => kept[i] <= clock
        BY <2>7
      <4>3. i \in 1..Len(kept) \/ i = Len(kept) + 1
        BY <2>5, <2>6, <3>2
      <4> QED BY <1>1, <2>6, <4>1, <4>2, <4>3
    <3> QED BY <2>5, <2>6, <3>1, <3>2
  <2>9. \A i \in 1..Len(recent) : recent[i] \in 1..AdmissionTime
    <3> DEFINE S == 1..AdmissionTime
    <3>1. recent \in Seq(S)
      BY <2>6
    <3> HIDE DEF S
    <3>2. \A i \in 1..Len(recent) : recent[i] \in S
      BY <3>1
    <3> QED BY <3>2 DEF S
  <2>10. CASE attempts' = recent /\ UNCHANGED banned
    <3>1. recent \in Seq(1..AdmissionTime) /\ \A i \in 1..Len(recent) : recent[i] \in 1..AdmissionTime
      BY <2>6, <2>9
    <3>2. Adm!InOrder'
      <4> SUFFICES ASSUME NEW i \in 1..Len(recent), NEW j \in 1..Len(recent), i <= j
                   PROVE  recent[i] <= recent[j] /\ recent[j] <= clock'
        BY <2>10 DEF Adm!InOrder
      <4>1. recent[i] <= recent[j] /\ recent[j] <= clock /\ recent[j] \in 1..AdmissionTime
        BY <2>8, <3>1
      <4> QED BY <1>1, <4>1
    <3> QED BY <1>1, <2>10, <3>1, <3>2
  <2>11. CASE attempts' = <<>> /\ banned' = clock + BanDuration
    <3>1. clock + BanDuration \in 0..AdmissionTime + BanDuration
      BY <1>1
    <3>2. Len(<<>>) = 0 /\ <<>> \in Seq(1..AdmissionTime)
      OBVIOUS
    <3>3. Adm!InOrder'
      BY <2>11, <3>2 DEF Adm!InOrder
    <3> QED BY <2>11, <3>1, <3>2, <3>3
  <2> QED BY <2>4, <2>10, <2>11
<1>3. CASE Adm!Success \/ UNCHANGED <<attempts, banned>>
  <2>1. CASE Adm!Success
    <3>1. Len(<<>>) = 0 /\ <<>> \in Seq(1..AdmissionTime)
      OBVIOUS
    <3> QED BY <1>1, <2>1, <3>1 DEF Adm!Success, Adm!InOrder
  <2>2. CASE UNCHANGED <<attempts, banned>>
    <3>1. \A i, j \in 1..Len(attempts) : i <= j => attempts[i] <= attempts[j] /\ attempts[j] <= clock'
      <4> SUFFICES ASSUME NEW i \in 1..Len(attempts), NEW j \in 1..Len(attempts), i <= j
                   PROVE  attempts[i] <= attempts[j] /\ attempts[j] <= clock'
        OBVIOUS
      <4>1. attempts[i] <= attempts[j] /\ attempts[j] <= clock
        BY DEF Adm!InOrder
      <4>2. attempts[j] \in 1..AdmissionTime
        BY <1>1
      <4> QED BY <1>1, <4>1, <4>2
    <3> QED BY <1>1, <2>2, <3>1 DEF Adm!InOrder
  <2> QED BY <1>3, <2>1, <2>2
<1> QED BY <1>2, <1>3

\* Every step of the admission keeps what the tables say.
LEMMA TokensStep ==
    ASSUME Adm!AdmissionConstants, TokensInv, [Adm!Next]_(Adm!vars)
    PROVE  TokensInv'
<1> USE DEF Adm!AdmissionConstants, TokensInv, Adm!TablesTyped, TokensUnused, UpgradesApart, OneEach,
            Adm!SessionFresh, Adm!NoToken
<1>1. ASSUME Adm!Tick PROVE TokensInv'
  BY <1>1 DEF Adm!Tick
<1>2. ASSUME NEW k \in Nonce, Adm!Refuse(k) PROVE TokensInv'
  BY <1>2 DEF Adm!Refuse, Adm!Challenge
<1>3. ASSUME NEW j \in Nonce, NEW k \in Nonce, Adm!Expired(j, k) PROVE TokensInv'
  BY <1>3 DEF Adm!Expired
<1>4. ASSUME NEW u \in User, Adm!Directory(u) PROVE TokensInv'
  BY <1>4 DEF Adm!Directory
<1>5. ASSUME NEW u \in User, NEW k \in Nonce, Adm!Accept(u, k) PROVE TokensInv'
  BY <1>5 DEF Adm!Accept
<1>6. ASSUME NEW u \in User, NEW k \in Nonce, Adm!Reject(u, k) PROVE TokensInv'
  BY <1>6 DEF Adm!Reject, Adm!Challenge
<1>7. ASSUME NEW u \in User, NEW t \in Token, Adm!IssueToken(u, t) PROVE TokensInv'
  BY <1>7 DEF Adm!IssueToken
<1>8. ASSUME NEW t \in Token, Adm!ConsumeToken(t) PROVE TokensInv'
  BY <1>8 DEF Adm!ConsumeToken
<1>9. ASSUME NEW t \in Token, NEW u \in User, Adm!Register(t, u) PROVE TokensInv'
  BY <1>9 DEF Adm!Register
<1>10. ASSUME NEW t \in Token, NEW u \in User, Adm!UpgradeFails(t, u) PROVE TokensInv'
  BY <1>10 DEF Adm!UpgradeFails
<1>11. CASE UNCHANGED Adm!vars
  BY <1>11 DEF Adm!vars
<1> QED
  BY <1>1, <1>2, <1>3, <1>4, <1>5, <1>6, <1>7, <1>8, <1>9, <1>10, <1>11 DEF Adm!Next

\* Every step of the admission keeps its invariant.
LEMMA AdmissionStep ==
    ASSUME Adm!AdmissionConstants, AdmissionInv, [Adm!Next]_(Adm!vars)
    PROVE  AdmissionInv'
<1>1. clock \in 1..AdmissionTime /\ AdmissionTime \in Nat /\ Adm!TypeOK /\ Adm!InOrder /\ TokensInv
  BY DEF Adm!AdmissionConstants, AdmissionInv, Adm!TypeOK, Adm!TablesTyped
<1>2. Adm!Failure \/ Adm!Success \/ UNCHANGED <<attempts, banned>>
  BY
     DEF Adm!Next, Adm!vars, Adm!Tick, Adm!Refuse, Adm!Challenge, Adm!Expired, Adm!Directory,
         Adm!Accept, Adm!Reject, Adm!IssueToken,
         Adm!ConsumeToken, Adm!Register, Adm!UpgradeFails
<1>3. UNCHANGED clock \/ (clock < AdmissionTime /\ clock' = clock + 1)
  BY
     DEF Adm!Next, Adm!vars, Adm!Tick, Adm!Refuse, Adm!Expired, Adm!Directory, Adm!Accept,
         Adm!Reject, Adm!IssueToken, Adm!ConsumeToken,
         Adm!Register, Adm!UpgradeFails
<1>4. clock' \in 1..AdmissionTime /\ clock' >= clock
  BY <1>1, <1>3
<1>5. /\ attempts' \in Seq(1..AdmissionTime) /\ banned' \in 0..AdmissionTime + BanDuration
      /\ Adm!InOrder'
  BY <1>1, <1>2, <1>4, LimiterStep
<1>6. TokensInv'
  BY <1>1, TokensStep
<1> QED BY <1>5, <1>6 DEF AdmissionInv, Adm!TypeOK, TokensInv

\* A token opens one session at most, under the name that was proven at most
\* TokenTTL before, however requests, upgrades, expiry and the directory's updates
\* mix (issueToken, consumeToken, handleWebsocket).
THEOREM AdmissionAlwaysSound ==
    ASSUME Adm!AdmissionConstants
    PROVE  Adm!Spec => []AdmissionSound
<1>1. Adm!Init => AdmissionInv
  BY
     DEF Adm!Init, TokensInv, AdmissionInv, Adm!AdmissionConstants, Adm!TypeOK, Adm!TablesTyped,
         Adm!InOrder, TokensUnused, UpgradesApart, OneEach,
         Adm!SessionFresh
<1>2. AdmissionInv /\ [Adm!Next]_(Adm!vars) => AdmissionInv'
  BY AdmissionStep
<1>3. AdmissionInv => AdmissionSound
  <2> SUFFICES ASSUME AdmissionInv PROVE Adm!TokenOnce
    BY DEF AdmissionInv, TokensInv, AdmissionSound, Adm!AdmissionSound
  <2> SUFFICES ASSUME NEW t \in Token
               PROVE  Cardinality(sessions[t]) + Cardinality({p \in upgrading : p[1] = t}) <= 1
    BY DEF Adm!TokenOnce, Adm!Cardinality, Cardinality
  <2>1. \A r, s \in sessions[t] : r = s
    BY DEF AdmissionInv, TokensInv, OneEach
  <2>2. \A p, q \in {p \in upgrading : p[1] = t} : p = q
    BY DEF AdmissionInv, TokensInv, UpgradesApart
  <2>3. {p \in upgrading : p[1] = t} # {} => sessions[t] = {}
    BY DEF AdmissionInv, TokensInv, UpgradesApart
  <2> HIDE DEF AdmissionInv
  <2>4. /\ Cardinality(sessions[t]) \in {0, 1} /\ (Cardinality(sessions[t]) = 0 <=> sessions[t] = {})
        /\ Cardinality({p \in upgrading : p[1] = t}) \in {0, 1}
        /\ Cardinality({p \in upgrading : p[1] = t}) = 0 <=> {p \in upgrading : p[1] = t} = {}
    BY <2>1, <2>2, AtMostOne
  <2> QED BY <2>3, <2>4
<1> QED BY <1>1, <1>2, <1>3, PTL DEF Adm!Spec

-----------------------------------------------------------------------------
(* Sessions                                                                *)

\* Where the read loop stands says whether the session is in the table, its
\* channel open and its end announced.
SessionInv ==
    /\ Ses!TypeOK
    /\ \A c \in Client :
          /\ c \in clients <=> loop[c] \in {"read", "cast", "unregister"}
          /\ open[c] <=> loop[c] \in {"read", "cast", "unregister", "close"}
          /\ told[c] = IF loop[c] = "ended" THEN 1 ELSE 0

\* Every step of a session keeps the invariant.
LEMMA SessionStep ==
    ASSUME Ses!SessionConstants, SessionInv, [Ses!Next]_(Ses!vars)
    PROVE  SessionInv'
<1> USE DEF Ses!SessionConstants, SessionInv, Ses!TypeOK, Ses!Sender, Ses!Goto
<1>1. ASSUME Ses!FedCast PROVE SessionInv'
  BY <1>1 DEF Ses!FedCast
<1>2. ASSUME NEW c \in Client, Ses!Break(c) PROVE SessionInv'
  BY <1>2 DEF Ses!Break
<1>3. ASSUME NEW c \in Client, Ses!Open(c) PROVE SessionInv'
  BY <1>3 DEF Ses!Open
<1>4. ASSUME NEW c \in Client, Ses!Read(c) PROVE SessionInv'
  BY <1>4 DEF Ses!Read
<1>5. ASSUME NEW c \in Client, Ses!CastDone(c) PROVE SessionInv'
  BY <1>5 DEF Ses!CastDone
<1>6. ASSUME NEW c \in Client, Ses!ReadFails(c) PROVE SessionInv'
  BY <1>6 DEF Ses!ReadFails
<1>7. ASSUME NEW c \in Client, Ses!Unregister(c) PROVE SessionInv'
  BY <1>7 DEF Ses!Unregister
<1>8. ASSUME NEW c \in Client, Ses!CloseClient(c) PROVE SessionInv'
  BY <1>8 DEF Ses!CloseClient
<1>9. ASSUME NEW c \in Client, Ses!Notify(c) PROVE SessionInv'
  BY <1>9 DEF Ses!Notify
<1>10. ASSUME NEW c \in Client, Ses!Write(c) PROVE SessionInv'
  BY <1>10 DEF Ses!Write
<1>11. ASSUME NEW c \in Client, Ses!WriteFails(c) \/ Ses!WriterStops(c) PROVE SessionInv'
  BY <1>11 DEF Ses!WriteFails, Ses!WriterStops
<1>12. ASSUME NEW g \in Ses!Sender, NEW c \in Client, Ses!Enqueue(g, c) PROVE SessionInv'
  <2>1. CASE open[c]
    BY <1>12, <2>1 DEF Ses!Enqueue, Ses!Fits
  <2>2. CASE ~open[c]
    <3>1. crashed' \in BOOLEAN
      BY <1>12, <2>2 DEF Ses!Enqueue
    <3>2. /\ loop' = loop \/ (g \in Client /\ loop[g] = "cast" /\ loop' = [loop EXCEPT ![g] = "unregister"])
          /\ todo' = [todo EXCEPT ![g] = {}]
          /\ UNCHANGED <<conn, clients, writer, open, told, casts, queue>>
      BY <1>12, <2>2 DEF Ses!Enqueue
    <3> QED BY <3>1, <3>2
  <2> QED BY <2>1, <2>2
<1>13. CASE UNCHANGED Ses!vars
  BY <1>13 DEF Ses!vars
<1> QED
  BY <1>1, <1>2, <1>3, <1>4, <1>5, <1>6, <1>7, <1>8, <1>9, <1>10, <1>11, <1>12, <1>13
     DEF Ses!Next, Ses!SessionStep

\* The table of clients holds open channels only, and OnDisconnect is called once
\* for each session, after it left the table and its channel was closed, whatever
\* broadcasts run and panic meanwhile (disconnectClient, Client.Enqueue).
THEOREM SessionsAlwaysSound ==
    ASSUME Ses!SessionConstants
    PROVE  Ses!Spec => []SessionsSound
<1>1. Ses!Init => SessionInv
  <2> SUFFICES ASSUME Ses!Init PROVE SessionInv
    OBVIOUS
  <2>1. /\ queue \in [Client -> 0..Cap] /\ told \in [Client -> 0..2] /\ casts \in 0..Casts
        /\ conn \in [Client -> {"none", "up", "down"}] /\ writer \in [Client -> {"none", "run", "done"}]
        /\ \A c \in Client : told[c] = IF loop[c] = "ended" THEN 1 ELSE 0
    BY DEF Ses!Init, Ses!SessionConstants
  <2>2. open \in [Client -> BOOLEAN] /\ crashed \in BOOLEAN
    BY DEF Ses!Init
  <2>3. /\ loop \in [Client -> {"none", "read", "cast", "unregister", "close", "notify", "ended"}]
        /\ \A c \in Client : loop[c] = "none" /\ ~open[c] /\ c \notin clients
        /\ clients \subseteq Client /\ todo \in [Ses!Sender -> SUBSET Client]
    BY DEF Ses!Init
  <2> QED BY <2>1, <2>2, <2>3 DEF SessionInv, Ses!TypeOK
<1>2. SessionInv /\ [Ses!Next]_(Ses!vars) => SessionInv'
  BY SessionStep
<1>3. SessionInv => SessionsSound
  BY DEF SessionInv, SessionsSound, Ses!SessionsSound, Ses!TypeOK, Ses!TableOpen, Ses!ToldOnce
<1> QED BY <1>1, <1>2, <1>3, PTL DEF Ses!Spec

-----------------------------------------------------------------------------
(* Stations                                                                *)

\* No row was seen later than its server's clock says.
SeenPast == \A n \in Sta!Server, s \in Sid : items[n][s].seen <= now[n]

StationInv == Sta!TypeOK /\ Sta!IndexSound /\ SeenPast

\* What one step may do to a row's last_seen.
Forward ==
    \A n \in Sta!Server, s \in Sid : Sta!Exists(n, s) /\ items'[n][s] # Sta!None =>
        /\ items'[n][s].seen >= items[n][s].seen
        /\ items'[n][s].seen <= now'[n]

\* A row is told from the absence of one by its origin.
LEMMA RowIsSome ==
    ASSUME NEW r \in Sta!Row
    PROVE  r # Sta!None /\ r.seen \in 0..StationTime /\ r.del \in 0..StationTime /\ r.owned \subseteq ISSI
BY DEF Sta!Row, Sta!None, Sta!Server

\* Upsert: the row is typed and seen between what it was and now, and the index
\* stays sound whoever had the radios before.
LEMMA UpsertSound ==
    ASSUME Sta!StationConstants, StationInv, NEW n \in Sta!Server, NEW s \in Sid,
           NEW in \in Sta!Row,
           Sta!Upsert(n, s, in)
    PROVE  /\ items' \in [Sta!Server -> [Sid -> Sta!Row \cup {Sta!None}]]
           /\ index' \in [Sta!Server -> [ISSI -> Sid \cup {Sta!NoStation}]]
           /\ \A m \in Sta!Server, t \in Sid : items'[m][t].seen <= now[m]
           /\ \A m \in Sta!Server, t \in Sid : items'[m][t].seen >= items[m][t].seen
           /\ Sta!IndexSound'
<1> DEFINE at == Sta!LastSeen(n, s, in)
           row == [in EXCEPT !.seen = at]
<1>1. /\ items[n][s].seen \in 0..StationTime /\ items[n][s].seen <= now[n] /\ now[n] \in 1..StationTime
      /\ \A m \in Sta!Server, t \in Sid : items[m][t] \in Sta!Row \cup {Sta!None}
                                          /\ items[m][t].seen \in 0..StationTime
  BY DEF Sta!StationConstants, StationInv, Sta!TypeOK, SeenPast, Sta!Row, Sta!None
<1>2. at \in 0..StationTime /\ at <= now[n] /\ at >= items[n][s].seen
  BY <1>1 DEF Sta!LastSeen, Sta!Row, Sta!StationConstants
<1>3. row \in Sta!Row /\ row.seen = at /\ row.del = in.del /\ row.owned = in.owned
  BY <1>2 DEF Sta!Row
<1>4. /\ items' = [items EXCEPT ![n] = [items[n] EXCEPT ![s] = row]]
      /\ index' = [index EXCEPT ![n] = Sta!Indexed(n, s, row)]
  BY DEF Sta!Upsert
<1> HIDE DEF row, at
<1>5. /\ items' \in [Sta!Server -> [Sid -> Sta!Row \cup {Sta!None}]]
      /\ items'[n][s] = row
      /\ \A m \in Sta!Server, t \in Sid : (m # n \/ t # s) => items'[m][t] = items[m][t]
  BY <1>3, <1>4 DEF StationInv, Sta!TypeOK
<1>6. /\ \A m \in Sta!Server, t \in Sid : items'[m][t].seen <= now[m]
      /\ \A m \in Sta!Server, t \in Sid : items'[m][t].seen >= items[m][t].seen
  BY <1>1, <1>2, <1>3, <1>5 DEF StationInv, SeenPast
<1>7. /\ index' \in [Sta!Server -> [ISSI -> Sid \cup {Sta!NoStation}]]
      /\ \A m \in Sta!Server, i \in ISSI : m # n => index'[m][i] = index[m][i]
      /\ \A i \in ISSI : \/ index'[n][i] = s /\ row.del = 0 /\ i \in row.owned
                         \/ index'[n][i] = Sta!NoStation
                         \/ index'[n][i] = index[n][i] /\ index[n][i] # s
  BY <1>4 DEF StationInv, Sta!TypeOK, Sta!Indexed, Sta!Unindexed
<1>8. Sta!IndexSound'
  <2> SUFFICES ASSUME NEW m \in Sta!Server, NEW i \in ISSI, index'[m][i] # Sta!NoStation
               PROVE  /\ items'[m][index'[m][i]] # Sta!None
                      /\ items'[m][index'[m][i]].del = 0
                      /\ i \in items'[m][index'[m][i]].owned
    BY DEF Sta!IndexSound, Sta!Live, Sta!Exists
  <2>1. CASE m = n /\ index'[n][i] = s /\ row.del = 0 /\ i \in row.owned
    BY <1>3, <1>5, <2>1, RowIsSome
  <2>2. CASE index'[m][i] = index[m][i] /\ (m # n \/ index[m][i] # s)
    <3>1. index[m][i] \in Sid /\ Sta!Live(m, index[m][i]) /\ i \in items[m][index[m][i]].owned
      BY <2>2 DEF StationInv, Sta!TypeOK, Sta!IndexSound
    <3>2. items'[m][index[m][i]] = items[m][index[m][i]]
      BY <1>5, <2>2, <3>1
    <3> QED BY <2>2, <3>1, <3>2 DEF Sta!Live, Sta!Exists
  <2> QED BY <1>7, <2>1, <2>2
<1> QED BY <1>5, <1>6, <1>7, <1>8

\* Every step keeps the invariant and takes no last_seen back.
LEMMA StationStep ==
    ASSUME Sta!StationConstants, StationInv, [Sta!Next]_(Sta!vars)
    PROVE  StationInv' /\ Forward
<1> USE DEF Sta!StationConstants
<1>1. /\ now \in [Sta!Server -> 1..StationTime]
      /\ items \in [Sta!Server -> [Sid -> Sta!Row \cup {Sta!None}]]
      /\ index \in [Sta!Server -> [ISSI -> Sid \cup {Sta!NoStation}]]
      /\ copy \in [Sta!Server -> [sid: Sid, row: Sta!Row] \cup {Sta!NoCopy}]
      /\ wire \subseteq [to: Sta!Server, sid: Sid, row: Sta!Row]
      /\ retired \subseteq Sid
      /\ Sta!IndexSound /\ SeenPast
      /\ \A n \in Sta!Server, s \in Sid : items[n][s].seen \in 0..StationTime
  BY DEF StationInv, Sta!TypeOK, Sta!Row, Sta!None
\* Steps that leave the rows and the index alone.
<1>2. ASSUME UNCHANGED <<now, items, index>>,
             copy' \in [Sta!Server -> [sid: Sid, row: Sta!Row] \cup {Sta!NoCopy}],
             wire' \subseteq [to: Sta!Server, sid: Sid, row: Sta!Row],
             retired' \subseteq Sid
      PROVE  StationInv' /\ Forward
  BY <1>1, <1>2 DEF StationInv, Sta!TypeOK, Sta!IndexSound, Sta!Live, Sta!Exists, SeenPast, Forward
\* Steps that store a row.
<1>3. ASSUME NEW n \in Sta!Server, NEW s \in Sid, NEW in \in Sta!Row, Sta!Upsert(n, s, in), now' = now,
             copy' \in [Sta!Server -> [sid: Sid, row: Sta!Row] \cup {Sta!NoCopy}],
             wire' \subseteq [to: Sta!Server, sid: Sid, row: Sta!Row],
             retired' \subseteq Sid
      PROVE  StationInv' /\ Forward
  BY <1>1, <1>3, UpsertSound DEF StationInv, Sta!TypeOK, SeenPast, Forward
\* An update is typed, and sending keeps the wire so.
<1>4. ASSUME NEW n \in Sta!Server, NEW s \in Sid, NEW r \in Sta!Row
      PROVE  Sta!Update(n, s, r) \in [to: Sta!Server, sid: Sid, row: Sta!Row]
  BY DEF Sta!Update, Sta!Other, Sta!Server, Sta!Row
<1>5. ASSUME NEW owned \in SUBSET ISSI, NEW last \in 0..StationTime
      PROVE  [seen |-> last, del |-> 0, origin |-> "own", owned |-> owned] \in Sta!Row
  BY DEF Sta!Row
<1>6. ASSUME Sta!Lose PROVE StationInv' /\ Forward
  BY <1>1, <1>2, <1>6 DEF Sta!Lose
<1>7. ASSUME NEW n \in Sta!Server, NEW s \in Sid, NEW owned \in SUBSET ISSI,
             NEW last \in 0..StationTime, Sta!Push(n, s, owned, last)
      PROVE  StationInv' /\ Forward
  <2>1. items'[n][s] \in Sta!Row \cup {Sta!None} /\ items'[n][s] # Sta!None
    <3> DEFINE in == [seen |-> last, del |-> 0, origin |-> "own", owned |-> owned]
    <3>1. in \in Sta!Row /\ Sta!Upsert(n, s, in)
      BY <1>5, <1>7 DEF Sta!Push
    <3>2. items'[n][s] = [in EXCEPT !.seen = Sta!LastSeen(n, s, in)]
      BY <1>1, <3>1 DEF Sta!Upsert
    <3>3. items' \in [Sta!Server -> [Sid -> Sta!Row \cup {Sta!None}]]
      BY <3>1, UpsertSound
    <3> QED BY <3>2, <3>3 DEF Sta!None
  <2>2. wire' \subseteq [to: Sta!Server, sid: Sid, row: Sta!Row]
    BY <1>1, <1>4, <1>7, <2>1 DEF Sta!Push, Sta!Notify, Sta!Send
  <2> QED BY <1>1, <1>3, <1>5, <1>7, <2>2 DEF Sta!Push
<1>8. ASSUME NEW n \in Sta!Server, NEW s \in Sid, NEW owned \in SUBSET ISSI, Sta!Create(n, s, owned)
      PROVE  StationInv' /\ Forward
  <2>1. 0 \in 0..StationTime
    OBVIOUS
  <2>2. [seen |-> 0, del |-> 0, origin |-> "own", owned |-> owned] \in Sta!Row
    BY <1>5, <2>1
  <2> QED BY <1>1, <1>3, <1>8, <2>2 DEF Sta!Create
<1>9. ASSUME NEW n \in Sta!Server, Sta!LinkWrite(n) PROVE StationInv' /\ Forward
  <2>1. copy[n].sid \in Sid /\ copy[n].row \in Sta!Row
    BY <1>1, <1>9 DEF Sta!LinkWrite
  <2> QED BY <1>1, <1>3, <1>9, <2>1 DEF Sta!LinkWrite
<1>10. ASSUME NEW n \in Sta!Server, NEW s \in Sid, Sta!Receive(n, s) PROVE StationInv' /\ Forward
  <2>1. PICK m \in wire : /\ m.sid = s
                          /\ wire' = wire \ {m}
                          /\ \/ UNCHANGED <<items, index>>
                             \/ Sta!Upsert(n, s, m.row)
                          /\ UNCHANGED <<now, copy, retired>>
    BY <1>10 DEF Sta!Receive
  <2>2. m.row \in Sta!Row /\ wire' \subseteq [to: Sta!Server, sid: Sid, row: Sta!Row]
    BY <1>1, <2>1
  <2> QED BY <1>1, <1>2, <1>3, <2>1, <2>2
<1>11. ASSUME NEW n \in Sta!Server, NEW s \in Sid, Sta!Delete(n, s) PROVE StationInv' /\ Forward
  <2> DEFINE gone == IF items[n][s].del = 0 THEN now[n] ELSE items[n][s].del
             row == [items[n][s] EXCEPT !.del = gone]
  <2>1. items[n][s] \in Sta!Row
    BY <1>1, <1>11 DEF Sta!Delete, Sta!Exists
  <2>2. row \in Sta!Row /\ row.seen = items[n][s].seen
    <3>1. now[n] \in 0..StationTime
      BY <1>1
    <3>2. gone \in 0..StationTime
      BY <2>1, <3>1, RowIsSome
    <3> HIDE DEF gone
    <3> QED BY <2>1, <3>2 DEF Sta!Row
  <2>3. items' = [items EXCEPT ![n] = [items[n] EXCEPT ![s] = row]]
    BY <1>1, <1>11 DEF Sta!Delete
  <2> HIDE DEF row
  <2>4. /\ items' \in [Sta!Server -> [Sid -> Sta!Row \cup {Sta!None}]]
        /\ items'[n][s] = row
        /\ \A m \in Sta!Server, t \in Sid : (m # n \/ t # s) => items'[m][t] = items[m][t]
    BY <1>1, <2>2, <2>3
  <2>5. wire' \subseteq [to: Sta!Server, sid: Sid, row: Sta!Row]
    <3>1. Sta!Update(n, s, items'[n][s]) \in [to: Sta!Server, sid: Sid, row: Sta!Row]
      BY <1>4, <2>2, <2>4
    <3> QED BY <1>1, <1>11, <3>1 DEF Sta!Delete, Sta!Notify, Sta!Send
  <2>6. /\ index' \in [Sta!Server -> [ISSI -> Sid \cup {Sta!NoStation}]]
        /\ \A m \in Sta!Server, i \in ISSI :
              \/ index'[m][i] = Sta!NoStation
              \/ index'[m][i] = index[m][i] /\ (m # n \/ index[m][i] # s)
    BY <1>1, <1>11 DEF Sta!Delete, Sta!Unindexed
  <2>7. Sta!IndexSound'
    <3> SUFFICES ASSUME NEW m \in Sta!Server, NEW i \in ISSI, index'[m][i] # Sta!NoStation
                 PROVE  /\ items'[m][index'[m][i]] # Sta!None
                        /\ items'[m][index'[m][i]].del = 0
                        /\ i \in items'[m][index'[m][i]].owned
      BY DEF Sta!IndexSound, Sta!Live, Sta!Exists
    <3>1. index'[m][i] = index[m][i] /\ (m # n \/ index[m][i] # s) /\ index[m][i] \in Sid
      BY <1>1, <2>6
    <3>2. items'[m][index[m][i]] = items[m][index[m][i]]
      BY <2>4, <3>1
    <3> QED BY <1>1, <3>1, <3>2 DEF Sta!IndexSound, Sta!Live, Sta!Exists
  <2>8. \A m \in Sta!Server, t \in Sid : items'[m][t].seen = items[m][t].seen
    BY <2>2, <2>4
  <2>9. UNCHANGED <<now, copy>> /\ retired' \subseteq Sid
    BY <1>1, <1>11 DEF Sta!Delete
  <2>10. SeenPast' /\ Forward
    BY <1>1, <2>8, <2>9 DEF SeenPast, Forward
  <2> QED BY <1>1, <2>4, <2>5, <2>6, <2>7, <2>9, <2>10 DEF StationInv, Sta!TypeOK
<1>12. ASSUME NEW n \in Sta!Server, NEW s \in Sid, Sta!Heartbeat(n, s) PROVE StationInv' /\ Forward
  <2> DEFINE row == [items[n][s] EXCEPT !.seen = now[n]]
  <2>1. items[n][s] \in Sta!Row
    BY <1>1, <1>12 DEF Sta!Heartbeat, Sta!ByCallsign, Sta!Live, Sta!Exists
  <2>2. /\ row \in Sta!Row /\ row.seen = now[n] /\ row.del = items[n][s].del
        /\ row.owned = items[n][s].owned
    <3>1. now[n] \in 0..StationTime
      BY <1>1
    <3> QED BY <2>1, <3>1 DEF Sta!Row
  <2>3. items' = [items EXCEPT ![n] = [items[n] EXCEPT ![s] = row]]
    BY <1>1, <1>12 DEF Sta!Heartbeat
  <2> HIDE DEF row
  <2>4. /\ items' \in [Sta!Server -> [Sid -> Sta!Row \cup {Sta!None}]]
        /\ items'[n][s] = row
        /\ \A m \in Sta!Server, t \in Sid : (m # n \/ t # s) => items'[m][t] = items[m][t]
    BY <1>1, <2>2, <2>3
  <2>5. UNCHANGED <<now, index, copy, wire, retired>>
    BY <1>12 DEF Sta!Heartbeat
  <2>6. Sta!IndexSound'
    <3> SUFFICES ASSUME NEW m \in Sta!Server, NEW i \in ISSI, index[m][i] # Sta!NoStation
                 PROVE  /\ items'[m][index[m][i]] # Sta!None
                        /\ items'[m][index[m][i]].del = 0
                        /\ i \in items'[m][index[m][i]].owned
      BY <2>5 DEF Sta!IndexSound, Sta!Live, Sta!Exists
    <3>1. /\ index[m][i] \in Sid
          /\ items[m][index[m][i]] # Sta!None
          /\ items[m][index[m][i]].del = 0
          /\ i \in items[m][index[m][i]].owned
      BY <1>1 DEF Sta!IndexSound, Sta!Live, Sta!Exists
    <3>2. CASE m = n /\ index[m][i] = s
      BY <2>2, <2>4, <3>1, <3>2, RowIsSome
    <3>3. CASE m # n \/ index[m][i] # s
      BY <2>4, <3>1, <3>3
    <3> QED BY <3>2, <3>3
  <2>7. /\ \A m \in Sta!Server, t \in Sid : items'[m][t].seen <= now[m]
        /\ \A m \in Sta!Server, t \in Sid : items'[m][t].seen >= items[m][t].seen
    <3> SUFFICES ASSUME NEW m \in Sta!Server, NEW t \in Sid
                 PROVE  items'[m][t].seen <= now[m] /\ items'[m][t].seen >= items[m][t].seen
      OBVIOUS
    <3>1. items[m][t].seen <= now[m] /\ items[m][t].seen \in 0..StationTime /\ now[m] \in 1..StationTime
      BY <1>1 DEF SeenPast
    <3> QED BY <2>2, <2>4, <3>1
  <2> QED BY <1>1, <2>4, <2>5, <2>6, <2>7 DEF StationInv, Sta!TypeOK, SeenPast, Forward
<1>13. ASSUME NEW n \in Sta!Server, Sta!Reap(n) PROVE StationInv' /\ Forward
  <2> DEFINE old == {s \in Sid : items[n][s].del > 0 /\ items[n][s].del + StaleAfter < now[n]}
  <2>1. items' = [items EXCEPT ![n] = [s \in Sid |-> IF s \in old THEN Sta!None ELSE items[n][s]]]
    BY <1>13 DEF Sta!Reap
  <2>2. \A s \in old : s \in Sid /\ ~Sta!Live(n, s)
    BY <1>1 DEF Sta!Live, Sta!Exists, Sta!Row, Sta!None
  <2> HIDE DEF old
  <2>3. /\ items' \in [Sta!Server -> [Sid -> Sta!Row \cup {Sta!None}]]
        /\ \A m \in Sta!Server, t \in Sid :
              items'[m][t] = items[m][t] \/ (items'[m][t] = Sta!None /\ ~Sta!Live(m, t))
    BY <1>1, <2>1, <2>2
  <2>4. UNCHANGED <<now, index, copy, wire, retired>>
    BY <1>13 DEF Sta!Reap
  <2>5. Sta!IndexSound'
    BY <1>1, <2>3, <2>4 DEF Sta!IndexSound, Sta!Live, Sta!Exists
  <2>6. SeenPast'
    <3> SUFFICES ASSUME NEW m \in Sta!Server, NEW t \in Sid PROVE items'[m][t].seen <= now'[m]
      BY DEF SeenPast
    <3>1. items[m][t].seen <= now[m] /\ now'[m] \in 1..StationTime /\ now' = now
      BY <1>1, <2>4 DEF SeenPast
    <3> QED BY <2>3, <3>1 DEF Sta!None
  <2>7. Forward
    BY <1>1, <2>3, <2>4 DEF SeenPast, Forward
  <2> QED BY <1>1, <2>3, <2>4, <2>5, <2>6, <2>7 DEF StationInv, Sta!TypeOK
<1>14. ASSUME NEW n \in Sta!Server, NEW i \in ISSI, NEW s \in Sid, Sta!LinkRead(n, i, s)
       PROVE  StationInv' /\ Forward
  <2>1. items[n][s] \in Sta!Row
    BY <1>1, <1>14 DEF Sta!LinkRead, Sta!ByCallsign, Sta!Live, Sta!Exists
  <2>2. [items[n][s] EXCEPT !.owned = items[n][s].owned \cup {i}] \in Sta!Row
    BY <2>1 DEF Sta!Row
  <2>3. copy' \in [Sta!Server -> [sid: Sid, row: Sta!Row] \cup {Sta!NoCopy}]
    BY <1>1, <1>14, <2>2 DEF Sta!LinkRead
  <2> QED BY <1>1, <1>2, <1>14, <2>3 DEF Sta!LinkRead
<1>15. ASSUME NEW n \in Sta!Server, NEW s \in Sid, Sta!Sync(n, s) PROVE StationInv' /\ Forward
  <2>1. items[n][s] \in Sta!Row
    BY <1>1, <1>15 DEF Sta!Sync, Sta!Synced, Sta!Exists
  <2>2. wire' \subseteq [to: Sta!Server, sid: Sid, row: Sta!Row]
    BY <1>1, <1>4, <1>15, <2>1 DEF Sta!Sync, Sta!Send
  <2> QED BY <1>1, <1>2, <1>15, <2>2 DEF Sta!Sync
<1>16. ASSUME NEW n \in Sta!Server, Sta!Restart(n) PROVE StationInv' /\ Forward
  <2> DEFINE owners(i) == {s \in Sid : Sta!Live(n, s) /\ i \in items[n][s].owned}
  <2>1. PICK f \in [ISSI -> Sid \cup {Sta!NoStation}] :
           /\ \A i \in ISSI : f[i] = Sta!NoStation \/ f[i] \in owners(i)
           /\ index' = [index EXCEPT ![n] = f]
    BY <1>16 DEF Sta!Restart
  <2>2. UNCHANGED <<now, items, wire, retired>> /\ copy' = [copy EXCEPT ![n] = Sta!NoCopy]
    BY <1>16 DEF Sta!Restart
  <2>3. index' \in [Sta!Server -> [ISSI -> Sid \cup {Sta!NoStation}]]
    BY <1>1, <2>1
  <2>4. Sta!IndexSound'
    BY <1>1, <2>1, <2>2, <2>3 DEF Sta!IndexSound, Sta!Live, Sta!Exists
  <2>5. SeenPast' /\ Forward
    BY <1>1, <2>2 DEF SeenPast, Forward
  <2>6. copy' \in [Sta!Server -> [sid: Sid, row: Sta!Row] \cup {Sta!NoCopy}]
    BY <1>1, <2>2
  <2> QED BY <1>1, <2>2, <2>3, <2>4, <2>5, <2>6 DEF StationInv, Sta!TypeOK
<1>17. ASSUME NEW n \in Sta!Server, Sta!Tick(n) PROVE StationInv' /\ Forward
  <2>1. /\ now' \in [Sta!Server -> 1..StationTime]
        /\ \A m \in Sta!Server : now'[m] >= now[m]
        /\ UNCHANGED <<items, index, copy, wire, retired>>
    BY <1>1, <1>17 DEF Sta!Tick
  <2> QED BY <1>1, <2>1 DEF StationInv, Sta!TypeOK, Sta!IndexSound, Sta!Live, Sta!Exists, SeenPast,
                            Forward
<1>18. CASE UNCHANGED Sta!vars
  BY <1>1, <1>2, <1>18 DEF Sta!vars
<1> QED
  BY <1>6, <1>7, <1>8, <1>9, <1>10, <1>11, <1>12, <1>13, <1>14, <1>15, <1>16, <1>17, <1>18
     DEF Sta!Next

\* For any number of stations and radios, any mix of pushes, deletes, reloads and
\* late or lost updates: byISSI never names a station that is gone, deleted or does
\* not own the radio, and no update takes last_seen back or ahead of the clock
\* (stations.go Upsert, Delete, Reap, LinkOrCreate, load).
THEOREM StationsAlwaysSound ==
    ASSUME Sta!StationConstants
    PROVE  Sta!Spec => StationsSound
<1>1. Sta!Init => StationInv
  BY DEF Sta!StationConstants, Sta!Init, StationInv, Sta!TypeOK, Sta!IndexSound, SeenPast, Sta!None
<1>2. StationInv /\ [Sta!Next]_(Sta!vars) => StationInv'
  BY StationStep
<1>3. StationInv /\ [Sta!Next]_(Sta!vars)
      => [\A n \in Sta!Server, s \in Sid : Sta!Exists(n, s) /\ items'[n][s] # Sta!None =>
             /\ items'[n][s].seen >= items[n][s].seen
             /\ items'[n][s].seen <= now'[n]]_(Sta!vars)
  BY StationStep DEF Forward
<1>4. StationInv => Sta!TypeOK /\ Sta!IndexSound
  BY DEF StationInv
<1> QED BY <1>1, <1>2, <1>3, <1>4, PTL DEF Sta!Spec, StationsSound, Sta!SeenForward
=============================================================================
