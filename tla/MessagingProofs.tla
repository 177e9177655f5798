--------------------------- MODULE MessagingProofs ---------------------------
(***************************************************************************)
(* Proofs about short data messages: the routes they are given, for any    *)
(* number of radios, base stations, endpoints and groups; the buffers they *)
(* and other events are read from, for any size; the bytes they are sent   *)
(* as, for every call-out and every text; the threads of call-outs, for    *)
(* any number of operators and radios; and the packets of the protocol,    *)
(* for whatever bytes they hold and however many servers they pass.        *)
(***************************************************************************)
EXTENDS ServerParts, Integers, Sequences, FiniteSets, SequenceTheorems, WellFoundedInduction, TLAPS

-----------------------------------------------------------------------------
(* Route hints                                                             *)

\* A hint has a destination, or there is none.
Noted == [dest : Sds!Dest, updated : 0..HintTime] \cup {Sds!NoHint}

\* What a read loop may be working on; a hint it is about to remove was too old
\* when it was read and has not become younger.
TaskOK(c) ==
    \/ task[c].at \in {"idle", "infer"}
    \/ /\ task[c].at = "expire"
       /\ task[c].old \in Noted
       /\ hour - task[c].old.updated > HintTTL
    \/ /\ task[c].at = "route"
       /\ task[c].src \in Radios
       /\ task[c].dest \in Sds!Dest

RoutingInv ==
    /\ hour \in 0..HintTime
    /\ hint \in [Radios -> Noted]
    /\ attached \subseteq Session
    /\ virtual \subseteq Endpoints
    /\ DOMAIN task = Session
    /\ \A c \in Session : TaskOK(c)

\* What one step may not do.
Keeps == \A r \in Radios : Sds!Fresh(hint[r]) => hint'[r] # Sds!NoHint

\* A step that only gives one loop a new task.
LEMMA TaskStep ==
    ASSUME Sds!RoutingConstants, RoutingInv, NEW c \in Session, NEW t,
           Sds!Goto(c, t), UNCHANGED <<hour, hint, attached, virtual>>,
           \/ t.at \in {"idle", "infer"}
           \/ t.at = "expire" /\ t.old \in Noted /\ hour - t.old.updated > HintTTL
           \/ t.at = "route" /\ t.src \in Radios /\ t.dest \in Sds!Dest
    PROVE  RoutingInv' /\ Keeps
<1>1. /\ DOMAIN task' = Session /\ task'[c] = t
      /\ \A d \in Session \ {c} : task'[d] = task[d]
  BY DEF RoutingInv, Sds!Goto
<1>2. \A d \in Session : TaskOK(d)'
  BY <1>1 DEF RoutingInv, TaskOK
<1>3. RoutingInv'
  BY <1>1, <1>2 DEF RoutingInv
<1>4. Keeps
  BY DEF Keeps, Sds!Fresh
<1> QED BY <1>3, <1>4

\* Every step keeps the invariant and every hint that is not too old.
LEMMA RoutingStep ==
    ASSUME Sds!RoutingConstants, RoutingInv, [Sds!Next]_(Sds!vars)
    PROVE  RoutingInv' /\ Keeps
<1>1. ASSUME Sds!Tick PROVE RoutingInv' /\ Keeps
  <2>1. hour \in 0..HintTime /\ hour' \in 0..HintTime /\ hour' = hour + 1
    BY <1>1 DEF Sds!Tick, RoutingInv, Sds!RoutingConstants
  <2>2. UNCHANGED <<hint, attached, virtual, task>>
    BY <1>1 DEF Sds!Tick
  <2>3. ASSUME NEW c \in Session PROVE TaskOK(c)'
    <3>1. TaskOK(c)
      BY DEF RoutingInv
    <3> QED BY <2>1, <2>2, <3>1 DEF TaskOK, Noted, Sds!NoHint, Sds!RoutingConstants
  <2>4. Keeps
    BY <2>2 DEF Keeps, Sds!Fresh
  <2> QED BY <2>1, <2>2, <2>3, <2>4 DEF RoutingInv
<1>2. ASSUME NEW c \in Session, Sds!Attach(c) PROVE RoutingInv' /\ Keeps
  BY <1>2 DEF Sds!Attach, RoutingInv, TaskOK, Keeps, Sds!Fresh
<1>3. ASSUME NEW e \in Endpoints, Sds!Endpoint(e) PROVE RoutingInv' /\ Keeps
  BY <1>3 DEF Sds!Endpoint, RoutingInv, TaskOK, Keeps, Sds!Fresh
<1>4. ASSUME NEW c \in Session, NEW d \in Sds!Dest, Sds!Addressed(c, d) PROVE RoutingInv' /\ Keeps
  BY <1>4, TaskStep DEF Sds!Addressed, Sds!RoutingConstants
<1>5. ASSUME NEW c \in Session, Sds!Bare(c) PROVE RoutingInv' /\ Keeps
  <2> DEFINE h == hint[Alias[c]]
  <2>1. Alias[c] \in Radios /\ h \in Noted /\ hour \in 0..HintTime /\ h.updated \in 0..HintTime
    BY DEF RoutingInv, Sds!RoutingConstants, Noted, Sds!NoHint
  <2>2. UNCHANGED <<hour, hint, attached, virtual>>
    BY <1>5 DEF Sds!Bare
  <2>3. CASE Sds!Fresh(h)
    <3>1. h.dest \in Sds!Dest
      BY <2>1, <2>3 DEF Sds!Fresh, Noted, Sds!NoHint, Sds!RoutingConstants
    <3>2. Sds!Goto(c, [at |-> "route", src |-> Alias[c], dest |-> h.dest])
      BY <1>5, <2>3 DEF Sds!Bare
    <3> QED BY <2>1, <2>2, <3>1, <3>2, TaskStep
  <2>4. CASE h = Sds!NoHint
    <3>1. Sds!Goto(c, [at |-> "infer"])
      BY <1>5, <2>4 DEF Sds!Bare, Sds!Fresh
    <3> QED BY <2>2, <3>1, TaskStep
  <2>5. CASE ~Sds!Fresh(h) /\ h # Sds!NoHint
    <3>1. hour - h.updated > HintTTL
      BY <2>1, <2>5 DEF Sds!Fresh, Sds!RoutingConstants
    <3>2. Sds!Goto(c, [at |-> "expire", old |-> h])
      BY <1>5, <2>5 DEF Sds!Bare
    <3> QED BY <2>1, <2>2, <3>1, <3>2, TaskStep
  <2> QED BY <2>3, <2>4, <2>5
<1>6. ASSUME NEW c \in Session, Sds!Infer(c) PROVE RoutingInv' /\ Keeps
  <2>1. UNCHANGED <<hour, hint, attached, virtual>>
    BY <1>6 DEF Sds!Infer
  <2>2. Sds!Candidates(c) \subseteq Sds!Dest
    <3>1. /\ virtual \subseteq Sds!Dest /\ Groups \subseteq Sds!Dest
          /\ {Alias[d] : d \in attached} \ {Alias[c]} \subseteq Sds!Dest
      BY DEF RoutingInv, Sds!RoutingConstants, Sds!Dest
    <3>2. ASSUME NEW d \in Sds!Candidates(c) PROVE d \in Sds!Dest
      <4> DEFINE kinds == <<virtual, {Alias[f] : f \in attached} \ {Alias[c]}, Groups>>
      <4>1. \E i \in 1..3 : d \in kinds[i]
        BY <3>2 DEF Sds!Candidates, Sds!Preferred
      <4> QED BY <3>1, <4>1
    <3> QED BY <3>2
  <2>3. Alias[c] \in Radios
    BY DEF Sds!RoutingConstants
  <2>4. CASE Sds!Goto(c, Sds!Idle)
    BY <2>1, <2>4, TaskStep DEF Sds!Idle
  <2>5. ASSUME NEW d \in Sds!Candidates(c), Sds!Goto(c, [at |-> "route", src |-> Alias[c], dest |-> d])
        PROVE  RoutingInv' /\ Keeps
    BY <2>1, <2>2, <2>3, <2>5, TaskStep
  <2> QED BY <1>6, <2>4, <2>5 DEF Sds!Infer
<1>7. ASSUME NEW c \in Session, Sds!Expire(c) PROVE RoutingInv' /\ Keeps
  <2> DEFINE r == Alias[c]
             old == task[c].old
  <2>1. /\ r \in Radios /\ old \in Noted /\ hour - old.updated > HintTTL
        /\ UNCHANGED <<hour, attached, virtual>> /\ Sds!Goto(c, [at |-> "infer"])
        /\ hint' = [hint EXCEPT ![r] = Sds!AfterExpiry(old, hint[r])]
    BY <1>7 DEF Sds!Expire, RoutingInv, TaskOK, Sds!RoutingConstants
  <2>2. hint[r] \in Noted /\ Sds!NoHint \in Noted /\ hint \in [Radios -> Noted] /\ hour \in 0..HintTime
    BY <2>1 DEF RoutingInv, Noted, Sds!NoHint, Sds!RoutingConstants
  <2> HIDE DEF r, old
  <2>3. hint' \in [Radios -> Noted]
    BY <2>1, <2>2 DEF Sds!AfterExpiry
  <2>4. Keeps
    <3>1. hint[r] = old => ~Sds!Fresh(hint[r])
      BY <2>1, <2>2 DEF Sds!Fresh, Noted, Sds!NoHint, Sds!RoutingConstants
    <3>2. Sds!Fresh(hint[r]) => hint'[r] # Sds!NoHint
      BY <2>1, <2>2, <3>1 DEF Sds!AfterExpiry, Sds!Fresh
    <3>3. \A q \in Radios : q # r => hint'[q] = hint[q]
      BY <2>1, <2>2
    <3> QED BY <3>2, <3>3 DEF Keeps, Sds!Fresh
  <2>5. /\ DOMAIN task' = Session /\ task'[c] = [at |-> "infer"]
        /\ \A d \in Session \ {c} : task'[d] = task[d]
    BY <2>1 DEF RoutingInv, Sds!Goto
  <2>6. \A d \in Session : TaskOK(d)'
    BY <2>1, <2>5 DEF RoutingInv, TaskOK
  <2> QED BY <2>1, <2>3, <2>4, <2>5, <2>6 DEF RoutingInv
<1>8. ASSUME NEW c \in Session, Sds!Route(c) PROVE RoutingInv' /\ Keeps
  <2> DEFINE r == task[c].src
             h == [dest |-> task[c].dest, updated |-> hour]
  <2>1. /\ r \in Radios /\ task[c].dest \in Sds!Dest /\ hour \in 0..HintTime
        /\ UNCHANGED <<hour, attached, virtual>> /\ Sds!Goto(c, Sds!Idle)
        /\ hint' = [hint EXCEPT ![r] = h]
    BY <1>8 DEF Sds!Route, RoutingInv, TaskOK
  <2>2. h \in Noted /\ h # Sds!NoHint /\ hint \in [Radios -> Noted]
    BY <2>1 DEF RoutingInv, Noted, Sds!NoHint, Sds!Dest, Sds!RoutingConstants
  <2> HIDE DEF r, h
  <2>3. hint' \in [Radios -> Noted] /\ hint'[r] = h /\ \A q \in Radios : q # r => hint'[q] = hint[q]
    BY <2>1, <2>2
  <2>4. Keeps
    BY <2>2, <2>3 DEF Keeps, Sds!Fresh
  <2>5. /\ DOMAIN task' = Session /\ task'[c] = Sds!Idle
        /\ \A d \in Session \ {c} : task'[d] = task[d]
    BY <2>1 DEF RoutingInv, Sds!Goto
  <2>6. \A d \in Session : TaskOK(d)'
    BY <2>1, <2>5 DEF RoutingInv, TaskOK, Sds!Idle
  <2> QED BY <2>1, <2>3, <2>4, <2>5, <2>6 DEF RoutingInv
<1>9. CASE UNCHANGED Sds!vars
  BY <1>9 DEF Sds!vars, RoutingInv, TaskOK, Keeps, Sds!Fresh
<1> QED BY <1>1, <1>2, <1>3, <1>4, <1>5, <1>6, <1>7, <1>8, <1>9 DEF Sds!Next

\* No loop that found a hint too old removes the newer one another loop has put in
\* its place since: a hint that is not too old is never removed (sdsRouteHint,
\* rememberSDSRouteHint).
THEOREM FreshHintsKept ==
    ASSUME Sds!RoutingConstants
    PROVE  Sds!Spec => FreshHintKept
<1>1. Sds!Init => RoutingInv
  BY DEF Sds!Init, RoutingInv, TaskOK, Sds!Idle, Noted, Sds!NoHint, Sds!RoutingConstants
<1>2. RoutingInv /\ [Sds!Next]_(Sds!vars) => RoutingInv'
  BY RoutingStep
<1>3. RoutingInv /\ [Sds!Next]_(Sds!vars)
      => [\A r \in Radios : Sds!Fresh(hint[r]) => hint'[r] # Sds!NoHint]_(Sds!vars)
  BY RoutingStep DEF Keeps
<1>4. RoutingInv => Sds!TypeOK
  BY DEF RoutingInv, Sds!TypeOK, TaskOK, Noted, Sds!Hint, Sds!NoHint, Sds!RoutingConstants
<1> QED BY <1>1, <1>2, <1>3, <1>4, PTL DEF Sds!Spec, FreshHintKept, Sds!FreshHintKept

-----------------------------------------------------------------------------
(* Polled buffers                                                          *)

\* A set of numbers that is not empty has a least element.
LEMMA Least ==
    ASSUME NEW S \in SUBSET Nat, S # {}
    PROVE  \E n \in S : \A m \in S : n <= m
<1>1. PICK x \in S : \A y \in S : ~ (<<y, x>> \in OpToRel(<, Nat))
  BY NatLessThanWellFounded, WFMin
<1>2. \A y \in S : ~(y < x)
  BY <1>1 DEF OpToRel
<1> QED BY <1>2

\* Messages and activities stand in the order of their numbers.
Sorted == \A i, j \in 1..Len(log) : i < j => log[i] < log[j]

\* The numbers in a buffer, the reader's and those taken out are numbers that were
\* given out.
LogInv ==
    /\ log \in Seq(Buf!Event) /\ Len(log) <= (IF which = "mailbox" THEN BoxMax ELSE RingMax)
    /\ logged \in 0..MaxEvents
    /\ page \in [at : {"idle", "read"}, since : 0..logged, last : 0..logged]
    /\ seen \subseteq Buf!Event
    /\ taken \subseteq 1..logged
    /\ \A i \in 1..Len(log) : log[i] <= logged
    /\ Sorted
    /\ Buf!NothingMissed /\ Buf!ConsumedOnce

\* The last n elements of a sequence.
LEMMA LatestFacts ==
    ASSUME NEW S, NEW s \in Seq(S), NEW n \in Nat \ {0}
    PROVE  /\ Buf!Latest(s, n) \in Seq(S)
           /\ Len(Buf!Latest(s, n)) = IF Len(s) > n THEN n ELSE Len(s)
           /\ \A i \in 1..Len(Buf!Latest(s, n)) :
                 Buf!Latest(s, n)[i] = s[i + Len(s) - Len(Buf!Latest(s, n))]
<1>1. CASE Len(s) > n
  <2>1. Buf!Latest(s, n) = SubSeq(s, Len(s) - n + 1, Len(s))
    BY <1>1 DEF Buf!Latest
  <2>2. /\ Len(s) \in Nat /\ Len(s) - n + 1 \in 1..Len(s) /\ Len(s) - (Len(s) - n + 1) + 1 = n
        /\ \A i \in 1..Len(s) : s[i] \in S
        /\ \A i \in 1..n : Len(s) - n + 1 + i - 1 = i + Len(s) - n
    BY <1>1
  <2> DEFINE start == Len(s) - n + 1
  <2>3. /\ SubSeq(s, start, Len(s)) \in Seq(S)
        /\ Len(SubSeq(s, start, Len(s))) = n
        /\ \A i \in 1..n : SubSeq(s, start, Len(s))[i] = s[start + i - 1]
    <3>1. start \in Int /\ Len(s) \in Int /\ \A i \in start..Len(s) : s[i] \in S
      BY <2>2
    <3>2. start <= Len(s) /\ Len(s) - start + 1 = n
      BY <2>2
    <3> HIDE DEF start
    <3> QED BY <3>1, <3>2, SubSeqProperties
  <2>4. \A i \in 1..n : SubSeq(s, start, Len(s))[i] = s[i + Len(s) - n]
    BY <2>2, <2>3
  <2> HIDE DEF start
  <2> QED BY <1>1, <2>1, <2>3, <2>4 DEF start
<1>2. CASE ~(Len(s) > n)
  BY <1>2 DEF Buf!Latest
<1> QED BY <1>1, <1>2

\* Before finds the place where the newer ones begin.
LEMMA BeforeSplits ==
    ASSUME Buf!BufferConstants, LogInv, NEW since \in Nat
    PROVE  /\ Buf!Before(since) \in 0..Len(log)
           /\ \A i \in 1..Len(log) : i <= Buf!Before(since) <=> log[i] <= since
<1> DEFINE P(n) == \A i \in 1..Len(log) : i <= n <=> log[i] <= since
           S == {i \in 1..Len(log) : log[i] > since}
<1>1. log \in Seq(Buf!Event) /\ Len(log) \in Nat /\ \A i \in 1..Len(log) : log[i] \in Nat
  BY DEF LogInv, Buf!BufferConstants, Buf!Event
<1>2. \E n \in 0..Len(log) : P(n)
  <2>1. CASE S = {}
    <3>1. P(Len(log)) /\ Len(log) \in 0..Len(log)
      BY <1>1, <2>1
    <3> HIDE DEF P
    <3> QED BY <3>1
  <2>2. CASE S # {}
    <3> S \in SUBSET Nat
      BY <1>1
    <3>1. PICK k \in S : \A m \in S : k <= m
      <4> HIDE DEF S
      <4> QED BY <2>2, Least
    <3>2. P(k - 1)
      BY <1>1, <3>1 DEF LogInv, Sorted
    <3>3. k - 1 \in 0..Len(log)
      BY <1>1, <3>1
    <3> HIDE DEF P
    <3> QED BY <3>2, <3>3
  <2> QED BY <2>1, <2>2
<1>3. Buf!Before(since) = CHOOSE n \in 0..Len(log) : P(n)
  BY DEF Buf!Before
<1> QED BY <1>2, <1>3

\* Recording puts a new number behind the others and drops the oldest.
LEMMA RecordStep ==
    ASSUME Buf!BufferConstants, LogInv, NEW n \in Nat \ {0},
           n = (IF which = "mailbox" THEN BoxMax ELSE RingMax),
           logged < MaxEvents, logged' = logged + 1,
           log' = Buf!Latest(Append(log, logged + 1), n),
           UNCHANGED <<which, page, seen, taken>>
    PROVE  LogInv'
<1> DEFINE s == Append(log, logged + 1)
<1>1. /\ log \in Seq(Buf!Event) /\ logged \in 0..MaxEvents /\ logged + 1 \in Buf!Event
      /\ s \in Seq(Buf!Event) /\ Len(s) = Len(log) + 1 /\ s[Len(log) + 1] = logged + 1
      /\ \A i \in 1..Len(log) : s[i] = log[i]
      /\ Len(log) \in Nat /\ Len(s) \in Nat
  <2>1. logged + 1 \in Buf!Event /\ log \in Seq(Buf!Event) /\ logged \in 0..MaxEvents
    BY DEF LogInv, Buf!BufferConstants, Buf!Event
  <2> QED BY <2>1
<1> HIDE DEF s
<1>2. /\ log' \in Seq(Buf!Event) /\ Len(log') <= n /\ Len(log') <= Len(s) /\ Len(log') \in Nat
      /\ \A i \in 1..Len(log') : log'[i] = s[i + Len(s) - Len(log')]
  <2> DEFINE t == Buf!Latest(s, n)
  <2>1. /\ t \in Seq(Buf!Event) /\ Len(t) = IF Len(s) > n THEN n ELSE Len(s)
        /\ \A i \in 1..Len(t) : t[i] = s[i + Len(s) - Len(t)]
    BY <1>1, LatestFacts
  <2>2. log' = t
    BY DEF s
  <2> HIDE DEF t
  <2>3. Len(t) \in Nat /\ Len(t) <= n /\ Len(t) <= Len(s)
    BY <1>1, <2>1
  <2> QED BY <2>1, <2>2, <2>3
<1>3. \A i \in 1..Len(s) : s[i] <= logged + 1 /\ (i <= Len(log) => s[i] <= logged)
  <2>1. \A i \in 1..Len(log) : log[i] <= logged /\ log[i] \in Nat
    <3>1. Buf!Event \subseteq Nat
      BY DEF Buf!BufferConstants, Buf!Event
    <3>2. \A i \in 1..Len(log) : log[i] \in Buf!Event
      BY <1>1
    <3>3. \A i \in 1..Len(log) : log[i] <= logged
      BY DEF LogInv
    <3> QED BY <3>1, <3>2, <3>3
  <2>2. \A i \in 1..Len(s) : i \in 1..Len(log) \/ i = Len(log) + 1
    BY <1>1
  <2> QED BY <1>1, <2>1, <2>2
<1>4. \A i, j \in 1..Len(s) : i < j => s[i] < s[j]
  <2> SUFFICES ASSUME NEW i \in 1..Len(s), NEW j \in 1..Len(s), i < j PROVE s[i] < s[j]
    OBVIOUS
  <2>1. i \in 1..Len(log)
    BY <1>1
  <2>2. CASE j \in 1..Len(log)
    BY <1>1, <2>1, <2>2 DEF LogInv, Sorted
  <2>3. CASE j = Len(log) + 1
    <3>1. s[i] <= logged /\ s[j] = logged + 1 /\ s[i] \in Buf!Event
      BY <1>1, <1>3, <2>1, <2>3
    <3> QED BY <1>1, <3>1 DEF Buf!Event, Buf!BufferConstants
  <2> QED BY <1>1, <2>2, <2>3
<1>5. \A i \in 1..Len(log') : i + Len(s) - Len(log') \in 1..Len(s)
  BY <1>1, <1>2
<1>6. Sorted'
  <2> SUFFICES ASSUME NEW i \in 1..Len(log'), NEW j \in 1..Len(log'), i < j PROVE log'[i] < log'[j]
    BY DEF Sorted
  <2>1. i + Len(s) - Len(log') < j + Len(s) - Len(log')
    BY <1>1, <1>2
  <2> QED BY <1>2, <1>4, <1>5, <2>1
<1>7. \A i \in 1..Len(log') : log'[i] <= logged'
  BY <1>2, <1>3, <1>5
<1>8. \A i \in 1..Len(s) : /\ s[i] <= page.since => s[i] \in seen
                           /\ s[i] \notin taken
  BY <1>1 DEF LogInv, Buf!NothingMissed, Buf!ConsumedOnce
<1>9. Buf!NothingMissed' /\ Buf!ConsumedOnce'
  BY <1>2, <1>5, <1>8 DEF Buf!NothingMissed, Buf!ConsumedOnce
<1>10. page' \in [at : {"idle", "read"}, since : 0..logged', last : 0..logged']
  BY <1>1 DEF LogInv
<1>11. logged' \in 0..MaxEvents /\ taken' \subseteq 1..logged' /\ seen' \subseteq Buf!Event
  BY <1>1 DEF LogInv, Buf!BufferConstants
<1>12. Len(log') <= (IF which' = "mailbox" THEN BoxMax ELSE RingMax)
  BY <1>2
<1> QED BY <1>2, <1>6, <1>7, <1>9, <1>10, <1>11, <1>12 DEF LogInv

\* A sequence without the stretch from b + 1 to l.
Cut(s, b, l) == SubSeq(s, 1, b) \o SubSeq(s, l + 1, Len(s))

\* Where its elements come from.
LEMMA CutFacts ==
    ASSUME NEW S, NEW s \in Seq(S), NEW b \in Nat, NEW l \in Nat, b <= l, l <= Len(s)
    PROVE  /\ Cut(s, b, l) \in Seq(S) /\ Len(Cut(s, b, l)) = Len(s) - (l - b)
           /\ \A i \in 1..Len(Cut(s, b, l)) :
                 Cut(s, b, l)[i] = IF i <= b THEN s[i] ELSE s[i + (l - b)]
<1> DEFINE u == SubSeq(s, 1, b)
           v == SubSeq(s, l + 1, Len(s))
           t == u \o v
<1>1. u \in Seq(S) /\ Len(u) = b /\ \A i \in 1..b : u[i] = s[i]
  OBVIOUS
<1>2. /\ v \in Seq(S) /\ Len(v) = Len(s) - l
      /\ \A i \in 1..Len(s) - l : v[i] = s[i + l]
  OBVIOUS
<1> HIDE DEF u, v
<1>3. t \in Seq(S) /\ Len(t) = Len(u) + Len(v)
  BY <1>1, <1>2, ConcatProperties
<1>4. \A i \in 1..Len(t) : t[i] = IF i <= Len(u) THEN u[i] ELSE v[i - Len(u)]
  BY <1>1, <1>2
<1>5. ASSUME NEW i \in 1..Len(t) PROVE t[i] = IF i <= b THEN s[i] ELSE s[i + (l - b)]
  <2>1. CASE i <= b
    BY <1>1, <1>4, <2>1
  <2>2. CASE i > b
    <3>1. t[i] = v[i - b] /\ i - b \in 1..Len(s) - l /\ (i - b) + l = i + (l - b)
      BY <1>1, <1>2, <1>3, <1>4, <2>2
    <3> QED BY <1>2, <2>2, <3>1
  <2> QED BY <1>1, <2>1, <2>2
<1> HIDE DEF t
<1>6. t \in Seq(S) /\ Len(t) = Len(s) - (l - b)
  BY <1>1, <1>2, <1>3
<1>7. t = Cut(s, b, l)
  BY DEF t, u, v, Cut
<1> QED BY <1>5, <1>6, <1>7

\* Consuming hands out a stretch of the messages and keeps those around it.
LEMMA ConsumeStep ==
    ASSUME Buf!BufferConstants, LogInv, NEW since \in 0..MaxEvents, NEW limit \in Nat,
           Buf!ConsumeMessages(since, limit)
    PROVE  LogInv'
<1> DEFINE b == Buf!Before(since)
           l == Buf!LastOf(since, limit)
<1>1. /\ log \in Seq(Buf!Event) /\ Len(log) \in Nat /\ b \in 0..Len(log)
      /\ \A i \in 1..Len(log) : log[i] \in Nat
  <2>1. since \in Nat
    BY DEF Buf!BufferConstants
  <2>2. b \in 0..Len(log)
    BY <2>1, BeforeSplits
  <2>3. log \in Seq(Buf!Event) /\ \A i \in 1..Len(log) : log[i] \in Buf!Event
    BY DEF LogInv
  <2> QED BY <2>2, <2>3 DEF Buf!Event, Buf!BufferConstants
<1>2. l \in Nat /\ b \in Nat /\ b <= l /\ l <= Len(log)
  BY <1>1 DEF Buf!LastOf
<1>3. /\ taken' = taken \cup {log[i] : i \in b + 1..l}
      /\ log' = SubSeq(log, 1, b) \o SubSeq(log, l + 1, Len(log))
      /\ UNCHANGED <<which, logged, page, seen>>
  BY DEF Buf!ConsumeMessages, Buf!Messages
<1> HIDE DEF b, l
<1>6. /\ log' \in Seq(Buf!Event) /\ Len(log') = Len(log) - (l - b)
      /\ \A i \in 1..Len(log') : log'[i] = IF i <= b THEN log[i] ELSE log[i + (l - b)]
  <2> DEFINE t == Cut(log, b, l)
  <2>1. /\ t \in Seq(Buf!Event) /\ Len(t) = Len(log) - (l - b)
        /\ \A i \in 1..Len(t) : t[i] = IF i <= b THEN log[i] ELSE log[i + (l - b)]
    BY <1>1, <1>2, CutFacts
  <2>2. log' = t
    BY <1>3 DEF Cut
  <2> HIDE DEF t
  <2> QED BY <2>1, <2>2
\* Where an element that stays stood before.
<1> DEFINE was(i) == IF i <= b THEN i ELSE i + (l - b)
<1>4. \A i \in 1..Len(log') : /\ was(i) \in 1..Len(log) /\ log'[i] = log[was(i)]
                              /\ (was(i) <= b \/ was(i) > l)
  BY <1>1, <1>2, <1>6
<1>5. \A i, j \in 1..Len(log') : i < j => was(i) < was(j)
  BY <1>1, <1>2, <1>6
<1> HIDE DEF was
<1>7. Sorted'
  BY <1>4, <1>5 DEF LogInv, Sorted
<1>8. \A i \in 1..Len(log') : log'[i] <= logged'
  BY <1>3, <1>4 DEF LogInv
<1>9. Buf!NothingMissed'
  BY <1>3, <1>4 DEF LogInv, Buf!NothingMissed
<1>10. Buf!ConsumedOnce'
  <2> SUFFICES ASSUME NEW i \in 1..Len(log') PROVE log'[i] \notin taken'
    BY DEF Buf!ConsumedOnce
  <2> DEFINE k == was(i)
  <2>1. k \in 1..Len(log) /\ log'[i] = log[k] /\ (k <= b \/ k > l)
    BY <1>4
  <2> HIDE DEF k
  <2>2. log[k] \notin taken
    BY <2>1 DEF LogInv, Buf!ConsumedOnce
  <2>3. \A j \in b + 1..l : log[j] # log[k]
    <3> SUFFICES ASSUME NEW j \in b + 1..l PROVE log[j] # log[k]
      OBVIOUS
    <3>1. j \in 1..Len(log) /\ (j < k \/ k < j) /\ log[j] \in Nat /\ log[k] \in Nat
      BY <1>1, <1>2, <2>1
    <3> QED BY <2>1, <3>1 DEF LogInv, Sorted
  <2> QED BY <1>3, <2>1, <2>2, <2>3
<1>11. taken' \subseteq 1..logged
  <2>1. \A i \in b + 1..l : log[i] \in 1..logged
    <3> SUFFICES ASSUME NEW i \in b + 1..l PROVE log[i] \in 1..logged
      OBVIOUS
    <3>1. i \in 1..Len(log)
      BY <1>1, <1>2
    <3>2. log[i] \in Buf!Event /\ log[i] <= logged /\ logged \in Nat
      BY <1>1, <3>1 DEF LogInv
    <3> QED BY <3>2 DEF Buf!Event, Buf!BufferConstants
  <2> QED BY <1>3, <2>1 DEF LogInv
<1>12. Len(log') <= (IF which' = "mailbox" THEN BoxMax ELSE RingMax)
  <2>1. Len(log') <= Len(log) /\ Len(log') \in Nat
    BY <1>1, <1>2, <1>6
  <2>2. Len(log) <= (IF which = "mailbox" THEN BoxMax ELSE RingMax)
    BY DEF LogInv
  <2> HIDE DEF b, l
  <2>5. which' = which /\ Len(log) \in Nat
    BY <1>1, <1>3
  <2>3. CASE which = "mailbox"
    BY <2>1, <2>2, <2>3, <2>5 DEF Buf!BufferConstants
  <2>4. CASE which # "mailbox"
    BY <2>1, <2>2, <2>4, <2>5 DEF Buf!BufferConstants
  <2> QED BY <2>3, <2>4
<1> QED BY <1>3, <1>6, <1>7, <1>8, <1>9, <1>10, <1>11, <1>12 DEF LogInv

\* A reader's step that brings it from since to last brings it what is between.
LEMMA ReadStep ==
    ASSUME Buf!BufferConstants, LogInv, NEW last \in 0..logged, NEW got \in SUBSET Buf!Event,
           \A i \in 1..Len(log) : log[i] > page.since /\ log[i] <= last => log[i] \in got,
           seen' = seen \cup got, page'.since = last,
           page' \in [at : {"idle", "read"}, since : 0..logged, last : 0..logged],
           UNCHANGED <<which, log, logged, taken>>
    PROVE  LogInv'
<1>2. \A i \in 1..Len(log) : log[i] \in Nat /\ page.since \in Nat
  BY DEF LogInv, Buf!BufferConstants, Buf!Event
<1>3. Buf!NothingMissed'
  BY <1>2 DEF LogInv, Buf!NothingMissed
<1> QED BY <1>3 DEF LogInv, Sorted, Buf!ConsumedOnce

\* Every step on the activity ring or on a mailbox keeps their invariant.
LEMMA LogStep ==
    ASSUME Buf!BufferConstants, LogInv,
           \/ Buf!RecordActivity \/ Buf!SnapshotSeq \/ Buf!SnapshotRead
           \/ Buf!StoreMessage \/ Buf!DeleteEndpoint \/ Buf!CreateEndpoint
           \/ \E limit \in 1..BoxMax :
                 Buf!ReadMessages(limit) \/ \E since \in 0..MaxEvents : Buf!ConsumeMessages(since, limit)
    PROVE  LogInv'
<1>0. /\ logged \in Nat /\ logged \in 0..MaxEvents /\ log \in Seq(Buf!Event) /\ Len(log) \in Nat
      /\ page.since \in 0..logged /\ page.last \in 0..logged /\ page.at \in {"idle", "read"}
      /\ page \in [at : {"idle", "read"}, since : 0..logged, last : 0..logged]
  BY DEF LogInv, Buf!BufferConstants
<1>1. CASE Buf!RecordActivity
  BY <1>1, RecordStep DEF Buf!RecordActivity, Buf!BufferConstants
<1>2. CASE Buf!StoreMessage
  BY <1>2, RecordStep DEF Buf!StoreMessage, Buf!NextSeq, Buf!BufferConstants
<1>3. CASE Buf!SnapshotSeq
  <2>1. /\ page' \in [at : {"idle", "read"}, since : 0..logged, last : 0..logged]
        /\ page'.since = page.since
    <3>1. logged \in 0..logged
      BY <1>0
    <3>2. page' = [page EXCEPT !.at = "read", !.last = logged]
      BY <1>3 DEF Buf!SnapshotSeq
    <3> QED BY <1>0, <3>1, <3>2
  <2>2. UNCHANGED <<which, log, logged, taken>> /\ seen' = seen \cup {}
    BY <1>3 DEF Buf!SnapshotSeq
  <2>3. \A i \in 1..Len(log) : log[i] > page.since /\ log[i] <= page.since => log[i] \in {}
    <3>1. \A i \in 1..Len(log) : log[i] \in Nat
      BY <1>0 DEF Buf!Event, Buf!BufferConstants
    <3> QED BY <1>0, <3>1
  <2>4. {} \in SUBSET Buf!Event
    OBVIOUS
  <2> QED BY <1>0, <2>1, <2>2, <2>3, <2>4, ReadStep
<1>4. CASE Buf!SnapshotRead
  <2> DEFINE got == Buf!Newer(page.since)
  <2>1. /\ page' \in [at : {"idle", "read"}, since : 0..logged, last : 0..logged]
        /\ page'.since = page.last
    BY <1>0, <1>4 DEF Buf!SnapshotRead
  <2>2. UNCHANGED <<which, log, logged, taken>> /\ seen' = seen \cup got
    BY <1>4 DEF Buf!SnapshotRead
  <2>3. /\ got \in SUBSET Buf!Event
        /\ \A i \in 1..Len(log) : log[i] > page.since /\ log[i] <= page.last => log[i] \in got
    BY <1>0 DEF Buf!Newer
  <2> HIDE DEF got
  <2> QED BY <1>0, <2>1, <2>2, <2>3, ReadStep
<1>5. ASSUME NEW limit \in 1..BoxMax, Buf!ReadMessages(limit) PROVE LogInv'
  <2> DEFINE b == Buf!Before(page.since)
             l == Buf!LastOf(page.since, limit)
             got == Buf!Messages(page.since, limit)
  <2>1. b \in 0..Len(log) /\ \A i \in 1..Len(log) : i <= b <=> log[i] <= page.since
    <3>1. page.since \in Nat
      BY <1>0
    <3> QED BY <3>1, BeforeSplits
  <2>2. b < Len(log)
    BY <1>5 DEF Buf!ReadMessages
  <2>3. l \in 1..Len(log)
    BY <1>0, <2>1, <2>2 DEF Buf!LastOf, Buf!BufferConstants
  <2>4. got = {log[i] : i \in b + 1..l}
    BY DEF Buf!Messages
  <2>5. /\ UNCHANGED <<which, log, logged, taken>> /\ seen' = seen \cup got
        /\ page' = [page EXCEPT !.since = log[l]]
    BY <1>5 DEF Buf!ReadMessages
  <2> HIDE DEF b, l, got
  <2>6. \A i \in 1..Len(log) : log[i] \in Buf!Event /\ log[i] \in 0..logged
    <3> SUFFICES ASSUME NEW i \in 1..Len(log) PROVE log[i] \in Buf!Event /\ log[i] \in 0..logged
      OBVIOUS
    <3>1. log[i] \in Buf!Event /\ log[i] <= logged
      BY <1>0 DEF LogInv
    <3> QED BY <1>0, <3>1 DEF Buf!Event, Buf!BufferConstants
  <2>7. got \in SUBSET Buf!Event
    BY <1>0, <2>1, <2>3, <2>4, <2>6
  <2>8. ASSUME NEW i \in 1..Len(log), log[i] > page.since, log[i] <= log[l] PROVE log[i] \in got
    <3>1. ~(i <= b)
      BY <1>0, <2>1, <2>6, <2>8
    <3>2. ~(l < i)
      BY <1>0, <2>3, <2>6, <2>8 DEF LogInv, Sorted
    <3> QED BY <2>1, <2>3, <2>4, <3>1, <3>2
  <2>9. /\ page' \in [at : {"idle", "read"}, since : 0..logged, last : 0..logged]
        /\ page'.since = log[l] /\ log[l] \in 0..logged
    BY <1>0, <2>3, <2>5, <2>6
  <2> QED BY <2>5, <2>7, <2>8, <2>9, ReadStep
<1>6. ASSUME NEW limit \in 1..BoxMax, NEW since \in 0..MaxEvents, Buf!ConsumeMessages(since, limit)
      PROVE  LogInv'
  BY <1>6, ConsumeStep DEF Buf!BufferConstants
<1>7. CASE Buf!DeleteEndpoint
  <2>1. log' = <<>> /\ UNCHANGED <<which, logged, page, seen, taken>>
    BY <1>7 DEF Buf!DeleteEndpoint
  <2>2. log' \in Seq(Buf!Event) /\ Len(log') = 0 /\ \A i \in 1..Len(log') : FALSE
    BY <2>1
  <2>3. Len(log') <= (IF which' = "mailbox" THEN BoxMax ELSE RingMax)
    BY <2>2 DEF Buf!BufferConstants
  <2> QED BY <2>1, <2>2, <2>3 DEF LogInv, Sorted, Buf!NothingMissed, Buf!ConsumedOnce
<1>8. CASE Buf!CreateEndpoint
  BY <1>8 DEF Buf!CreateEndpoint, LogInv, Sorted, Buf!NothingMissed, Buf!ConsumedOnce
<1> QED BY <1>1, <1>2, <1>3, <1>4, <1>5, <1>6, <1>7, <1>8

\* The index of the last-heard list points into the list.
HeardInv ==
    /\ heard \in Seq(CallId \X {"active", "ended"}) /\ Len(heard) <= HeardMax
    /\ DOMAIN byID \subseteq CallId
    /\ Buf!HeardIndexed
    /\ \A id \in DOMAIN byID : byID[id] \in 1..Len(heard)

\* A call that is added to the list is indexed, and those that stay still are.
LEMMA HeardStep ==
    ASSUME Buf!BufferConstants, HeardInv, NEW id \in CallId, Buf!Start(id) \/ Buf!End(id)
    PROVE  HeardInv'
<1>0. /\ heard \in Seq(CallId \X {"active", "ended"}) /\ Len(heard) \in Nat /\ Len(heard) <= HeardMax
      /\ \A i \in 1..Len(heard) : heard[i] \in CallId \X {"active", "ended"}
  BY DEF HeardInv
<1>1. CASE Buf!Start(id)
  <2> DEFINE s == Append(heard, <<id, "active">>)
             t == Buf!Latest(s, HeardMax)
  <2>1. /\ s \in Seq(CallId \X {"active", "ended"}) /\ Len(s) = Len(heard) + 1
        /\ s[Len(s)] = <<id, "active">> /\ \A i \in 1..Len(heard) : s[i] = heard[i]
    BY <1>0
  <2>2. heard' = t /\ byID' = Buf!Index(s, id) /\ id \notin DOMAIN byID
    BY <1>1 DEF Buf!Start
  <2> HIDE DEF s
  <2>3. /\ t \in Seq(CallId \X {"active", "ended"}) /\ Len(t) = IF Len(s) > HeardMax THEN HeardMax ELSE Len(s)
        /\ \A i \in 1..Len(t) : t[i] = s[i + Len(s) - Len(t)]
    BY <2>1, LatestFacts DEF Buf!BufferConstants
  <2>4. CASE Len(s) > HeardMax
    <3>1. Len(t) = HeardMax /\ HeardMax \in Nat
      BY <2>3, <2>4 DEF Buf!BufferConstants
    <3>2. byID' = [i \in {e[1] : e \in {t[k] : k \in DOMAIN t}} |-> CHOOSE p \in 1..HeardMax : t[p][1] = i]
      BY <2>2, <2>4 DEF Buf!Index, Buf!Dropped, Buf!ToSet
    <3> HIDE DEF t
    <3>3. DOMAIN t = 1..Len(t)
      BY <2>3
    <3>4. DOMAIN byID' = {t[i][1] : i \in 1..Len(t)}
      BY <3>2, <3>3
    <3>5. ASSUME NEW i \in DOMAIN byID' PROVE byID'[i] \in 1..Len(t) /\ t[byID'[i]][1] = i
      <4>1. \E p \in 1..HeardMax : t[p][1] = i
        BY <3>1, <3>4, <3>5
      <4>2. byID'[i] = CHOOSE p \in 1..HeardMax : t[p][1] = i
        BY <3>2, <3>5
      <4> QED BY <3>1, <4>1, <4>2
    <3>6. \A i \in 1..Len(t) : t[i][1] \in CallId
      BY <2>3
    <3>7. DOMAIN byID' \subseteq CallId
      BY <3>4, <3>6
    <3>8. Buf!HeardIndexed'
      BY <2>2, <3>4, <3>5 DEF Buf!HeardIndexed
    <3> QED BY <2>2, <2>3, <3>1, <3>5, <3>7, <3>8 DEF HeardInv
  <2>5. CASE ~(Len(s) > HeardMax)
    <3>1. t = s
      BY <2>5 DEF Buf!Latest
    <3>2. byID' = [i \in DOMAIN byID \cup {id} |-> IF i = id THEN Len(s) ELSE byID[i]]
      BY <2>2, <2>5 DEF Buf!Index, Buf!Dropped
    <3> HIDE DEF t
    <3>3. \A i \in 1..Len(s) : i \in 1..Len(heard) \/ i = Len(s)
      BY <1>0, <2>1
    <3>4. DOMAIN byID' = {s[i][1] : i \in 1..Len(s)}
      <4>1. DOMAIN byID = {heard[i][1] : i \in 1..Len(heard)}
        BY DEF HeardInv, Buf!HeardIndexed
      <4>2. \A i \in 1..Len(heard) : i \in 1..Len(s)
        BY <1>0, <2>1
      <4>3. Len(s) \in 1..Len(s) /\ s[Len(s)][1] = id
        BY <1>0, <2>1
      <4>4. DOMAIN byID' = DOMAIN byID \cup {id}
        BY <3>2
      <4>5. ASSUME NEW x \in DOMAIN byID' PROVE \E i \in 1..Len(s) : s[i][1] = x
        BY <2>1, <4>1, <4>2, <4>3, <4>4, <4>5
      <4>6. ASSUME NEW i \in 1..Len(s) PROVE s[i][1] \in DOMAIN byID'
        BY <2>1, <3>3, <4>1, <4>3, <4>4, <4>6
      <4> QED BY <4>5, <4>6
    <3>5. ASSUME NEW i \in DOMAIN byID' PROVE byID'[i] \in 1..Len(s) /\ s[byID'[i]][1] = i
      <4>1. CASE i = id
        BY <1>0, <2>1, <3>2, <4>1
      <4>2. CASE i # id
        <5>1. i \in DOMAIN byID /\ byID'[i] = byID[i]
          BY <3>2, <3>5, <4>2
        <5>2. byID[i] \in 1..Len(heard) /\ heard[byID[i]][1] = i
          BY <5>1 DEF HeardInv, Buf!HeardIndexed
        <5> QED BY <1>0, <2>1, <5>1, <5>2
      <4> QED BY <4>1, <4>2
    <3>6. DOMAIN byID' \subseteq CallId
      BY <3>2 DEF HeardInv
    <3>7. heard' = s
      BY <2>2, <3>1
    <3>8. Buf!HeardIndexed'
      BY <3>4, <3>5, <3>7 DEF Buf!HeardIndexed
    <3>9. Len(s) <= HeardMax
      BY <1>0, <2>1, <2>5 DEF Buf!BufferConstants
    <3> QED BY <2>1, <3>5, <3>6, <3>7, <3>8, <3>9 DEF HeardInv
  <2> QED BY <2>4, <2>5
<1>2. CASE Buf!End(id)
  <2> DEFINE k == byID[id]
             e == [heard[k] EXCEPT ![2] = "ended"]
  <2>1. /\ id \in DOMAIN byID /\ heard' = [heard EXCEPT ![k] = e] /\ byID' = byID
        /\ k \in 1..Len(heard)
    BY <1>2 DEF Buf!End, HeardInv
  <2>2. e \in CallId \X {"active", "ended"} /\ e[1] = heard[k][1]
    BY <1>0, <2>1
  <2> HIDE DEF k, e
  <2>3. /\ heard' \in Seq(CallId \X {"active", "ended"}) /\ Len(heard') = Len(heard)
        /\ \A i \in 1..Len(heard) : heard'[i] = IF i = k THEN e ELSE heard[i]
    BY <1>0, <2>1, <2>2
  <2>4. \A i \in 1..Len(heard) : heard'[i][1] = heard[i][1]
    BY <2>2, <2>3
  <2>5. Buf!HeardIndexed'
    <3>1. {heard'[i][1] : i \in 1..Len(heard')} = {heard[i][1] : i \in 1..Len(heard)}
      BY <2>3, <2>4
    <3>2. \A x \in DOMAIN byID : byID[x] \in 1..Len(heard) /\ heard[byID[x]][1] = x
      BY DEF HeardInv, Buf!HeardIndexed
    <3>3. DOMAIN byID = {heard[i][1] : i \in 1..Len(heard)}
      BY DEF HeardInv, Buf!HeardIndexed
    <3> QED BY <2>1, <2>4, <3>1, <3>2, <3>3 DEF Buf!HeardIndexed
  <2> QED BY <2>1, <2>3, <2>5 DEF HeardInv
<1> QED BY <1>1, <1>2

\* The groups' numbers are of the pool or beside it.
PoolInv ==
    /\ DOMAIN names \subseteq 0..(2 * Span - 1)
    /\ DOMAIN mapped \subseteq GSSI
    /\ \A g \in DOMAIN mapped : mapped[g] \in 0..(2 * Span - 1)
    /\ Buf!PoolExclusive

\* A group gets a number of the pool that no other group has, or one beside it.
LEMMA PoolStep ==
    ASSUME Buf!BufferConstants, PoolInv,
           \/ \E g \in GSSI : Buf!EnsureEndpoint(g)
           \/ \E c \in 0..(Span - 1) : Buf!Upsert(c) \/ Buf!Delete(c)
    PROVE  PoolInv'
<1>1. ASSUME NEW g \in GSSI, Buf!EnsureEndpoint(g) PROVE PoolInv'
  <2> DEFINE c == IF g \in DOMAIN mapped THEN mapped[g]
                  ELSE IF Buf!Free(g) # {} THEN Buf!Try(g, Buf!First(Buf!Free(g)))
                  ELSE Span + (g % Span)
  <2>1. mapped' = Buf!Put(mapped, g, c) /\ names' = Buf!Put(names, c, "callout")
    BY <1>1 DEF Buf!EnsureEndpoint
  <2>2. c \in 0..(2 * Span - 1) /\ \A h \in DOMAIN mapped \ {g} : mapped[h] = c => c >= Span
    <3>1. CASE g \in DOMAIN mapped
      BY <3>1 DEF PoolInv, Buf!PoolExclusive
    <3>2. CASE g \notin DOMAIN mapped /\ Buf!Free(g) # {}
      <4> DEFINE F == Buf!Free(g)
      <4>1. F \in SUBSET Nat
        BY DEF Buf!Free, Buf!BufferConstants
      <4>2. \E i \in F : \A j \in F : i <= j
        <5> HIDE DEF F
        <5> QED BY <3>2, <4>1, Least DEF F
      <4>3. Buf!First(F) \in F
        <5> HIDE DEF F
        <5> QED BY <4>2 DEF Buf!First
      <4>4. PICK i \in 0..(Span - 1) : i = Buf!First(F) /\ Buf!Try(g, i) \notin Buf!Occupied(g)
        BY <4>3 DEF Buf!Free
      <4>5. c = Buf!Try(g, i)
        BY <3>2, <4>4
      <4>6. (g + i) % Span \in 0..(Span - 1)
        BY DEF Buf!BufferConstants
      <4>7. \A h \in DOMAIN mapped \ {g} : mapped[h] # c
        BY <4>4, <4>5 DEF Buf!Occupied
      <4>8. c \in 0..(Span - 1)
        BY <4>5, <4>6 DEF Buf!Try
      <4> HIDE DEF c
      <4> QED BY <4>7, <4>8 DEF Buf!BufferConstants
    <3>3. CASE g \notin DOMAIN mapped /\ Buf!Free(g) = {}
      <4>1. c = Span + (g % Span)
        BY <3>3
      <4>2. g % Span \in 0..(Span - 1)
        BY DEF Buf!BufferConstants
      <4> HIDE DEF c
      <4> QED BY <4>1, <4>2 DEF Buf!BufferConstants
    <3> QED BY <3>1, <3>2, <3>3
  <2> HIDE DEF c
  <2>3. /\ DOMAIN mapped' = DOMAIN mapped \cup {g} /\ mapped'[g] = c
        /\ \A h \in DOMAIN mapped \ {g} : mapped'[h] = mapped[h]
        /\ DOMAIN names' = DOMAIN names \cup {c}
    BY <2>1 DEF Buf!Put
  <2>4. Buf!PoolExclusive'
    BY <2>2, <2>3 DEF PoolInv, Buf!PoolExclusive
  <2> QED BY <2>2, <2>3, <2>4 DEF PoolInv
<1>2. ASSUME NEW c \in 0..(Span - 1), Buf!Upsert(c) PROVE PoolInv'
  <2>1. DOMAIN names' = DOMAIN names \cup {c} /\ mapped' = mapped
    BY <1>2 DEF Buf!Upsert, Buf!Put
  <2>2. c \in 0..(2 * Span - 1)
    BY DEF Buf!BufferConstants
  <2> QED BY <2>1, <2>2 DEF PoolInv, Buf!PoolExclusive
<1>3. ASSUME NEW c \in 0..(Span - 1), Buf!Delete(c) PROVE PoolInv'
  <2>1. DOMAIN names' \subseteq DOMAIN names /\ mapped' = mapped
    BY <1>3 DEF Buf!Delete
  <2> QED BY <2>1 DEF PoolInv, Buf!PoolExclusive
<1> QED BY <1>1, <1>2, <1>3

BuffersInv ==
    /\ which \in {"activity", "mailbox", "heard", "endpoints"}
    /\ live \in BOOLEAN
    /\ LogInv /\ HeardInv /\ PoolInv

\* Every step keeps the buffers' invariant: it works on one of them and leaves the
\* others alone.
LEMMA BuffersStep ==
    ASSUME Buf!BufferConstants, BuffersInv, [Buf!Next]_(Buf!vars)
    PROVE  BuffersInv'
<1>1. ASSUME UNCHANGED <<which, log, logged, page, seen, taken>> PROVE LogInv'
  BY <1>1 DEF BuffersInv, LogInv, Sorted, Buf!NothingMissed, Buf!ConsumedOnce
<1>2. ASSUME UNCHANGED <<heard, byID>> PROVE HeardInv'
  BY <1>2 DEF BuffersInv, HeardInv, Buf!HeardIndexed
<1>3. ASSUME UNCHANGED <<names, mapped>> PROVE PoolInv'
  BY <1>3 DEF BuffersInv, PoolInv, Buf!PoolExclusive
<1>4. which' = which
  BY
     DEF Buf!Next, Buf!vars, Buf!RecordActivity, Buf!SnapshotSeq, Buf!SnapshotRead,
         Buf!StoreMessage,
         Buf!DeleteEndpoint, Buf!CreateEndpoint, Buf!ReadMessages, Buf!ConsumeMessages, Buf!Start,
         Buf!End, Buf!EnsureEndpoint, Buf!Upsert, Buf!Delete
<1>5. live' \in BOOLEAN
  BY DEF BuffersInv, Buf!Next, Buf!vars, Buf!RecordActivity, Buf!SnapshotSeq, Buf!SnapshotRead,
         Buf!StoreMessage, Buf!DeleteEndpoint, Buf!CreateEndpoint, Buf!ReadMessages,
         Buf!ConsumeMessages, Buf!Start, Buf!End, Buf!EnsureEndpoint, Buf!Upsert, Buf!Delete,
         Buf!logVars
<1>6. CASE \/ Buf!RecordActivity \/ Buf!SnapshotSeq \/ Buf!SnapshotRead
           \/ Buf!StoreMessage \/ Buf!DeleteEndpoint \/ Buf!CreateEndpoint
           \/ \E limit \in 1..BoxMax :
                 Buf!ReadMessages(limit) \/ \E since \in 0..MaxEvents : Buf!ConsumeMessages(since, limit)
  <2>1. UNCHANGED <<heard, byID, names, mapped>>
    BY <1>6 DEF Buf!RecordActivity, Buf!SnapshotSeq, Buf!SnapshotRead, Buf!StoreMessage,
                Buf!DeleteEndpoint, Buf!CreateEndpoint, Buf!ReadMessages, Buf!ConsumeMessages,
                Buf!heardVars, Buf!nameVars
  <2>2. LogInv'
    BY <1>6, LogStep DEF BuffersInv
  <2> QED BY <1>2, <1>3, <1>4, <1>5, <2>1, <2>2 DEF BuffersInv
<1>7. ASSUME NEW id \in CallId, Buf!Start(id) \/ Buf!End(id) PROVE BuffersInv'
  <2>1. UNCHANGED <<which, log, logged, page, seen, taken, names, mapped>>
    BY <1>7 DEF Buf!Start, Buf!End, Buf!logVars, Buf!nameVars
  <2>2. HeardInv'
    BY <1>7, HeardStep DEF BuffersInv
  <2> QED BY <1>1, <1>3, <1>4, <1>5, <2>1, <2>2 DEF BuffersInv
<1>8. CASE \/ \E g \in GSSI : Buf!EnsureEndpoint(g)
           \/ \E c \in 0..(Span - 1) : Buf!Upsert(c) \/ Buf!Delete(c)
  <2>1. UNCHANGED <<which, log, logged, page, seen, taken, heard, byID>>
    BY <1>8 DEF Buf!EnsureEndpoint, Buf!Upsert, Buf!Delete, Buf!logVars, Buf!heardVars
  <2>2. PoolInv'
    BY <1>8, PoolStep DEF BuffersInv
  <2> QED BY <1>1, <1>2, <1>4, <1>5, <2>1, <2>2 DEF BuffersInv
<1>9. CASE UNCHANGED Buf!vars
  BY <1>1, <1>2, <1>3, <1>4, <1>5, <1>9 DEF Buf!vars, BuffersInv
<1> QED BY <1>6, <1>7, <1>8, <1>9 DEF Buf!Next

\* For buffers of any size, any number of calls and groups and any pool: a poller
\* that goes on from the number it was told misses nothing that is still in the
\* buffer, a message is consumed once, the last-heard index finds each call's own
\* entry, and no two groups have the same number of the pool (activitySince,
\* virtualSDSMessages, LastHeardBuffer, ensureGroupCalloutVirtualEndpoint).
THEOREM BuffersAlwaysSound ==
    ASSUME Buf!BufferConstants
    PROVE  Buf!Spec => []BuffersSound
<1>1. Buf!Init => BuffersInv
  <2> SUFFICES ASSUME Buf!Init PROVE BuffersInv
    OBVIOUS
  <2>1. /\ log = <<>> /\ logged = 0 /\ page = [at |-> "idle", since |-> 0, last |-> 0]
        /\ seen = {} /\ taken = {} /\ live = TRUE
        /\ heard = <<>> /\ byID = <<>> /\ names = <<>> /\ mapped = <<>>
        /\ which \in {"activity", "mailbox", "heard", "endpoints"}
    BY DEF Buf!Init
  <2>2. LogInv
    <3>1. log \in Seq(Buf!Event) /\ Len(log) = 0 /\ \A i \in 1..Len(log) : FALSE
      BY <2>1
    <3>2. Len(log) <= (IF which = "mailbox" THEN BoxMax ELSE RingMax)
      BY <3>1 DEF Buf!BufferConstants
    <3>3. /\ logged \in 0..MaxEvents /\ taken \subseteq 1..logged /\ seen \subseteq Buf!Event
          /\ page \in [at : {"idle", "read"}, since : 0..logged, last : 0..logged]
      BY <2>1 DEF Buf!BufferConstants
    <3> QED BY <3>1, <3>2, <3>3 DEF LogInv, Sorted, Buf!NothingMissed, Buf!ConsumedOnce
  <2>3. HeardInv
    <3>1. heard \in Seq(CallId \X {"active", "ended"}) /\ Len(heard) = 0 /\ \A i \in 1..Len(heard) : FALSE
      BY <2>1
    <3>2. \A i \in DOMAIN byID : FALSE
      BY <2>1
    <3>3. Len(heard) <= HeardMax
      BY <3>1 DEF Buf!BufferConstants
    <3> QED BY <3>1, <3>2, <3>3 DEF HeardInv, Buf!HeardIndexed
  <2>4. PoolInv
    <3>1. (\A i \in DOMAIN names : FALSE) /\ (\A i \in DOMAIN mapped : FALSE)
      BY <2>1
    <3> QED BY <3>1 DEF PoolInv, Buf!PoolExclusive
  <2>5. live \in BOOLEAN
    BY <2>1
  <2> QED BY <2>1, <2>2, <2>3, <2>4, <2>5 DEF BuffersInv
<1>2. BuffersInv /\ [Buf!Next]_(Buf!vars) => BuffersInv'
  BY BuffersStep
<1>3. BuffersInv => BuffersSound
  <2> SUFFICES ASSUME BuffersInv PROVE BuffersSound
    OBVIOUS
  <2>1. /\ page \in [at : {"idle", "read"}, since : 0..MaxEvents, last : 0..MaxEvents]
        /\ logged \in 0..MaxEvents /\ taken \subseteq Buf!Event
    BY DEF BuffersInv, LogInv, Buf!BufferConstants, Buf!Event
  <2> QED
    BY <2>1 DEF BuffersInv, LogInv, HeardInv, PoolInv, BuffersSound, Buf!BuffersSound, Buf!TypeOK
<1> QED BY <1>1, <1>2, <1>3, PTL DEF Buf!Spec

-----------------------------------------------------------------------------
(* The bytes of call-outs                                                  *)

\* The range of every field of a call-out.
LEMMA CalloutFields ==
    ASSUME NEW m \in Cod!Callouts
    PROVE  /\ m.type \in 0..15 /\ m.report \in 0..3 /\ m.storage \in 0..1 /\ m.ref \in 0..255
           /\ m.v2 \in 0..1 /\ m.scheme \in 0..127 /\ m.function \in 0..15 /\ m.number \in 0..255
           /\ m.severity \in 0..15 /\ m.group \in 0..3 /\ m.stamp \in 0..1 /\ m.receipt \in 0..1
           /\ m.status \in 0..1 /\ m.end \in 0..1 /\ m.noPtt \in 0..1
           /\ m.ref \in Nat /\ m.number \in Nat /\ m.text \in Seq(Nat)
<1>1. /\ m.type \in 0..15 /\ m.report \in 0..3 /\ m.storage \in 0..1 /\ m.ref \in 0..255
      /\ m.v2 \in 0..1 /\ m.scheme \in 0..127 /\ m.function \in 0..15 /\ m.number \in 0..255
      /\ m.severity \in 0..15 /\ m.group \in 0..3 /\ m.stamp \in 0..1 /\ m.receipt \in 0..1
      /\ m.status \in 0..1 /\ m.end \in 0..1 /\ m.noPtt \in 0..1 /\ m.text \in Seq(0..255)
  BY DEF Cod!Callouts, Cod!Flag
<1>2. \A x \in 0..255 : x \in Nat
  OBVIOUS
<1>3. m.text \in Seq(Nat)
  BY <1>1, <1>2, SeqMonotonic
<1> QED BY <1>1, <1>2, <1>3

\* The octets that hold several fields, as they are written.
TypeOctet(t, r, s) == 16 * (t % 16) + 4 * (r % 4) + s
LevelsOctet(g, t, r, s) == 64 * (g % 4) + 32 * t + 16 * r + (s % 16)
ControlOctet(s, e, n) == 128 * s + 64 * e + 32 * n

\* Each is read as it was written; the control byte has no bit that a letter has.
LEMMA TypeRead ==
    ASSUME NEW t \in 0..15, NEW r \in 0..3, NEW s \in 0..1
    PROVE  /\ TypeOctet(t, r, s) \in Nat /\ Cod!Bits(TypeOctet(t, r, s), 4, 4) = t
           /\ Cod!Bits(TypeOctet(t, r, s), 2, 2) = r /\ Cod!Bits(TypeOctet(t, r, s), 0, 1) = s
BY DEF Cod!Bits, TypeOctet

LEMMA LevelsRead ==
    ASSUME NEW g \in 0..3, NEW t \in 0..1, NEW r \in 0..1, NEW s \in 0..15
    PROVE  /\ LevelsOctet(g, t, r, s) \in Nat
           /\ Cod!Bits(LevelsOctet(g, t, r, s), 6, 2) = g
           /\ Cod!Bits(LevelsOctet(g, t, r, s), 5, 1) = t
           /\ Cod!Bits(LevelsOctet(g, t, r, s), 4, 1) = r
           /\ Cod!Bits(LevelsOctet(g, t, r, s), 0, 4) = s
BY DEF Cod!Bits, LevelsOctet

LEMMA ControlRead ==
    ASSUME NEW s \in 0..1, NEW e \in 0..1, NEW n \in 0..1
    PROVE  /\ ControlOctet(s, e, n) \in Nat
           /\ Cod!Bits(ControlOctet(s, e, n), 7, 1) = s
           /\ Cod!Bits(ControlOctet(s, e, n), 6, 1) = e
           /\ Cod!Bits(ControlOctet(s, e, n), 5, 1) = n
           /\ Cod!Bits(ControlOctet(s, e, n), 0, 5) = 0
BY DEF Cod!Bits, ControlOctet

\* The fourth octet tells the layout, and the fifth holds the function.
LEMMA SchemeRead ==
    ASSUME NEW s \in 0..127
    PROVE  /\ 128 + s \in Nat /\ 128 + s >= 128 /\ s \in Nat /\ ~(s >= 128)
           /\ Cod!Bits(128 + s, 7, 1) = 1 /\ Cod!Bits(128 + s, 0, 7) = s
           /\ Cod!Bits(s, 7, 1) = 0 /\ Cod!Bits(s, 0, 7) = s
BY DEF Cod!Bits

LEMMA FunctionRead ==
    ASSUME NEW f \in 0..15, NEW n \in 0..255
    PROVE  /\ 16 * (f % 16) \in Nat /\ Cod!Bits(16 * (f % 16), 4, 4) = f
           /\ 16 * (f % 16) + (n % 16) \in Nat /\ Cod!Bits(16 * (f % 16) + (n % 16), 4, 4) = f
           /\ Cod!Bits(16 * (f % 16) + (n % 16), 0, 4) = n % 16
BY DEF Cod!Bits

\* What the receiver should read: of the number the old layout has four bits.
Sent(m) == [m EXCEPT !.number = IF m.v2 = 1 THEN m.number ELSE m.number % 16]

\* A call-out is its fields.
LEMMA SentFields ==
    ASSUME NEW m \in Cod!Callouts
    PROVE  Sent(m) =
             [type |-> m.type, report |-> m.report, storage |-> m.storage, ref |-> m.ref,
              v2 |-> m.v2, scheme |-> m.scheme, function |-> m.function,
              number |-> IF m.v2 = 1 THEN m.number ELSE m.number % 16,
              severity |-> m.severity, group |-> m.group, stamp |-> m.stamp,
              receipt |-> m.receipt, status |-> m.status, end |-> m.end, noPtt |-> m.noPtt,
              text |-> m.text]
BY DEF Sent, Cod!Callouts

\* Parsing undoes building, in the new layout.
LEMMA NewLayout ==
    ASSUME NEW m \in Cod!Callouts, m.v2 = 1
    PROVE  LET p == Cod!BuildCallout(m) IN
           /\ p \in Seq(Nat) /\ Len(p) >= 7 /\ p[1] = 195
           /\ Cod!IsCallout(p) /\ Cod!ParseCallout(p) = Sent(m)
<1> DEFINE a == TypeOctet(m.type, m.report, m.storage)
           s == 128 + m.scheme
           f == 16 * (m.function % 16)
           l == LevelsOctet(m.group, m.stamp, m.receipt, m.severity)
           c == ControlOctet(m.status, m.end, m.noPtt)
           p == Cod!BuildCallout(m)
<1>0. /\ m.type \in 0..15 /\ m.report \in 0..3 /\ m.storage \in 0..1 /\ m.ref \in Nat
      /\ m.scheme \in 0..127 /\ m.function \in 0..15 /\ m.number \in 0..255 /\ m.number \in Nat
      /\ m.severity \in 0..15 /\ m.group \in 0..3 /\ m.stamp \in 0..1 /\ m.receipt \in 0..1
      /\ m.status \in 0..1 /\ m.end \in 0..1 /\ m.noPtt \in 0..1 /\ m.text \in Seq(Nat)
      /\ m.v2 \in 0..1
  BY CalloutFields
<1>1. p = <<195, a, m.ref>> \o <<s, f, m.number, l, c>> \o m.text
  BY
     DEF Cod!BuildCallout, Cod!ProtocolCallout, TypeOctet, LevelsOctet, ControlOctet,
         Cod!NumberOctet
<1>2. /\ a \in Nat
      /\ Cod!Bits(a, 4, 4) = m.type /\ Cod!Bits(a, 2, 2) = m.report /\ Cod!Bits(a, 0, 1) = m.storage
  <2>1. m.type \in 0..15 /\ m.report \in 0..3 /\ m.storage \in 0..1
    BY <1>0
  <2> QED BY <2>1, TypeRead
<1>3. /\ l \in Nat /\ Cod!Bits(l, 6, 2) = m.group /\ Cod!Bits(l, 5, 1) = m.stamp
      /\ Cod!Bits(l, 4, 1) = m.receipt /\ Cod!Bits(l, 0, 4) = m.severity
  <2>1. m.group \in 0..3 /\ m.stamp \in 0..1 /\ m.receipt \in 0..1 /\ m.severity \in 0..15
    BY <1>0
  <2> QED BY <2>1, LevelsRead
<1>4. /\ c \in Nat /\ Cod!Bits(c, 7, 1) = m.status /\ Cod!Bits(c, 6, 1) = m.end
      /\ Cod!Bits(c, 5, 1) = m.noPtt
  <2>1. m.status \in 0..1 /\ m.end \in 0..1 /\ m.noPtt \in 0..1
    BY <1>0
  <2> QED BY <2>1, ControlRead
<1>5. s \in Nat /\ s >= 128 /\ Cod!Bits(s, 7, 1) = m.v2 /\ Cod!Bits(s, 0, 7) = m.scheme
  <2>1. m.scheme \in 0..127
    BY <1>0
  <2> QED BY <2>1, SchemeRead
<1>6. f \in Nat /\ Cod!Bits(f, 4, 4) = m.function
  <2>1. m.function \in 0..15 /\ m.number \in 0..255
    BY <1>0
  <2> QED BY <2>1, FunctionRead
<1> HIDE DEF a, s, f, l, c, p
<1>9. /\ p \in Seq(Nat) /\ Len(p) = 8 + Len(m.text) /\ Len(m.text) \in Nat
      /\ p[1] = 195 /\ p[2] = a /\ p[3] = m.ref /\ p[4] = s
      /\ p[5] = f /\ p[6] = m.number /\ p[7] = l /\ p[8] = c /\ SubSeq(p, 9, Len(p)) = m.text
  <2>1. a \in Nat /\ m.ref \in Nat /\ s \in Nat /\ f \in Nat /\ m.number \in Nat
        /\ l \in Nat /\ c \in Nat /\ m.text \in Seq(Nat) /\ 195 \in Nat
    BY <1>0, <1>2, <1>3, <1>4, <1>5, <1>6
  <2> DEFINE r == m.ref
             n == m.number
             x == m.text
  <2>2. p = <<195, a, r>> \o <<s, f, n, l, c>> \o x
    BY <1>1
  <2>3. r \in Nat /\ n \in Nat /\ x \in Seq(Nat)
    BY <2>1
  <2> HIDE DEF r, n, x
  <2>4. /\ p \in Seq(Nat) /\ Len(p) = 8 + Len(x) /\ Len(x) \in Nat
        /\ p[1] = 195 /\ p[2] = a /\ p[3] = r /\ p[4] = s
        /\ p[5] = f /\ p[6] = n /\ p[7] = l /\ p[8] = c /\ SubSeq(p, 9, Len(p)) = x
    BY <2>1, <2>2, <2>3
  <2> QED BY <2>4 DEF r, n, x
<1>10. Len(p) \in Nat /\ Len(p) >= 8 /\ p[4] >= 128
  BY <1>5, <1>9
<1>11. Cod!ParseCallout(p) =
         [type |-> Cod!Bits(p[2], 4, 4), report |-> Cod!Bits(p[2], 2, 2),
          storage |-> Cod!Bits(p[2], 0, 1), ref |-> p[3], v2 |-> Cod!Bits(p[4], 7, 1),
          scheme |-> Cod!Bits(p[4], 0, 7), function |-> Cod!Bits(p[5], 4, 4), number |-> p[6],
          severity |-> Cod!Bits(p[7], 0, 4), group |-> Cod!Bits(p[7], 6, 2),
          stamp |-> Cod!Bits(p[7], 5, 1), receipt |-> Cod!Bits(p[7], 4, 1),
          status |-> Cod!Bits(p[8], 7, 1), end |-> Cod!Bits(p[8], 6, 1),
          noPtt |-> Cod!Bits(p[8], 5, 1), text |-> SubSeq(p, 9, Len(p))]
  BY <1>10 DEF Cod!ParseCallout
<1>12. Cod!ParseCallout(p) = Sent(m)
  <2>1. Sent(m) = [type |-> m.type, report |-> m.report, storage |-> m.storage, ref |-> m.ref,
                   v2 |-> m.v2, scheme |-> m.scheme, function |-> m.function,
                   number |-> m.number, severity |-> m.severity, group |-> m.group,
                   stamp |-> m.stamp, receipt |-> m.receipt, status |-> m.status, end |-> m.end,
                   noPtt |-> m.noPtt, text |-> m.text]
    BY SentFields
  <2>2. /\ Cod!Bits(p[2], 4, 4) = m.type /\ Cod!Bits(p[2], 2, 2) = m.report
        /\ Cod!Bits(p[2], 0, 1) = m.storage /\ p[3] = m.ref /\ Cod!Bits(p[4], 7, 1) = m.v2
        /\ Cod!Bits(p[4], 0, 7) = m.scheme /\ Cod!Bits(p[5], 4, 4) = m.function
    BY <1>2, <1>5, <1>6, <1>9, Zenon
  <2>3. /\ p[6] = m.number /\ Cod!Bits(p[7], 0, 4) = m.severity /\ Cod!Bits(p[7], 6, 2) = m.group
        /\ Cod!Bits(p[7], 5, 1) = m.stamp /\ Cod!Bits(p[7], 4, 1) = m.receipt
        /\ Cod!Bits(p[8], 7, 1) = m.status /\ Cod!Bits(p[8], 6, 1) = m.end
        /\ Cod!Bits(p[8], 5, 1) = m.noPtt /\ SubSeq(p, 9, Len(p)) = m.text
    BY <1>3, <1>4, <1>6, <1>9, Zenon
  <2> QED BY <1>11, <2>1, <2>2, <2>3, Zenon
<1>13. Cod!IsCallout(p) /\ Len(p) >= 7
  <2>1. Len(p) >= 6 /\ Len(p) >= 7
    BY <1>10
  <2> QED BY <1>9, <2>1, Zenon DEF Cod!IsCallout, Cod!ProtocolCallout
<1> QED BY <1>9, <1>12, <1>13 DEF p

\* And in the old one: the control byte is never taken for text, since it has no bit
\* that a letter has, and the fourth byte is never taken for one of the new layout.
LEMMA OldLayout ==
    ASSUME NEW m \in Cod!Callouts, m.v2 # 1
    PROVE  LET p == Cod!BuildCallout(m) IN
           /\ p \in Seq(Nat) /\ Len(p) >= 7 /\ p[1] = 195
           /\ Cod!IsCallout(p) /\ Cod!ParseCallout(p) = Sent(m)
<1> DEFINE a == TypeOctet(m.type, m.report, m.storage)
           f == 16 * (m.function % 16) + (m.number % 16)
           l == LevelsOctet(m.group, m.stamp, m.receipt, m.severity)
           c == ControlOctet(m.status, m.end, m.noPtt)
           p == Cod!BuildCallout(m)
<1>0. /\ m.type \in 0..15 /\ m.report \in 0..3 /\ m.storage \in 0..1 /\ m.ref \in Nat
      /\ m.scheme \in 0..127 /\ m.function \in 0..15 /\ m.number \in 0..255 /\ m.number \in Nat
      /\ m.severity \in 0..15 /\ m.group \in 0..3 /\ m.stamp \in 0..1 /\ m.receipt \in 0..1
      /\ m.status \in 0..1 /\ m.end \in 0..1 /\ m.noPtt \in 0..1 /\ m.text \in Seq(Nat)
      /\ m.v2 \in 0..1
  BY CalloutFields
<1>1. p = <<195, a, m.ref>> \o <<m.scheme, f, l, c>> \o m.text
  BY DEF Cod!BuildCallout, Cod!ProtocolCallout, TypeOctet, LevelsOctet, ControlOctet
<1>2. /\ a \in Nat
      /\ Cod!Bits(a, 4, 4) = m.type /\ Cod!Bits(a, 2, 2) = m.report /\ Cod!Bits(a, 0, 1) = m.storage
  <2>1. m.type \in 0..15 /\ m.report \in 0..3 /\ m.storage \in 0..1
    BY <1>0
  <2> QED BY <2>1, TypeRead
<1>3. /\ l \in Nat /\ Cod!Bits(l, 6, 2) = m.group /\ Cod!Bits(l, 5, 1) = m.stamp
      /\ Cod!Bits(l, 4, 1) = m.receipt /\ Cod!Bits(l, 0, 4) = m.severity
  <2>1. m.group \in 0..3 /\ m.stamp \in 0..1 /\ m.receipt \in 0..1 /\ m.severity \in 0..15
    BY <1>0
  <2> QED BY <2>1, LevelsRead
<1>4. /\ c \in Nat /\ Cod!Bits(c, 7, 1) = m.status /\ Cod!Bits(c, 6, 1) = m.end
      /\ Cod!Bits(c, 5, 1) = m.noPtt /\ Cod!Bits(c, 0, 5) = 0
  <2>1. m.status \in 0..1 /\ m.end \in 0..1 /\ m.noPtt \in 0..1
    BY <1>0
  <2> QED BY <2>1, ControlRead
<1>5. /\ m.scheme \in Nat /\ ~(m.scheme >= 128)
      /\ Cod!Bits(m.scheme, 7, 1) = m.v2 /\ Cod!Bits(m.scheme, 0, 7) = m.scheme
  <2>1. m.scheme \in 0..127
    BY <1>0
  <2>2. m.v2 = 0
    BY <1>0
  <2> QED BY <2>1, <2>2, SchemeRead
<1>6. f \in Nat /\ Cod!Bits(f, 4, 4) = m.function /\ Cod!Bits(f, 0, 4) = m.number % 16
  <2>1. m.function \in 0..15 /\ m.number \in 0..255
    BY <1>0
  <2> QED BY <2>1, FunctionRead
<1> HIDE DEF a, f, l, c, p
<1>9. /\ p \in Seq(Nat) /\ Len(p) = 7 + Len(m.text) /\ Len(m.text) \in Nat
      /\ p[1] = 195 /\ p[2] = a /\ p[3] = m.ref /\ p[4] = m.scheme
      /\ p[5] = f /\ p[6] = l /\ p[7] = c /\ SubSeq(p, 8, Len(p)) = m.text
  <2>1. a \in Nat /\ m.ref \in Nat /\ m.scheme \in Nat /\ f \in Nat
        /\ l \in Nat /\ c \in Nat /\ m.text \in Seq(Nat) /\ 195 \in Nat
    BY <1>0, <1>2, <1>3, <1>4, <1>5, <1>6
  <2> DEFINE r == m.ref
             s == m.scheme
             x == m.text
  <2>2. p = <<195, a, r>> \o <<s, f, l, c>> \o x
    BY <1>1
  <2>3. r \in Nat /\ s \in Nat /\ x \in Seq(Nat)
    BY <2>1
  <2> HIDE DEF r, s, x
  <2>4. /\ p \in Seq(Nat) /\ Len(p) = 7 + Len(x) /\ Len(x) \in Nat
        /\ p[1] = 195 /\ p[2] = a /\ p[3] = r /\ p[4] = s
        /\ p[5] = f /\ p[6] = l /\ p[7] = c /\ SubSeq(p, 8, Len(p)) = x
    BY <2>1, <2>2, <2>3
  <2> QED BY <2>4 DEF r, s, x
<1>10. Len(p) \in Nat /\ Len(p) >= 7 /\ ~(Len(p) < 7) /\ ~(p[4] >= 128) /\ Cod!Bits(p[7], 0, 5) = 0
  <2>1. \A n \in Nat : 7 + n \in Nat /\ 7 + n >= 7 /\ ~(7 + n < 7)
    OBVIOUS
  <2>2. Len(p) \in Nat /\ Len(p) >= 7 /\ ~(Len(p) < 7)
    <3>1. Len(p) = 7 + Len(m.text) /\ Len(m.text) \in Nat
      BY <1>9
    <3> QED BY <2>1, <3>1, Zenon
  <2>3. ~(p[4] >= 128) /\ Cod!Bits(p[7], 0, 5) = 0
    BY <1>4, <1>5, <1>9, Zenon
  <2> QED BY <2>2, <2>3
<1>11. Cod!ParseCallout(p) =
         [type |-> Cod!Bits(p[2], 4, 4), report |-> Cod!Bits(p[2], 2, 2),
          storage |-> Cod!Bits(p[2], 0, 1), ref |-> p[3], v2 |-> Cod!Bits(p[4], 7, 1),
          scheme |-> Cod!Bits(p[4], 0, 7), function |-> Cod!Bits(p[5], 4, 4),
          number |-> Cod!Bits(p[5], 0, 4),
          severity |-> Cod!Bits(p[6], 0, 4), group |-> Cod!Bits(p[6], 6, 2),
          stamp |-> Cod!Bits(p[6], 5, 1), receipt |-> Cod!Bits(p[6], 4, 1),
          status |-> Cod!Bits(p[7], 7, 1), end |-> Cod!Bits(p[7], 6, 1),
          noPtt |-> Cod!Bits(p[7], 5, 1), text |-> SubSeq(p, 8, Len(p))]
  BY <1>10, Zenon DEF Cod!ParseCallout
<1>12. Cod!ParseCallout(p) = Sent(m)
  <2>1. Sent(m) = [type |-> m.type, report |-> m.report, storage |-> m.storage, ref |-> m.ref,
                   v2 |-> m.v2, scheme |-> m.scheme, function |-> m.function,
                   number |-> m.number % 16, severity |-> m.severity, group |-> m.group,
                   stamp |-> m.stamp, receipt |-> m.receipt, status |-> m.status, end |-> m.end,
                   noPtt |-> m.noPtt, text |-> m.text]
    BY SentFields
  <2>2. /\ Cod!Bits(p[2], 4, 4) = m.type /\ Cod!Bits(p[2], 2, 2) = m.report
        /\ Cod!Bits(p[2], 0, 1) = m.storage /\ p[3] = m.ref /\ Cod!Bits(p[4], 7, 1) = m.v2
        /\ Cod!Bits(p[4], 0, 7) = m.scheme /\ Cod!Bits(p[5], 4, 4) = m.function
    BY <1>2, <1>5, <1>6, <1>9, Zenon
  <2>3. /\ Cod!Bits(p[5], 0, 4) = m.number % 16 /\ Cod!Bits(p[6], 0, 4) = m.severity /\ Cod!Bits(p[6], 6, 2) = m.group
        /\ Cod!Bits(p[6], 5, 1) = m.stamp /\ Cod!Bits(p[6], 4, 1) = m.receipt
        /\ Cod!Bits(p[7], 7, 1) = m.status /\ Cod!Bits(p[7], 6, 1) = m.end
        /\ Cod!Bits(p[7], 5, 1) = m.noPtt /\ SubSeq(p, 8, Len(p)) = m.text
    BY <1>3, <1>4, <1>6, <1>9, Zenon
  <2> QED BY <1>11, <2>1, <2>2, <2>3, Zenon
<1>13. Cod!IsCallout(p) /\ Len(p) >= 7
  <2>1. Len(p) >= 6 /\ Len(p) >= 7
    BY <1>10
  <2> QED BY <1>9, <2>1, Zenon DEF Cod!IsCallout, Cod!ProtocolCallout
<1> QED BY <1>9, <1>12, <1>13 DEF p

\* Parsing undoes building.
LEMMA CalloutRead ==
    ASSUME NEW m \in Cod!Callouts
    PROVE  /\ Cod!BuildCallout(m) \in Seq(Nat) /\ Len(Cod!BuildCallout(m)) >= 7
           /\ Cod!BuildCallout(m)[1] = 195
           /\ Cod!IsCallout(Cod!BuildCallout(m)) /\ Cod!ParseCallout(Cod!BuildCallout(m)) = Sent(m)
BY NewLayout, OldLayout

\* A message without addresses is not taken for one with addresses.
LEMMA BareRead ==
    ASSUME NEW p, p[1] = 195
    PROVE  Cod!Unwrap(p) = [src |-> Cod!NoAddress, dst |-> Cod!NoAddress, payload |-> p]
<1>1. Cod!IsProtocol(p[1])
  BY DEF Cod!IsProtocol, Cod!ProtocolCallout
<1> QED BY <1>1, Zenon DEF Cod!Unwrap

\* Four bytes of a longer message: the first four, and the four after them.
LEMMA FourOf ==
    ASSUME NEW s \in Seq(Nat), Len(s) >= 8
    PROVE  /\ SubSeq(s, 1, 4) = <<s[1], s[2], s[3], s[4]>>
           /\ SubSeq(s, 5, 8) = <<s[5], s[6], s[7], s[8]>>
<1>1. ASSUME NEW i \in 1..8 PROVE s[i] \in Nat
  OBVIOUS
<1> DEFINE x == SubSeq(s, 1, 4)
           y == SubSeq(s, 5, 8)
<1>2. x \in Seq(Nat) /\ Len(x) = 4 /\ \A i \in 1..4 : x[i] = s[1 + i - 1]
  BY <1>1, SubSeqProperties
<1>3. y \in Seq(Nat) /\ Len(y) = 4 /\ \A i \in 1..4 : y[i] = s[5 + i - 1]
  BY <1>1, SubSeqProperties
<1> HIDE DEF x, y
<1>4. x = <<x[1], x[2], x[3], x[4]>> /\ y = <<y[1], y[2], y[3], y[4]>>
  BY <1>2, <1>3
<1>5. /\ x[1] = s[1] /\ x[2] = s[2] /\ x[3] = s[3] /\ x[4] = s[4]
      /\ y[1] = s[5] /\ y[2] = s[6] /\ y[3] = s[7] /\ y[4] = s[8]
  BY <1>2, <1>3
<1> QED BY <1>4, <1>5, Zenon DEF x, y

\* One with addresses is, and its parts are found, unless its first byte, the lowest of
\* its source, looks like a protocol.
LEMMA WrappedRead ==
    ASSUME NEW n \in Nat, NEW d \in Nat, NEW p \in Seq(Nat), Len(p) >= 7, p[1] = 195,
           Cod!LittleEndian(d) # Cod!NoAddress
    PROVE  /\ Len(Cod!Wrap(n, d, p)) = 8 + Len(p)
           /\ Cod!IsProtocol(n % 256) =>
                Cod!Unwrap(Cod!Wrap(n, d, p)) = [src |-> Cod!NoAddress, dst |-> Cod!NoAddress,
                                                 payload |-> Cod!Wrap(n, d, p)]
           /\ ~Cod!IsProtocol(n % 256) =>
                Cod!Unwrap(Cod!Wrap(n, d, p)) = [src |-> Cod!LittleEndian(n),
                                                 dst |-> Cod!LittleEndian(d), payload |-> p]
<1> DEFINE w == Cod!Wrap(n, d, p)
           n1 == n % 256
           n2 == (n \div 256) % 256
           n3 == (n \div 65536) % 256
           n4 == (n \div 16777216) % 256
           d1 == d % 256
           d2 == (d \div 256) % 256
           d3 == (d \div 65536) % 256
           d4 == (d \div 16777216) % 256
<1>1. /\ n1 \in Nat /\ n2 \in Nat /\ n3 \in Nat /\ n4 \in Nat
      /\ d1 \in Nat /\ d2 \in Nat /\ d3 \in Nat /\ d4 \in Nat
  OBVIOUS
<1>2. Cod!LittleEndian(n) = <<n1, n2, n3, n4>> /\ Cod!LittleEndian(d) = <<d1, d2, d3, d4>>
  BY DEF Cod!LittleEndian
<1>3. w = <<n1, n2, n3, n4>> \o <<d1, d2, d3, d4>> \o p
  BY <1>2 DEF Cod!Wrap
<1> HIDE DEF w, n1, n2, n3, n4, d1, d2, d3, d4
<1>4. /\ w \in Seq(Nat) /\ Len(w) = 8 + Len(p) /\ Len(p) \in Nat
      /\ w[1] = n1 /\ w[9] = p[1]
  <2>1. w \in Seq(Nat) /\ Len(p) \in Nat
    BY <1>1, <1>3
  <2>2. Len(w) = 8 + Len(p)
    BY <1>1, <1>3
  <2>3. w[1] = n1
    BY <1>1, <1>3
  <2>4. 1 \in 1..Len(p)
    BY <2>1
  <2>5. w[9] = p[1]
    BY <1>1, <1>3, <2>4
  <2> QED BY <2>1, <2>2, <2>3, <2>5
<1>5. /\ SubSeq(w, 1, 4) = <<n1, n2, n3, n4>> /\ SubSeq(w, 5, 8) = <<d1, d2, d3, d4>>
      /\ SubSeq(w, 9, Len(w)) = p
  <2>0. /\ w[1] = n1 /\ w[2] = n2 /\ w[3] = n3 /\ w[4] = n4
        /\ w[5] = d1 /\ w[6] = d2 /\ w[7] = d3 /\ w[8] = d4
    BY <1>1, <1>3
  <2>1. Len(w) >= 8
    BY <1>4
  <2>2. /\ SubSeq(w, 1, 4) = <<w[1], w[2], w[3], w[4]>>
        /\ SubSeq(w, 5, 8) = <<w[5], w[6], w[7], w[8]>>
    BY <1>4, <2>1, FourOf, Zenon
  <2>3. SubSeq(w, 9, Len(w)) = p
    BY <1>1, <1>3, <1>4
  <2> QED BY <2>0, <2>2, <2>3, Zenon
<1>6. Len(w) >= 9 /\ Cod!IsProtocol(w[9])
  <2>1. Cod!IsProtocol(195)
    BY DEF Cod!IsProtocol, Cod!ProtocolCallout
  <2>2. Len(w) >= 9
    BY <1>4
  <2> QED BY <1>4, <2>1, <2>2, Zenon
<1>7. CASE Cod!IsProtocol(n % 256)
  <2>1. Cod!IsProtocol(w[1])
    BY <1>4, <1>7 DEF n1
  <2>2. Cod!Unwrap(w) = [src |-> Cod!NoAddress, dst |-> Cod!NoAddress, payload |-> w]
    BY <2>1, Zenon DEF Cod!Unwrap
  <2> QED BY <1>4, <1>7, <2>2, Zenon DEF w
<1>8. CASE ~Cod!IsProtocol(n % 256)
  <2>1. ~Cod!IsProtocol(w[1])
    BY <1>4, <1>8 DEF n1
  <2>2. Cod!Unwrap(w) = [src |-> SubSeq(w, 1, 4), dst |-> SubSeq(w, 5, 8),
                         payload |-> SubSeq(w, 9, Len(w))]
    BY <1>2, <1>5, <1>6, <2>1, Zenon DEF Cod!Unwrap
  <2> QED BY <1>2, <1>4, <1>5, <1>8, <2>2, Zenon DEF w
<1> QED BY <1>7, <1>8

\* What is on the wire is the message, bare or wrapped, and what was received is what
\* is made of it.
CodecInv ==
    /\ input \in Input
    /\ \/ frame = <<>>
       \/ frame = Cod!BuildCallout(input.m)
       \/ frame = Cod!Wrap(input.src, input.dst, Cod!BuildCallout(input.m))
    /\ output # Cod!Nothing => frame # <<>> /\ output = Cod!Unwrap(frame)

LEMMA CodecArrives ==
    ASSUME Cod!CodecConstants, CodecInv
    PROVE  Cod!SdsArrives
<1> SUFFICES ASSUME output # Cod!Nothing
             PROVE  Cod!SdsArrives
  BY DEF Cod!SdsArrives, Cod!CalloutArrives, Cod!AddressesArrive
<1> DEFINE p == Cod!BuildCallout(input.m)
           w == Cod!Wrap(input.src, input.dst, p)
<1>1. /\ input.m \in Cod!Callouts /\ input.src \in Nat /\ input.dst \in Nat
      /\ Cod!LittleEndian(input.dst) # Cod!NoAddress
  BY DEF Cod!CodecConstants, CodecInv
<1>2. /\ p \in Seq(Nat) /\ Len(p) >= 7 /\ p[1] = 195
      /\ Cod!IsCallout(p) /\ Cod!ParseCallout(p) = Sent(input.m)
  BY <1>1, CalloutRead
<1>3. Cod!Message = Sent(input.m)
  BY DEF Cod!Message, Sent
<1>4. output = Cod!Unwrap(frame) /\ (frame = p \/ frame = w)
  BY DEF CodecInv
<1>5. CASE frame = p
  <2>1. output = [src |-> Cod!NoAddress, dst |-> Cod!NoAddress, payload |-> p]
    BY <1>2, <1>4, <1>5, BareRead
  <2>2. output.src = Cod!NoAddress /\ output.dst = Cod!NoAddress /\ output.payload = p
    BY <2>1
  <2>3. Cod!Bare
    BY <1>5 DEF Cod!Bare
  <2> QED
    BY <1>2, <1>3, <2>2, <2>3, Zenon DEF Cod!SdsArrives, Cod!CalloutArrives, Cod!AddressesArrive
<1>6. CASE frame = w
  <2> HIDE DEF p
  <2>1. /\ Len(w) = 8 + Len(p)
        /\ Cod!IsProtocol(input.src % 256) =>
             Cod!Unwrap(w) = [src |-> Cod!NoAddress, dst |-> Cod!NoAddress, payload |-> w]
        /\ ~Cod!IsProtocol(input.src % 256) =>
             Cod!Unwrap(w) = [src |-> Cod!LittleEndian(input.src),
                              dst |-> Cod!LittleEndian(input.dst), payload |-> p]
    BY <1>1, <1>2, WrappedRead
  <2> HIDE DEF w
  <2>2. ~Cod!Bare
    <3>1. w # p
      BY <1>2, <2>1
    <3> QED BY <1>6, <3>1 DEF Cod!Bare, p
  <2>3. CASE Cod!IsProtocol(input.src % 256)
    <3>1. output.payload = frame
      BY <1>4, <1>6, <2>1, <2>3
    <3> QED BY <2>2, <2>3, <3>1 DEF Cod!SdsArrives, Cod!CalloutArrives, Cod!AddressesArrive
  <2>4. CASE ~Cod!IsProtocol(input.src % 256)
    <3>1. /\ output.payload = p /\ output.src = Cod!LittleEndian(input.src)
          /\ output.dst = Cod!LittleEndian(input.dst)
      BY <1>4, <1>6, <2>1, <2>4
    <3> QED BY <1>2, <1>3, <2>2, <3>1, Zenon
            DEF Cod!SdsArrives, Cod!CalloutArrives, Cod!AddressesArrive
  <2> QED BY <2>3, <2>4
<1> QED BY <1>4, <1>5, <1>6

\* Every call-out, with any fields and any text, arrives as it was sent in both layouts,
\* bare or wrapped, and its addresses with it: what buildCalloutPayload and
\* buildSDSFramePayload write, parseSDSFrameEnvelope and parseCalloutPayload read.  The
\* exception is a source whose lowest byte looks like a protocol.
THEOREM CalloutsArrive ==
    ASSUME Cod!CodecConstants
    PROVE  Cod!Spec => []SdsArrives
<1>1. Cod!Init => CodecInv
  BY DEF Cod!Init, CodecInv
<1>2. CodecInv /\ [Cod!Next]_Cod!vars => CodecInv'
  <2> SUFFICES ASSUME CodecInv, [Cod!Next]_Cod!vars
               PROVE  CodecInv'
    OBVIOUS
  <2>1. ASSUME NEW wrapped \in BOOLEAN, Cod!Send(wrapped)
        PROVE  CodecInv'
    BY <2>1 DEF Cod!Send, CodecInv
  <2>2. CASE Cod!Receive
    BY <2>2 DEF Cod!Receive, CodecInv
  <2>3. CASE UNCHANGED Cod!vars
    BY <2>3 DEF Cod!vars, CodecInv
  <2> QED BY <2>1, <2>2, <2>3 DEF Cod!Next
<1>3. CodecInv => SdsArrives
  BY CodecArrives DEF SdsArrives
<1> QED BY <1>1, <1>2, <1>3, PTL DEF Cod!Spec
-----------------------------------------------------------------------------
(* Call-outs                                                               *)

\* What an operator's request may be doing.
Requests ==
    [at : {"idle"}] \cup [at : {"build", "board"}, phase : Out!Phases, num : Out!Number]

Threads == [phase : Out!Phases, sent : Out!Phases \cup {"nothing"}]

\* The threads and the order they were updated in.
ThreadsInv ==
    /\ DOMAIN threads \subseteq Out!Key
    /\ \A k \in DOMAIN threads : threads[k] \in Threads
    /\ DOMAIN age = DOMAIN threads
    /\ \A k, j \in DOMAIN age : age[k] \in Nat /\ (age[k] = age[j] => k = j)

BoardInv ==
    /\ DOMAIN board \subseteq Out!Number
    /\ \A n \in DOMAIN board :
          board[n] \in [state : Out!Phases, src : Radio \cup {Out!Desk}]
    /\ replies \subseteq Radio \X Out!Number

\* The route's number is noted and open, or on its way, or was given up.
RequestsInv ==
    /\ active \in Out!Number \cup {Out!None}
    /\ seq \in Out!Number
    /\ op \in [Operator -> Requests]
    /\ unnoted \subseteq Out!Number
    /\ count \in 0..MaxMessages

CalloutInv == ThreadsInv /\ BoardInv /\ RequestsInv /\ Out!RouteIsOpen

\* The thread of a message the desk sent to the group.
FromDesk(n) == [dst |-> Out!Group, src |-> Out!Desk, num |-> n]
Open(n) == FromDesk(n) \in DOMAIN threads /\ threads[FromDesk(n)].sent = "open"

LEMMA CalloutTypes ==
    ASSUME CalloutInv
    PROVE  Out!TypeOK /\ Out!RouteIsOpen
<1>1. \A o \in Operator : op[o].at \in {"idle", "build", "board"}
  BY DEF CalloutInv, RequestsInv, Requests
<1> QED BY <1>1 DEF CalloutInv, ThreadsInv, Threads, BoardInv, RequestsInv, Out!TypeOK

\* The route, said of the threads as they are named here.
LEMMA RouteOpen ==
    Out!RouteIsOpen <=>
        (active # Out!None /\ active \notin unnoted /\ ~Out!BeingBuilt(active) => Open(active))
BY DEF Out!RouteIsOpen, Open, FromDesk

\* The number a request carries is a number, as is the part of it the old layout has
\* room for.
LEMMA OnTheAir ==
    ASSUME Out!CalloutConstants, NEW n \in Out!Number
    PROVE  n % Wire \in Out!Number /\ 0..(Wire - 1) \subseteq Out!Number
<1>1. n \in Nat /\ Wire \in Nat /\ Wire > 0 /\ Wire <= Counter /\ Counter \in Nat
  BY DEF Out!CalloutConstants, Out!Number
<1>2. n % Wire \in 0..(Wire - 1)
  BY <1>1
<1>3. 0..(Wire - 1) \subseteq 0..(Counter - 1)
  BY <1>1
<1> QED BY <1>2, <1>3 DEF Out!Number

LEMMA PhaseOf == \A fn, ends : Out!Phase(fn, ends) \in Out!Phases
BY DEF Out!Phase, Out!Phases

\* A thread is updated: it is there, and no two were updated last.
LEMMA ThreadUpdated ==
    ASSUME ThreadsInv, NEW k \in Out!Key, NEW v \in Threads,
           threads' = Out!Put(threads, k, v), age' = Out!Updated(k)
    PROVE  /\ ThreadsInv'
           /\ DOMAIN threads' = DOMAIN threads \cup {k}
           /\ threads'[k] = v
           /\ \A j \in DOMAIN threads : j # k => threads'[j] = threads[j]
<1>1. /\ DOMAIN threads' = DOMAIN threads \cup {k}
      /\ threads'[k] = v
      /\ \A j \in DOMAIN threads : j # k => threads'[j] = threads[j]
  BY DEF Out!Put
<1>2. DOMAIN age' = DOMAIN threads'
  BY <1>1 DEF Out!Updated, ThreadsInv
<1>3. \A j \in DOMAIN age' :
         age'[j] = IF j = k THEN 0
                   ELSE IF k \in DOMAIN age /\ age[k] < age[j] THEN age[j] ELSE age[j] + 1
  BY DEF Out!Updated
<1>4. \A j \in DOMAIN age' : j # k => j \in DOMAIN age
  BY <1>1, <1>2 DEF ThreadsInv
<1>5. \A j \in DOMAIN age' : age'[j] \in Nat
  BY <1>3, <1>4 DEF ThreadsInv
<1>6. ASSUME NEW i \in DOMAIN age', NEW j \in DOMAIN age', age'[i] = age'[j]
      PROVE  i = j
  <2>1. CASE i = k \/ j = k
    BY <1>3, <1>4, <1>6, <2>1 DEF ThreadsInv
  <2>2. CASE i # k /\ j # k
    <3>1. age[i] \in Nat /\ age[j] \in Nat /\ (k \in DOMAIN age => age[k] \in Nat)
      BY <1>4, <2>2 DEF ThreadsInv
    <3>2. age[i] = age[j]
      BY <1>3, <1>4, <1>6, <2>2, <3>1 DEF ThreadsInv
    <3> QED BY <1>4, <2>2, <3>2 DEF ThreadsInv
  <2> QED BY <2>1, <2>2
<1>7. \A j \in DOMAIN threads' : threads'[j] \in Threads
  BY <1>1 DEF ThreadsInv
<1>8. DOMAIN threads' \subseteq Out!Key
  BY <1>1 DEF ThreadsInv
<1> QED BY <1>1, <1>2, <1>5, <1>6, <1>7, <1>8 DEF ThreadsInv

\* The board with one more state.
LEMMA BoardPut ==
    ASSUME BoardInv, NEW n \in Out!Number,
           NEW e \in [state : Out!Phases, src : Radio \cup {Out!Desk}],
           board' = Out!Put(board, n, e), replies' = replies
    PROVE  BoardInv'
BY DEF BoardInv, Out!Put

\* A request is given something else to do, or is done.
LEMMA RequestStep ==
    ASSUME RequestsInv, NEW o \in Operator, NEW t \in Requests, op' = [op EXCEPT ![o] = t],
           active' \in Out!Number \cup {Out!None}, seq' \in Out!Number,
           unnoted' \subseteq Out!Number, count' \in 0..MaxMessages
    PROVE  RequestsInv' /\ op'[o] = t /\ \A p \in Operator : p # o => op'[p] = op[p]
BY DEF RequestsInv

\* A step that leaves the route alone, as well as its thread and who builds its message.
LEMMA RouteStays ==
    ASSUME Out!RouteIsOpen, active' = active, unnoted \subseteq unnoted',
           Open(active) => FromDesk(active) \in DOMAIN threads' /\ threads'[FromDesk(active)].sent = "open",
           \A o \in Operator :
              op[o].at = "build" /\ op[o].num = active => op'[o] = op[o] \/ active \in unnoted'
    PROVE  Out!RouteIsOpen'
<1> SUFFICES ASSUME active # Out!None, active \notin unnoted',
                    \A o \in Operator : ~(op'[o].at = "build" /\ op'[o].num = active)
             PROVE  FromDesk(active) \in DOMAIN threads' /\ threads'[FromDesk(active)].sent = "open"
  BY DEF Out!RouteIsOpen, Out!BeingBuilt, Out!None, FromDesk
<1>1. active \notin unnoted /\ \A o \in Operator : ~(op[o].at = "build" /\ op[o].num = active)
  OBVIOUS
<1>2. Open(active)
  BY <1>1, RouteOpen DEF Out!BeingBuilt
<1> QED BY <1>2

\* A request takes its number.
LEMMA AllocateStep ==
    ASSUME Out!CalloutConstants, CalloutInv, NEW o \in Operator, NEW fn \in Out!Function, NEW ends \in BOOLEAN,
           NEW mode \in {"organized", "reuse", "random"}, Out!Allocate(o, fn, ends, mode)
    PROVE  CalloutInv'
<1>1. /\ op[o] = Out!Idle /\ count < MaxMessages /\ count' = count + 1
      /\ UNCHANGED <<threads, age, board, replies, unnoted>>
      /\ Counter \in Nat /\ Counter > 0 /\ MaxMessages \in Nat
  BY DEF Out!Allocate, Out!Counted, Out!CalloutConstants
<1>2. PICK n \in Out!Number :
        /\ Out!Request(o, fn, ends, n)
        /\ active' \in {n, active, Out!None} /\ seq' \in {n, seq}
  <2>1. CASE Out!Stays(fn, mode)
    <3>1. active \in Out!Number
      BY <2>1 DEF Out!Stays, CalloutInv, RequestsInv
    <3>2. /\ Out!Request(o, fn, ends, active)
          /\ active' \in {active, Out!None} /\ seq' = seq
      BY <2>1 DEF Out!Allocate
    <3> QED BY <3>1, <3>2
  <2>2. CASE ~Out!Stays(fn, mode)
    <3>1. PICK n \in IF mode = "random" THEN Out!Number ELSE {(seq + 1) % Counter} :
             /\ Out!Request(o, fn, ends, n)
             /\ active' = IF fn = "clear" THEN active ELSE n
             /\ seq' = IF mode = "random" THEN seq ELSE n
      BY <2>2, Zenon DEF Out!Allocate
    <3>2. n \in Out!Number
      <4>1. seq + 1 \in Nat
        BY <1>1 DEF CalloutInv, RequestsInv, Out!Number
      <4>2. (seq + 1) % Counter \in 0..(Counter - 1)
        BY <1>1, <4>1
      <4> QED BY <3>1, <4>2 DEF Out!Number
    <3> QED BY <2>2, <3>1, <3>2
  <2> QED BY <2>1, <2>2
<1> DEFINE t == [at |-> "build", phase |-> Out!Phase(fn, ends), num |-> n]
<1>3. t \in Requests /\ t.at = "build" /\ t.num = n
  BY PhaseOf DEF Requests
<1>4. ThreadsInv' /\ BoardInv'
  BY <1>1 DEF CalloutInv, ThreadsInv, BoardInv
<1> HIDE DEF t
<1>5. RequestsInv'
  <2>1. RequestsInv
    BY DEF CalloutInv
  <2>2. /\ active' \in Out!Number \cup {Out!None} /\ seq' \in Out!Number
        /\ unnoted' \subseteq Out!Number /\ count' \in 0..MaxMessages
    BY <1>1, <1>2 DEF CalloutInv, RequestsInv
  <2>3. op' = [op EXCEPT ![o] = t]
    BY <1>2 DEF t, Out!Request
  <2> QED BY <1>3, <2>1, <2>2, <2>3, RequestStep
<1>6. Out!RouteIsOpen'
  <2>1. RequestsInv /\ op' = [op EXCEPT ![o] = t]
    BY <1>2 DEF CalloutInv, t, Out!Request
  <2>2. /\ op'[o].at = "build" /\ op'[o].num = n
        /\ \A p \in Operator : p # o => op'[p] = op[p]
    BY <1>3, <2>1 DEF RequestsInv
  <2>3. CASE active' \in {n, Out!None}
    BY <2>2, <2>3 DEF Out!RouteIsOpen, Out!BeingBuilt, Out!None
  <2>4. CASE active' = active
    <3>1. \A p \in Operator : op[p].at = "build" => op'[p] = op[p]
      BY <1>1, <2>2 DEF Out!Idle
    <3> QED BY <1>1, <2>4, <3>1, RouteStays DEF CalloutInv, Open
  <2> QED BY <1>2, <2>3, <2>4
<1> QED BY <1>4, <1>5, <1>6 DEF CalloutInv

\* A request for a call-out of the board.
LEMMA ForcedStep ==
    ASSUME Out!CalloutConstants, CalloutInv, NEW o \in Operator, NEW fn \in Out!Function, NEW ends \in BOOLEAN,
           Out!Forced(o, fn, ends)
    PROVE  CalloutInv'
<1>1. /\ op[o] = Out!Idle /\ count < MaxMessages /\ count' = count + 1
      /\ UNCHANGED <<active, seq, threads, age, board, replies, unnoted>>
      /\ MaxMessages \in Nat
  BY DEF Out!Forced, Out!Counted, Out!CalloutConstants
<1>2. PICK n \in DOMAIN board : Out!Request(o, fn, ends, n)
  BY DEF Out!Forced
<1> DEFINE t == [at |-> "build", phase |-> Out!Phase(fn, ends), num |-> n]
<1>3. t \in Requests
  BY PhaseOf DEF Requests, CalloutInv, BoardInv
<1>4. op' = [op EXCEPT ![o] = t]
  BY <1>2 DEF Out!Request
<1> HIDE DEF t
<1>5. ThreadsInv' /\ BoardInv'
  BY <1>1 DEF CalloutInv, ThreadsInv, BoardInv
<1>6. RequestsInv
  BY DEF CalloutInv
<1>7. RequestsInv' /\ \A p \in Operator : p # o => op'[p] = op[p]
  <2>1. /\ active' \in Out!Number \cup {Out!None} /\ seq' \in Out!Number
        /\ unnoted' \subseteq Out!Number /\ count' \in 0..MaxMessages
    BY <1>1, <1>6 DEF RequestsInv
  <2> QED BY <1>3, <1>4, <1>6, <2>1, RequestStep
<1>8. Out!RouteIsOpen'
  <2>1. \A p \in Operator : op[p].at = "build" => op'[p] = op[p]
    BY <1>1, <1>7 DEF Out!Idle
  <2> QED BY <1>1, <2>1, RouteStays DEF CalloutInv, Open
<1> QED BY <1>5, <1>7, <1>8 DEF CalloutInv

\* A request that is not noted: its number is one of those nothing is said about.
LEMMA NotNotedStep ==
    ASSUME CalloutInv, NEW o \in Operator, Out!NotNoted(o)
    PROVE  CalloutInv'
<1>1. /\ op[o].at = "build" /\ unnoted' = unnoted \cup {op[o].num}
      /\ op' = [op EXCEPT ![o] = Out!Idle]
      /\ UNCHANGED <<active, seq, threads, age, board, replies, count>>
  BY DEF Out!NotNoted
<1>2. RequestsInv /\ Out!Idle \in Requests
  BY DEF CalloutInv, Requests, Out!Idle
<1>3. op[o].num \in Out!Number
  BY <1>1, <1>2 DEF RequestsInv, Requests
<1>4. ThreadsInv' /\ BoardInv'
  BY <1>1 DEF CalloutInv, ThreadsInv, BoardInv
<1>5. RequestsInv' /\ \A p \in Operator : p # o => op'[p] = op[p]
  <2>1. /\ active' \in Out!Number \cup {Out!None} /\ seq' \in Out!Number
        /\ unnoted' \subseteq Out!Number /\ count' \in 0..MaxMessages
    BY <1>1, <1>2, <1>3 DEF RequestsInv
  <2> QED BY <1>1, <1>2, <2>1, RequestStep
<1>6. Out!RouteIsOpen'
  BY <1>1, <1>5, RouteStays DEF CalloutInv, Open
<1> QED BY <1>4, <1>5, <1>6 DEF CalloutInv

\* The message is sent and noted: the route is its thread, or is given up.
LEMMA NoteStep ==
    ASSUME Out!CalloutConstants, CalloutInv, NEW o \in Operator, Out!Note(o)
    PROVE  CalloutInv'
<1>1. op[o].at = "build" /\ UNCHANGED <<seq, board, replies, count>> /\ RequestsInv /\ ThreadsInv
  BY DEF Out!Note, CalloutInv
<1>2. op[o].num \in Out!Number /\ op[o].phase \in Out!Phases
  BY <1>1 DEF RequestsInv, Requests
<1> DEFINE v == [phase |-> op[o].phase, sent |-> op[o].phase]
<1>3. PICK n \in {op[o].num, op[o].num % Wire} :
         /\ threads' = Out!Put(threads, FromDesk(n), v)
         /\ age' = Out!Updated(FromDesk(n))
         /\ active' = Out!RouteNoted(op[o].phase, n)
         /\ unnoted' = unnoted \ {n}
         /\ op' = [op EXCEPT ![o] = [at |-> "board", phase |-> op[o].phase, num |-> n]]
  BY DEF Out!Note, FromDesk
<1>4. n \in Out!Number
  BY <1>2, OnTheAir
<1> DEFINE t == [at |-> "board", phase |-> op[o].phase, num |-> n]
<1>5. t \in Requests
  BY <1>2, <1>4 DEF Requests
<1>6. op' = [op EXCEPT ![o] = t]
  BY <1>3
<1> HIDE DEF t
<1>7. FromDesk(n) \in Out!Key
  BY <1>4 DEF FromDesk, Out!Key
<1>8. v \in Threads /\ (op[o].phase # "cleared" => v.sent = "open")
  BY <1>2 DEF Threads, Out!Phases
<1> HIDE DEF v
<1>9. /\ ThreadsInv'
      /\ DOMAIN threads' = DOMAIN threads \cup {FromDesk(n)}
      /\ threads'[FromDesk(n)] = v
  BY <1>1, <1>3, <1>7, <1>8, ThreadUpdated
<1>10. BoardInv'
  BY <1>1 DEF CalloutInv, BoardInv
<1>11. active' \in {n, Out!None} /\ (active' = n => op[o].phase # "cleared" \/ n = Out!None)
  BY <1>3 DEF Out!RouteNoted
<1>12. RequestsInv'
  <2>1. /\ active' \in Out!Number \cup {Out!None} /\ seq' \in Out!Number
        /\ unnoted' \subseteq Out!Number /\ count' \in 0..MaxMessages
    BY <1>1, <1>3, <1>4, <1>11 DEF RequestsInv
  <2> QED BY <1>1, <1>5, <1>6, <2>1, RequestStep
<1>13. Out!RouteIsOpen'
  <2>1. CASE active' = n /\ n # Out!None
    BY <1>8, <1>9, <1>11, <2>1 DEF Out!RouteIsOpen, FromDesk
  <2>2. CASE active' = Out!None
    BY <2>2 DEF Out!RouteIsOpen, Out!None
  <2> QED BY <1>11, <2>1, <2>2
<1> QED BY <1>9, <1>10, <1>12, <1>13 DEF CalloutInv

\* The state of a message that was sent.
LEMMA NoteBoardStep ==
    ASSUME CalloutInv, NEW o \in Operator, Out!NoteBoard(o)
    PROVE  CalloutInv'
<1> DEFINE e == [state |-> op[o].phase, src |-> Out!Desk]
           n == op[o].num
<1>1. /\ op[o].at = "board" /\ board' = Out!Put(board, n, e) /\ op' = [op EXCEPT ![o] = Out!Idle]
      /\ UNCHANGED <<active, seq, threads, age, replies, unnoted, count>>
  BY DEF Out!NoteBoard
<1>2. RequestsInv /\ BoardInv /\ Out!Idle \in Requests
  BY DEF CalloutInv, Requests, Out!Idle
<1>3. n \in Out!Number /\ e \in [state : Out!Phases, src : Radio \cup {Out!Desk}]
  BY <1>1, <1>2 DEF RequestsInv, Requests
<1> HIDE DEF n, e
<1>4. BoardInv'
  BY <1>1, <1>2, <1>3, BoardPut
<1>5. ThreadsInv'
  BY <1>1 DEF CalloutInv, ThreadsInv
<1>6. RequestsInv' /\ \A p \in Operator : p # o => op'[p] = op[p]
  <2>1. /\ active' \in Out!Number \cup {Out!None} /\ seq' \in Out!Number
        /\ unnoted' \subseteq Out!Number /\ count' \in 0..MaxMessages
    BY <1>1, <1>2 DEF RequestsInv
  <2> QED BY <1>1, <1>2, <2>1, RequestStep
<1>7. Out!RouteIsOpen'
  BY <1>1, <1>6, RouteStays DEF CalloutInv, Open
<1> QED BY <1>4, <1>5, <1>6, <1>7 DEF CalloutInv

\* A radio's message: it may clear a thread, and leaves what the desk sent there.
LEMMA RxStep ==
    ASSUME Out!CalloutConstants, CalloutInv, NEW r \in Radio, NEW n \in Out!Number,
           NEW d \in {Out!Group, Out!Desk}, NEW phase \in Out!Phases, NEW reply \in BOOLEAN,
           Out!Rx(r, n, d, phase, reply),
           Out!Counted, UNCHANGED <<active, seq, op, unnoted>>
    PROVE  CalloutInv'
<1>1. ThreadsInv /\ BoardInv /\ RequestsInv
  BY DEF CalloutInv
<1>2. PICK k \in Out!Targets(r, n, d) :
         threads' = Out!Put(threads, k, Out!Received(k, phase)) /\ age' = Out!Updated(k)
  BY DEF Out!Rx
<1> DEFINE v == Out!Received(k, phase)
<1>3. k \in Out!Key
  <2>1. [dst |-> d, src |-> r, num |-> n] \in Out!Key
    BY DEF Out!Key
  <2>2. Out!Latest(Out!Matching(n, d)) \subseteq DOMAIN threads
    BY DEF Out!Latest, Out!Matching
  <2> QED BY <1>1, <1>2, <2>1, <2>2 DEF Out!Targets, ThreadsInv
<1>4. v \in Threads /\ (k \in DOMAIN threads => v.sent = threads[k].sent)
  BY <1>1 DEF Out!Received, ThreadsInv, Threads
<1>9. threads' = Out!Put(threads, k, v) /\ age' = Out!Updated(k)
  BY <1>2
<1> HIDE DEF v
<1>5. /\ ThreadsInv'
      /\ DOMAIN threads' = DOMAIN threads \cup {k} /\ threads'[k] = v
      /\ \A j \in DOMAIN threads : j # k => threads'[j] = threads[j]
  BY <1>1, <1>3, <1>4, <1>9, ThreadUpdated
<1>6. BoardInv'
  <2>1. CASE reply
    BY <1>1, <2>1 DEF Out!Rx, Out!NoteRx, BoardInv
  <2>2. CASE ~reply
    <3> DEFINE e == [state |-> phase, src |-> IF n \in DOMAIN board THEN board[n].src ELSE r]
    <3>1. e \in [state : Out!Phases, src : Radio \cup {Out!Desk}]
      BY <1>1 DEF BoardInv
    <3>2. board' = Out!Put(board, n, e) /\ replies' = replies
      BY <2>2 DEF Out!Rx, Out!NoteRx, Out!Heard
    <3> HIDE DEF e
    <3> QED BY <1>1, <3>1, <3>2, BoardPut
  <2> QED BY <2>1, <2>2
<1>7. RequestsInv'
  BY <1>1 DEF RequestsInv, Out!Counted, Out!CalloutConstants
<1>8. Out!RouteIsOpen'
  <2>1. Open(active) => FromDesk(active) \in DOMAIN threads' /\ threads'[FromDesk(active)].sent = "open"
    BY <1>4, <1>5 DEF Open
  <2> QED BY <2>1, RouteStays DEF CalloutInv
<1> QED BY <1>5, <1>6, <1>7, <1>8 DEF CalloutInv

LEMMA CalloutStep ==
    ASSUME Out!CalloutConstants, CalloutInv, [Out!Next]_(Out!vars)
    PROVE  CalloutInv'
<1>1. ASSUME NEW o \in Operator, NEW fn \in Out!Function, NEW ends \in BOOLEAN,
             NEW mode \in {"organized", "reuse", "random"}, Out!Allocate(o, fn, ends, mode)
      PROVE  CalloutInv'
  BY <1>1, AllocateStep
<1>2. ASSUME NEW o \in Operator, NEW fn \in Out!Function, NEW ends \in BOOLEAN,
             Out!Forced(o, fn, ends)
      PROVE  CalloutInv'
  BY <1>2, ForcedStep
<1>3. ASSUME NEW o \in Operator, Out!Fail(o) \/ Out!SendVirtual(o)
      PROVE  CalloutInv'
  BY <1>3, NotNotedStep DEF Out!Fail, Out!SendVirtual
<1>4. ASSUME NEW o \in Operator, Out!Note(o)
      PROVE  CalloutInv'
  BY <1>4, NoteStep
<1>5. ASSUME NEW o \in Operator, Out!NoteBoard(o)
      PROVE  CalloutInv'
  BY <1>5, NoteBoardStep
<1>6. \A k \in DOMAIN threads : k.num \in Out!Number
  BY DEF CalloutInv, ThreadsInv, Out!Key
<1>7. ASSUME NEW r \in Radio, NEW n \in {k.num : k \in DOMAIN threads},
             NEW d \in {Out!Group, Out!Desk}, NEW phase \in Out!Phases,
             Out!Acknowledge(r, n, d, phase)
      PROVE  CalloutInv'
  <2>1. n \in Out!Number
    BY <1>6, <1>7
  <2> QED BY <1>7, <2>1, RxStep DEF Out!Acknowledge
<1>8. ASSUME NEW r \in Radio, NEW n \in 0..(Wire - 1), NEW phase \in Out!Phases,
             Out!RadioCallout(r, n, phase)
      PROVE  CalloutInv'
  <2>1. 0 \in Out!Number
    BY DEF Out!Number, Out!CalloutConstants
  <2>2. n \in Out!Number
    BY <1>8, <2>1, OnTheAir
  <2> QED BY <1>8, <2>2, RxStep DEF Out!RadioCallout
<1>9. ASSUME NEW r \in Radio, Out!Text(r)
      PROVE  CalloutInv'
  <2>1. Out!Counted /\ UNCHANGED <<active, seq, op, unnoted>>
    BY <1>9 DEF Out!Text
  <2>2. ASSUME NEW n \in Out!Number, Out!Rx(r, n, Out!Group, "open", TRUE)
        PROVE  CalloutInv'
    <3>1. "open" \in Out!Phases
      BY DEF Out!Phases
    <3> QED BY <2>1, <2>2, <3>1, RxStep
  <2>3. ASSUME UNCHANGED <<threads, age, board, replies>>
        PROVE  CalloutInv'
    <3>1. ThreadsInv' /\ BoardInv'
      BY <2>3 DEF CalloutInv, ThreadsInv, BoardInv
    <3>2. RequestsInv'
      BY <2>1 DEF CalloutInv, RequestsInv, Out!Counted, Out!CalloutConstants
    <3>3. Out!RouteIsOpen'
      BY <2>1, <2>3, RouteStays DEF CalloutInv, Open
    <3> QED BY <3>1, <3>2, <3>3 DEF CalloutInv
  <2>4. \A k \in Out!Latest(Out!ThreadContexts(r)) : k \in DOMAIN threads
    BY DEF Out!Latest, Out!ThreadContexts
  <2>5. \A n \in Out!BoardContexts(r) : n \in Out!Number
    BY DEF Out!BoardContexts, CalloutInv, BoardInv
  <2> QED BY <1>6, <1>9, <2>2, <2>3, <2>4, <2>5 DEF Out!Text
<1>10. CASE UNCHANGED Out!vars
  BY <1>10 DEF Out!vars, CalloutInv, ThreadsInv, BoardInv, RequestsInv,
               Out!RouteIsOpen, Out!BeingBuilt
<1> QED BY <1>1, <1>2, <1>3, <1>4, <1>5, <1>7, <1>8, <1>9, <1>10 DEF Out!Next

\* Follow-ups and clears of any number of operators go to a call-out that was sent and that
\* no operator has ended: allocateOutboundCalloutNumber and noteTx agree on the route, in whichever order
\* requests that mix take their numbers and are noted, and whatever radios clear meanwhile
\* (noteRx leaves the route to the operators).  A radio's reply, which noteCalloutRx
\* keeps apart, changes no state of the board.
THEOREM CalloutsAlwaysSound ==
    ASSUME Out!CalloutConstants
    PROVE  Out!Spec => CalloutsSound
<1>1. Out!Init => CalloutInv
  <2> SUFFICES ASSUME Out!Init PROVE CalloutInv
    OBVIOUS
  <2>1. DOMAIN threads = {} /\ DOMAIN age = {} /\ DOMAIN board = {}
    BY DEF Out!Init
  <2>2. ThreadsInv /\ BoardInv
    BY <2>1 DEF Out!Init, ThreadsInv, BoardInv
  <2>3. RequestsInv
    BY DEF Out!Init, Out!Idle, Out!None, Out!Number, RequestsInv, Requests, Out!CalloutConstants
  <2>4. Out!RouteIsOpen
    BY DEF Out!Init, Out!RouteIsOpen
  <2> QED BY <2>2, <2>3, <2>4 DEF CalloutInv
<1>2. CalloutInv /\ [Out!Next]_(Out!vars) => CalloutInv'
  BY CalloutStep
<1>3. CalloutInv => Out!TypeOK /\ Out!RouteIsOpen
  BY CalloutTypes
<1>4. \A r \in Radio, n \in Out!Number, d \in {Out!Group, Out!Desk}, phase \in Out!Phases :
         Out!Acknowledge(r, n, d, phase) => board' = board
  BY DEF Out!Acknowledge, Out!Rx, Out!NoteRx
<1>5. [][\A r \in Radio, n \in Out!Number, d \in {Out!Group, Out!Desk}, phase \in Out!Phases :
            Out!Acknowledge(r, n, d, phase) => board' = board]_(Out!vars)
  BY <1>4, PTL
<1> QED BY <1>1, <1>2, <1>3, <1>5, PTL DEF Out!Spec, CalloutsSound, Out!RepliesApart

-----------------------------------------------------------------------------
(* The fields of packets                                                   *)

\* The words of 16 bits a field is read as.
LEMMA WordsRead ==
    ASSUME NEW n \in Nat, NEW b \in Seq(Pro!Byte), Len(b) = 2 * n
    PROVE  Pro!Words(b) \in [1..n -> Pro!Word]
<1> DEFINE e(i) == b[2 * i - 1] + 256 * b[2 * i]
<1>1. Len(b) \div 2 = n
  OBVIOUS
<1>2. ASSUME NEW i \in 1..n PROVE e(i) \in Pro!Word
  <2>1. 2 * i - 1 \in 1..Len(b) /\ 2 * i \in 1..Len(b)
    OBVIOUS
  <2>2. PICK x \in Pro!Byte : x = b[2 * i - 1]
    BY <2>1
  <2>3. PICK y \in Pro!Byte : y = b[2 * i]
    BY <2>1
  <2>4. x + 256 * y \in Pro!Word
    BY DEF Pro!Byte, Pro!Word
  <2> QED BY <2>2, <2>3, <2>4
<1>3. Pro!Words(b) = [i \in 1..n |-> e(i)]
  BY <1>1 DEF Pro!Words
<1> HIDE DEF e
<1> QED BY <1>2, <1>3

\* The bytes they are written as are read as the same words.
LEMMA WordsWritten ==
    ASSUME NEW n \in Nat, NEW w \in [1..n -> Pro!Word]
    PROVE  /\ Pro!Octets(w) \in Seq(Pro!Byte)
           /\ Len(Pro!Octets(w)) = 2 * n
           /\ Pro!Words(Pro!Octets(w)) = w
<1>1. w \in Seq(Pro!Word) /\ Len(w) = n
  OBVIOUS
<1> DEFINE o(i) == IF i % 2 = 1 THEN w[(i + 1) \div 2] % 256 ELSE w[i \div 2] \div 256
<1>2. Pro!Octets(w) = [i \in 1..(2 * n) |-> o(i)]
  BY <1>1 DEF Pro!Octets
<1>3. ASSUME NEW i \in 1..(2 * n) PROVE o(i) \in Pro!Byte
  <2>1. CASE i % 2 = 1
    <3>1. (i + 1) \div 2 \in 1..n
      BY <2>1
    <3>2. w[(i + 1) \div 2] \in Pro!Word
      BY <3>1
    <3>3. w[(i + 1) \div 2] % 256 \in Pro!Byte
      BY <3>2 DEF Pro!Byte, Pro!Word
    <3> QED BY <2>1, <3>3
  <2>2. CASE i % 2 # 1
    <3>1. i \div 2 \in 1..n
      BY <2>2
    <3>2. w[i \div 2] \in Pro!Word
      BY <3>1
    <3>3. w[i \div 2] \div 256 \in Pro!Byte
      BY <3>2 DEF Pro!Byte, Pro!Word
    <3> QED BY <2>2, <3>3
  <2> QED BY <2>1, <2>2
<1>4. ASSUME NEW i \in 1..n PROVE o(2 * i - 1) = w[i] % 256 /\ o(2 * i) = w[i] \div 256
  <2>1. (2 * i - 1) % 2 = 1 /\ (2 * i - 1 + 1) \div 2 = i
    OBVIOUS
  <2>2. (2 * i) % 2 # 1 /\ (2 * i) \div 2 = i
    OBVIOUS
  <2> QED BY <2>1, <2>2
<1> HIDE DEF o
<1>5. 2 * n \in Nat
  OBVIOUS
<1>6. Pro!Octets(w) \in Seq(Pro!Byte) /\ Len(Pro!Octets(w)) = 2 * n
  BY <1>2, <1>3, <1>5
<1>7. ASSUME NEW i \in 1..n
      PROVE  Pro!Octets(w)[2 * i - 1] + 256 * Pro!Octets(w)[2 * i] = w[i]
  <2>1. 2 * i - 1 \in 1..(2 * n) /\ 2 * i \in 1..(2 * n)
    OBVIOUS
  <2>2. Pro!Octets(w)[2 * i - 1] = w[i] % 256 /\ Pro!Octets(w)[2 * i] = w[i] \div 256
    BY <2>1, <1>2, <1>4
  <2>3. w[i] \in Nat
    BY DEF Pro!Word
  <2> QED BY <2>2, <2>3
<1>8. Len(Pro!Octets(w)) \div 2 = n
  BY <1>6
<1> QED BY <1>6, <1>7, <1>8 DEF Pro!Words

\* What stands before the first zero.
LEMMA ZeroFound ==
    ASSUME NEW s \in Seq(Nat), NEW n \in 0..Len(s), \A i \in 1..n : s[i] # 0,
           n < Len(s) => s[n + 1] = 0
    PROVE  Pro!BeforeZero(s) = SubSeq(s, 1, n)
<1> DEFINE zeros == {i \in 1..Len(s) : s[i] = 0}
<1>1. CASE n = Len(s)
  <2>1. zeros = {}
    BY <1>1
  <2>2. SubSeq(s, 1, n) = s
    BY <1>1, SubSeqFull
  <2> QED BY <2>1, <2>2 DEF Pro!BeforeZero
<1>2. CASE n < Len(s)
  <2>1. n + 1 \in zeros /\ \A j \in zeros : n + 1 <= j
    BY <1>2
  <2>2. zeros # {}
    BY <2>1
  <2> DEFINE c == CHOOSE i \in zeros : \A j \in zeros : i <= j
  <2>3. c \in zeros /\ \A j \in zeros : c <= j
    BY <2>1
  <2> HIDE DEF c
  <2>4. c <= n + 1 /\ n + 1 <= c /\ c \in Nat
    BY <2>1, <2>3
  <2>5. c - 1 = n
    BY <2>4
  <2> QED BY <2>2, <2>5, Zenon DEF Pro!BeforeZero, c
<1>3. n <= Len(s)
  OBVIOUS
<1> QED BY <1>1, <1>2, <1>3

\* A string that was cut off at the first zero holds none.
LEMMA ZeroCut ==
    ASSUME NEW s \in Seq(Pro!Byte)
    PROVE  Pro!BeforeZero(s) \in Seq(Pro!Byte \ {0}) /\ Len(Pro!BeforeZero(s)) <= Len(s)
<1> DEFINE zeros == {i \in 1..Len(s) : s[i] = 0}
<1>1. \E n \in 0..Len(s) : (\A i \in 1..n : s[i] # 0) /\ (n < Len(s) => s[n + 1] = 0)
  <2>1. CASE zeros = {}
    <3>1. \A i \in 1..Len(s) : s[i] # 0
      BY <2>1
    <3>2. Len(s) \in 0..Len(s)
      OBVIOUS
    <3> QED BY <3>1, <3>2
  <2>2. CASE zeros # {}
    <3>0. zeros \in SUBSET Nat
      OBVIOUS
    <3> HIDE DEF zeros
    <3>1. PICK z \in zeros : \A j \in zeros : z <= j
      BY <3>0, <2>2, Least
    <3> USE DEF zeros
    <3>2. z - 1 \in 0..Len(s) /\ z - 1 + 1 = z /\ z \in 1..Len(s) /\ s[z] = 0
      BY <3>1
    <3>3. \A i \in 1..(z - 1) : s[i] # 0
      BY <3>1, <3>2
    <3> QED BY <3>2, <3>3
  <2> QED BY <2>1, <2>2
<1>2. PICK n \in 0..Len(s) : (\A i \in 1..n : s[i] # 0) /\ (n < Len(s) => s[n + 1] = 0)
  BY <1>1
<1>3. s \in Seq(Nat)
  BY SeqMonotonic, Pro!Byte \subseteq Nat DEF Pro!Byte
<1>4. Pro!BeforeZero(s) = SubSeq(s, 1, n)
  BY <1>2, <1>3, ZeroFound
<1>5. \A i \in 1..n : s[i] \in Pro!Byte \ {0}
  <2> TAKE i \in 1..n
  <2>1. i \in 1..Len(s)
    OBVIOUS
  <2>2. s[i] \in Pro!Byte /\ s[i] # 0
    BY <2>1, <1>2
  <2> QED BY <2>2
<1>6. SubSeq(s, 1, n) \in Seq(Pro!Byte \ {0}) /\ Len(SubSeq(s, 1, n)) = IF 1 <= n THEN n - 1 + 1 ELSE 0
  BY <1>5, SubSeqProperties
<1> QED BY <1>4, <1>6

\* It is found again before the zeros that fill up its place or end it.
LEMMA ZeroKept ==
    ASSUME NEW s \in Seq(Pro!Byte \ {0}), NEW z \in Seq({0})
    PROVE  Pro!BeforeZero(s \o z) = s /\ s \o z \in Seq(Pro!Byte)
<1>1. s \in Seq(Pro!Byte) /\ z \in Seq(Pro!Byte)
  BY SeqMonotonic, Pro!Byte \ {0} \subseteq Pro!Byte, {0} \subseteq Pro!Byte DEF Pro!Byte
<1>2. /\ s \o z \in Seq(Pro!Byte)
      /\ Len(s \o z) = Len(s) + Len(z)
      /\ \A i \in 1..(Len(s) + Len(z)) : (s \o z)[i] = IF i <= Len(s) THEN s[i] ELSE z[i - Len(s)]
  BY <1>1, ConcatProperties
<1>3. Len(s) \in Nat /\ Len(z) \in Nat
  OBVIOUS
<1>4. \A i \in 1..Len(s) : (s \o z)[i] # 0
  <2> TAKE i \in 1..Len(s)
  <2>1. (s \o z)[i] = s[i] /\ s[i] \in Pro!Byte \ {0}
    BY <1>2, <1>3
  <2> QED BY <2>1
<1>5. Len(s) < Len(s \o z) => (s \o z)[Len(s) + 1] = 0
  <2> HAVE Len(s) < Len(s \o z)
  <2>1. Len(s) + 1 \in 1..(Len(s) + Len(z)) /\ ~(Len(s) + 1 <= Len(s)) /\ Len(s) + 1 - Len(s) = 1
    BY <1>2, <1>3
  <2>2. (s \o z)[Len(s) + 1] = z[1]
    BY <1>2, <2>1
  <2>3. 1 \in 1..Len(z)
    BY <1>2, <1>3
  <2>4. z[1] \in {0}
    BY <2>3, ElementOfSeq
  <2> QED BY <2>2, <2>4
<1>6. s \o z \in Seq(Nat) /\ Len(s) \in 0..Len(s \o z)
  BY <1>2, <1>3, SeqMonotonic, Pro!Byte \subseteq Nat DEF Pro!Byte
<1>7. Pro!BeforeZero(s \o z) = SubSeq(s \o z, 1, Len(s))
  BY <1>4, <1>5, <1>6, ZeroFound
<1>8. SubSeq(s \o z, 1, Len(s)) = s
  <2>1. \A i \in 1..Len(s) : (s \o z)[i] \in Pro!Byte
    BY <1>2, <1>3
  <2>2. /\ SubSeq(s \o z, 1, Len(s)) \in Seq(Pro!Byte)
        /\ Len(SubSeq(s \o z, 1, Len(s))) = IF 1 <= Len(s) THEN Len(s) - 1 + 1 ELSE 0
        /\ \A i \in 1..(Len(s) - 1 + 1) : SubSeq(s \o z, 1, Len(s))[i] = (s \o z)[1 + i - 1]
    BY <1>3, <2>1, SubSeqProperties
  <2>3. Len(SubSeq(s \o z, 1, Len(s))) = Len(s)
    BY <1>3, <2>2
  <2>4. \A i \in 1..Len(s) : SubSeq(s \o z, 1, Len(s))[i] = s[i]
    BY <1>2, <1>3, <2>2
  <2> QED BY <1>1, <2>2, <2>3, <2>4, SeqEqual
<1> QED BY <1>2, <1>7, <1>8

\* What a field of a packet can hold.
Fits(kind, v) ==
    CASE kind = "u8" -> v \in [1..1 -> Pro!Byte]
      [] kind = "u16" -> v \in [1..1 -> Pro!Word]
      [] kind = "u32" -> v \in [1..2 -> Pro!Word]
      [] kind = "u64" -> v \in [1..4 -> Pro!Word]
      [] kind = "ipv6" -> v \in [1..16 -> Pro!Byte]
      [] kind = "name" -> v \in Seq(Pro!Byte \ {0}) /\ Len(v) <= 32

Kinds == {"u8", "u16", "u32", "u64", "ipv6", "name"}

\* A function from 1 up to a number is a sequence of that length.
LEMMA FunctionIsSequence ==
    ASSUME NEW S, NEW n \in Nat, NEW f \in [1..n -> S]
    PROVE  f \in Seq(S) /\ Len(f) = n
  OBVIOUS

\* A field is read as something it can hold.
LEMMA FieldRead ==
    ASSUME NEW kind \in Kinds, NEW b \in Seq(Pro!Byte), Len(b) = Pro!Width(kind)
    PROVE  Fits(kind, Pro!ReadField(kind, b))
<1>1. CASE kind = "u8"
  BY <1>1 DEF Fits, Pro!ReadField, Pro!Width
<1>2. CASE kind = "ipv6"
  <2>1. Len(b) = 16
    BY <1>2 DEF Pro!Width
  <2>2. b \in [1..16 -> Pro!Byte]
    BY <2>1, LenProperties
  <2> QED BY <1>2, <2>2 DEF Fits, Pro!ReadField
<1>3. CASE kind = "u16"
  <2>1. Len(b) = 2 * 1
    BY <1>3 DEF Pro!Width
  <2>2. Pro!Words(b) \in [1..1 -> Pro!Word]
    BY <2>1, WordsRead
  <2> QED BY <1>3, <2>2 DEF Fits, Pro!ReadField
<1>4. CASE kind = "u32"
  <2>1. Len(b) = 2 * 2
    BY <1>4 DEF Pro!Width
  <2>2. Pro!Words(b) \in [1..2 -> Pro!Word]
    BY <2>1, WordsRead
  <2> QED BY <1>4, <2>2 DEF Fits, Pro!ReadField
<1>5. CASE kind = "u64"
  <2>1. Len(b) = 2 * 4
    BY <1>5 DEF Pro!Width
  <2>2. Pro!Words(b) \in [1..4 -> Pro!Word]
    BY <2>1, WordsRead
  <2> QED BY <1>5, <2>2 DEF Fits, Pro!ReadField
<1>6. CASE kind = "name"
  <2>1. Len(b) = 32
    BY <1>6 DEF Pro!Width
  <2>2. Pro!BeforeZero(b) \in Seq(Pro!Byte \ {0}) /\ Len(Pro!BeforeZero(b)) <= 32
    BY <2>1, ZeroCut
  <2> QED BY <1>6, <2>2 DEF Fits, Pro!ReadField
<1> QED BY <1>1, <1>2, <1>3, <1>4, <1>5, <1>6 DEF Kinds

\* Whatever it can hold takes its width and is read again.
LEMMA FieldWritten ==
    ASSUME NEW kind \in Kinds, NEW v, Fits(kind, v)
    PROVE  /\ Pro!WriteField(kind, v) \in Seq(Pro!Byte)
           /\ Len(Pro!WriteField(kind, v)) = Pro!Width(kind)
           /\ Pro!ReadField(kind, Pro!WriteField(kind, v)) = v
<1>1. CASE kind = "u8"
  <2>1. v \in [1..1 -> Pro!Byte]
    BY <1>1 DEF Fits
  <2>2. v \in Seq(Pro!Byte) /\ Len(v) = 1
    BY <2>1, FunctionIsSequence
  <2> QED BY <1>1, <2>2 DEF Pro!ReadField, Pro!WriteField, Pro!Width
<1>2. CASE kind = "ipv6"
  <2>1. v \in [1..16 -> Pro!Byte]
    BY <1>2 DEF Fits
  <2>2. v \in Seq(Pro!Byte) /\ Len(v) = 16
    BY <2>1, FunctionIsSequence
  <2> QED BY <1>2, <2>2 DEF Pro!ReadField, Pro!WriteField, Pro!Width
<1>3. CASE kind = "u16"
  <2>1. v \in [1..1 -> Pro!Word]
    BY <1>3 DEF Fits
  <2>2. Pro!Octets(v) \in Seq(Pro!Byte) /\ Len(Pro!Octets(v)) = 2 * 1 /\ Pro!Words(Pro!Octets(v)) = v
    BY <2>1, WordsWritten
  <2> QED BY <1>3, <2>2 DEF Pro!ReadField, Pro!WriteField, Pro!Width
<1>4. CASE kind = "u32"
  <2>1. v \in [1..2 -> Pro!Word]
    BY <1>4 DEF Fits
  <2>2. Pro!Octets(v) \in Seq(Pro!Byte) /\ Len(Pro!Octets(v)) = 2 * 2 /\ Pro!Words(Pro!Octets(v)) = v
    BY <2>1, WordsWritten
  <2> QED BY <1>4, <2>2 DEF Pro!ReadField, Pro!WriteField, Pro!Width
<1>5. CASE kind = "u64"
  <2>1. v \in [1..4 -> Pro!Word]
    BY <1>5 DEF Fits
  <2>2. Pro!Octets(v) \in Seq(Pro!Byte) /\ Len(Pro!Octets(v)) = 2 * 4 /\ Pro!Words(Pro!Octets(v)) = v
    BY <2>1, WordsWritten
  <2> QED BY <1>5, <2>2 DEF Pro!ReadField, Pro!WriteField, Pro!Width
<1>6. CASE kind = "name"
  <2>1. v \in Seq(Pro!Byte \ {0}) /\ Len(v) <= 32
    BY <1>6 DEF Fits
  <2> DEFINE z == Pro!Zeros(32 - Len(v))
  <2>2. 32 - Len(v) \in Nat /\ Len(v) \in Nat
    BY <2>1
  <2>3. z \in Seq({0}) /\ Len(z) = 32 - Len(v)
    BY <2>2 DEF Pro!Zeros
  <2> HIDE DEF z
  <2>4. Pro!BeforeZero(v \o z) = v /\ v \o z \in Seq(Pro!Byte)
    BY <2>1, <2>3, ZeroKept
  <2>5. Len(v \o z) = 32
    BY <2>1, <2>2, <2>3
  <2>6. Pro!WriteField(kind, v) = v \o z
    BY <1>6 DEF Pro!WriteField, z
  <2>7. Pro!ReadField(kind, v \o z) = Pro!BeforeZero(v \o z) /\ Pro!Width(kind) = 32
    BY <1>6 DEF Pro!ReadField, Pro!Width
  <2> QED BY <2>4, <2>5, <2>6, <2>7
<1> QED BY <1>1, <1>2, <1>3, <1>4, <1>5, <1>6 DEF Kinds

\* Fields that stand one behind the other, and what they can hold.
Laid(layout) ==
    /\ layout \in Seq([at : Nat, kind : Kinds])
    /\ \A i, j \in 1..Len(layout) : i < j => Pro!End(layout[i]) <= layout[j].at

Holds(layout, fields) ==
    /\ fields = [i \in 1..Len(layout) |-> fields[i]]
    /\ \A i \in 1..Len(layout) : Fits(layout[i].kind, fields[i])

\* Every kind of field has a width.
LEMMA WidthIsNat == \A kind \in Kinds : Pro!Width(kind) \in Nat /\ Pro!Width(kind) > 0
  BY DEF Kinds, Pro!Width

\* Every field ends within the size of its layout.
LEMMA LaidSize ==
    ASSUME NEW layout, Laid(layout)
    PROVE  /\ Len(layout) \in Nat
           /\ Pro!Size(layout) \in Nat
           /\ \A i \in 1..Len(layout) :
                /\ layout[i].at \in Nat /\ layout[i].kind \in Kinds
                /\ Pro!Width(layout[i].kind) \in Nat /\ Pro!Width(layout[i].kind) > 0
                /\ Pro!End(layout[i]) \in Nat
                /\ Pro!End(layout[i]) = layout[i].at + Pro!Width(layout[i].kind)
                /\ Pro!End(layout[i]) <= Pro!Size(layout)
<1>1. layout \in Seq([at : Nat, kind : Kinds]) /\ Len(layout) \in Nat
  BY DEF Laid
<1>2. ASSUME NEW i \in 1..Len(layout)
      PROVE  /\ layout[i].at \in Nat /\ layout[i].kind \in Kinds
             /\ Pro!Width(layout[i].kind) \in Nat /\ Pro!Width(layout[i].kind) > 0
             /\ Pro!End(layout[i]) \in Nat
             /\ Pro!End(layout[i]) = layout[i].at + Pro!Width(layout[i].kind)
  <2>1. layout[i] \in [at : Nat, kind : Kinds]
    BY <1>1, ElementOfSeq
  <2>2. layout[i].at \in Nat /\ layout[i].kind \in Kinds
    BY <2>1
  <2>3. Pro!Width(layout[i].kind) \in Nat /\ Pro!Width(layout[i].kind) > 0
    BY <2>2, WidthIsNat
  <2> QED BY <2>2, <2>3 DEF Pro!End
<1>3. CASE layout = <<>>
  <2>1. Len(layout) = 0 /\ Pro!Size(layout) = 0
    BY <1>3 DEF Pro!Size
  <2> QED BY <2>1, <1>2
<1>4. CASE layout # <<>>
  <2>1. Len(layout) \in 1..Len(layout)
    BY <1>1, <1>4
  <2>2. Pro!Size(layout) = Pro!End(layout[Len(layout)])
    BY <1>4 DEF Pro!Size
  <2>3. Pro!Size(layout) \in Nat
    BY <2>1, <2>2, <1>2
  <2>4. ASSUME NEW i \in 1..Len(layout) PROVE Pro!End(layout[i]) <= Pro!Size(layout)
    <3>1. CASE i = Len(layout)
      BY <3>1, <2>2, <2>3
    <3>2. CASE i < Len(layout)
      <4>1. Pro!End(layout[i]) <= layout[Len(layout)].at
        BY <3>2, <2>1 DEF Laid
      <4> QED BY <4>1, <1>2, <2>1, <2>2
    <3> QED BY <3>1, <3>2, <1>1
  <2> QED BY <1>1, <1>2, <2>3, <2>4
<1> QED BY <1>3, <1>4

\* The fields of a packet are read as something they can hold.
LEMMA LayoutRead ==
    ASSUME NEW layout, Laid(layout), NEW b \in Seq(Pro!Byte), Len(b) >= Pro!Size(layout)
    PROVE  Holds(layout, Pro!Read(layout, b))
<1> DEFINE at(i) == SubSeq(b, layout[i].at + 1, Pro!End(layout[i]))
<1>1. ASSUME NEW i \in 1..Len(layout)
      PROVE  Fits(layout[i].kind, Pro!ReadField(layout[i].kind, at(i)))
  <2>1. /\ layout[i].at \in Nat /\ layout[i].kind \in Kinds
        /\ Pro!Width(layout[i].kind) \in Nat /\ Pro!Width(layout[i].kind) > 0
        /\ Pro!End(layout[i]) \in Nat
        /\ Pro!End(layout[i]) = layout[i].at + Pro!Width(layout[i].kind)
        /\ Pro!End(layout[i]) <= Pro!Size(layout)
        /\ Pro!Size(layout) \in Nat
    BY LaidSize
  <2>2. ASSUME NEW k \in layout[i].at + 1..Pro!End(layout[i]) PROVE b[k] \in Pro!Byte
    <3>1. k \in 1..Len(b)
      BY <2>1
    <3> QED BY <3>1
  <2>3. layout[i].at + 1 \in Int /\ Pro!End(layout[i]) \in Int /\ layout[i].at + 1 <= Pro!End(layout[i])
    BY <2>1
  <2>4. /\ at(i) \in Seq(Pro!Byte)
        /\ Len(at(i)) = IF layout[i].at + 1 <= Pro!End(layout[i])
                        THEN Pro!End(layout[i]) - (layout[i].at + 1) + 1 ELSE 0
    BY <2>2, <2>3, SubSeqProperties
  <2> HIDE DEF at
  <2>5. Len(at(i)) = Pro!Width(layout[i].kind)
    BY <2>1, <2>3, <2>4
  <2> QED BY <2>1, <2>4, <2>5, FieldRead
<1>2. Pro!Read(layout, b) = [i \in 1..Len(layout) |-> Pro!ReadField(layout[i].kind, at(i))]
  BY DEF Pro!Read
<1> HIDE DEF at
<1> QED BY <1>1, <1>2 DEF Holds

\* Every byte of a field is written from that field.
LEMMA ByteWritten ==
    ASSUME NEW layout, Laid(layout), NEW fields,
           NEW i \in 1..Len(layout), NEW k \in layout[i].at + 1..Pro!End(layout[i])
    PROVE  /\ k \in 1..Pro!Size(layout)
           /\ Pro!Write(layout, fields)[k] = Pro!WriteField(layout[i].kind, fields[i])[k - layout[i].at]
<1>1. \A j \in 1..Len(layout) :
          /\ layout[j].at \in Nat /\ Pro!End(layout[j]) \in Nat
          /\ Pro!End(layout[j]) <= Pro!Size(layout)
  BY LaidSize
<1>2. Len(layout) \in Nat /\ Pro!Size(layout) \in Nat
  BY LaidSize
<1>3. k \in 1..Pro!Size(layout)
  BY <1>1, <1>2
<1>4. ASSUME NEW j \in 1..Len(layout), k \in layout[j].at + 1..Pro!End(layout[j])
      PROVE  j = i
  <2>1. ~(i < j)
    <3> SUFFICES ASSUME i < j PROVE FALSE
      OBVIOUS
    <3>1. Pro!End(layout[i]) <= layout[j].at
      BY DEF Laid
    <3> QED BY <3>1, <1>1, <1>4
  <2>2. ~(j < i)
    <3> SUFFICES ASSUME j < i PROVE FALSE
      OBVIOUS
    <3>1. Pro!End(layout[j]) <= layout[i].at
      BY DEF Laid
    <3> QED BY <3>1, <1>1, <1>4
  <2> QED BY <2>1, <2>2, <1>2
<1>5. Pro!FieldOf(layout, k) = i
  BY <1>4 DEF Pro!FieldOf
<1> QED BY <1>3, <1>5 DEF Pro!Write

\* What is written is read again, whatever follows it, and what follows is left.
ReadsBack(layout, fields, b) ==
    /\ Len(Pro!Write(layout, fields) \o b) = Pro!Size(layout) + Len(b)
    /\ Pro!Read(layout, Pro!Write(layout, fields) \o b) = fields
    /\ SubSeq(Pro!Write(layout, fields) \o b, Pro!Size(layout) + 1,
              Len(Pro!Write(layout, fields) \o b)) = b

\* Whatever fields of a layout hold is read back from the bytes they are written as.
LEMMA LayoutWritten ==
    ASSUME NEW layout, Laid(layout), NEW fields, Holds(layout, fields), NEW T, NEW b \in Seq(T)
    PROVE  ReadsBack(layout, fields, b)
<1> DEFINE n == Pro!Size(layout)
           v == Pro!Write(layout, fields)
           w == v \o b
           S == T \cup {v[k] : k \in 1..n}
<1>1. n \in Nat /\ Len(b) \in Nat
  BY LaidSize
<1>2. v \in Seq(S) /\ Len(v) = n /\ b \in Seq(S)
  <2> DEFINE e(k) == Pro!WriteField(layout[Pro!FieldOf(layout, k)].kind, fields[Pro!FieldOf(layout, k)])
                         [k - layout[Pro!FieldOf(layout, k)].at]
  <2>1. v = [k \in 1..n |-> e(k)]
    BY DEF Pro!Write
  <2>2. v \in [1..n -> S]
    <3> HIDE DEF e
    <3>1. \A k \in 1..n : v[k] \in S
      OBVIOUS
    <3>2. DOMAIN v = 1..n /\ v = [k \in DOMAIN v |-> v[k]]
      BY <2>1
    <3> HIDE DEF v, n, S
    <3> QED BY <3>1, <3>2
  <2> HIDE DEF v, n, S
  <2>3. v \in Seq(S) /\ Len(v) = n
    BY <2>2, <1>1, FunctionIsSequence
  <2>4. b \in Seq(S)
    BY SeqMonotonic, T \subseteq S DEF S
  <2> QED BY <2>3, <2>4
<1> HIDE DEF v, n, S
<1>3. /\ w \in Seq(S) /\ Len(w) = n + Len(b)
      /\ \A k \in 1..n + Len(b) : w[k] = IF k <= n THEN v[k] ELSE b[k - n]
  BY <1>2, ConcatProperties
<1> HIDE DEF w
<1>4. ASSUME NEW i \in 1..Len(layout)
      PROVE  Pro!ReadField(layout[i].kind, SubSeq(w, layout[i].at + 1, Pro!End(layout[i]))) = fields[i]
  <2> DEFINE c == layout[i].at
             d == Pro!End(layout[i])
             f == Pro!WriteField(layout[i].kind, fields[i])
             s == SubSeq(w, c + 1, d)
  <2>1. /\ c \in Nat /\ layout[i].kind \in Kinds
        /\ Pro!Width(layout[i].kind) \in Nat /\ Pro!Width(layout[i].kind) > 0
        /\ d \in Nat /\ d = c + Pro!Width(layout[i].kind) /\ d <= n
    BY LaidSize DEF n
  <2>2. Fits(layout[i].kind, fields[i])
    BY DEF Holds
  <2>3. f \in Seq(Pro!Byte) /\ Len(f) = d - c /\ Pro!ReadField(layout[i].kind, f) = fields[i]
    <3>1. /\ f \in Seq(Pro!Byte) /\ Len(f) = Pro!Width(layout[i].kind)
          /\ Pro!ReadField(layout[i].kind, f) = fields[i]
      BY <2>1, <2>2, FieldWritten
    <3> HIDE DEF f, c, d
    <3> QED BY <3>1, <2>1
  <2>4. ASSUME NEW k \in c + 1..d PROVE w[k] = f[k - c]
    <3>1. k \in 1..Pro!Size(layout) /\ Pro!Write(layout, fields)[k] = f[k - c]
      BY ByteWritten
    <3>2. k \in 1..n /\ v[k] = f[k - c]
      BY <3>1 DEF n, v
    <3> HIDE DEF f, c, d
    <3>3. k \in 1..n + Len(b) /\ k <= n
      BY <3>2, <1>1
    <3> QED BY <3>2, <3>3, <1>3
  <2> HIDE DEF f, c, d
  <2>5. ASSUME NEW k \in c + 1..d PROVE w[k] \in Pro!Byte
    <3>1. k - c \in 1..Len(f)
      BY <2>1, <2>3
    <3> QED BY <3>1, <2>3, <2>4
  <2>6. /\ s \in Seq(Pro!Byte)
        /\ Len(s) = IF c + 1 <= d THEN d - (c + 1) + 1 ELSE 0
        /\ \A k \in 1..d - (c + 1) + 1 : s[k] = w[c + 1 + k - 1]
    <3>1. c + 1 \in Int /\ d \in Int
      BY <2>1
    <3> QED BY <3>1, <2>5, SubSeqProperties
  <2> HIDE DEF s
  <2>7. Len(s) = Len(f)
    <3>1. c + 1 <= d /\ d - (c + 1) + 1 = d - c
      BY <2>1
    <3>2. Len(s) = d - (c + 1) + 1
      BY <3>1, <2>6
    <3> QED BY <3>1, <3>2, <2>3
  <2>8. ASSUME NEW k \in 1..Len(s) PROVE s[k] = f[k]
    <3>1. k \in 1..d - (c + 1) + 1 /\ c + 1 + k - 1 \in c + 1..d /\ (c + 1 + k - 1) - c = k
      BY <2>1, <2>3, <2>7
    <3>2. s[k] = w[c + 1 + k - 1]
      BY <3>1, <2>6
    <3>3. w[c + 1 + k - 1] = f[(c + 1 + k - 1) - c]
      BY <3>1, <2>4
    <3> QED BY <3>1, <3>2, <3>3
  <2>9. s = f
    BY <2>3, <2>6, <2>7, <2>8, SeqEqual
  <2> QED BY <2>3, <2>9 DEF s, c, d
<1>5. Pro!Read(layout, w) = fields
  <2>1. Pro!Read(layout, w) = [i \in 1..Len(layout) |-> fields[i]]
    BY <1>4 DEF Pro!Read
  <2> QED BY <2>1 DEF Holds
<1>6. SubSeq(w, n + 1, Len(w)) = b
  <2> DEFINE s == SubSeq(w, n + 1, Len(w))
  <2>1. ASSUME NEW k \in n + 1..Len(w) PROVE w[k] = b[k - n] /\ k - n \in 1..Len(b)
    BY <1>1, <1>3
  <2>2. ASSUME NEW k \in n + 1..Len(w) PROVE w[k] \in T
    BY <2>1, ElementOfSeq
  <2>3. /\ s \in Seq(T)
        /\ Len(s) = IF n + 1 <= Len(w) THEN Len(w) - (n + 1) + 1 ELSE 0
        /\ \A k \in 1..Len(w) - (n + 1) + 1 : s[k] = w[n + 1 + k - 1]
    <3>1. n + 1 \in Int /\ Len(w) \in Int
      BY <1>1, <1>3
    <3> QED BY <3>1, <2>2, SubSeqProperties
  <2> HIDE DEF s
  <2>4. Len(s) = Len(b)
    BY <2>3, <1>1, <1>3
  <2>5. ASSUME NEW k \in 1..Len(s) PROVE s[k] = b[k]
    <3>1. k \in 1..Len(w) - (n + 1) + 1 /\ n + 1 + k - 1 \in n + 1..Len(w) /\ n + 1 + k - 1 - n = k
      BY <2>4, <1>1, <1>3
    <3>2. s[k] = w[n + 1 + k - 1]
      BY <3>1, <2>3
    <3>3. PICK j \in n + 1..Len(w) : j = n + 1 + k - 1
      BY <3>1
    <3>4. j - n = k
      BY <3>3, <1>1, <2>3
    <3>5. w[j] = b[j - n]
      BY <2>1
    <3> QED BY <3>2, <3>3, <3>4, <3>5
  <2>6. s = b
    BY <2>3, <2>4, <2>5, SeqEqual
  <2> QED BY <2>6 DEF s
<1> QED BY <1>3, <1>5, <1>6 DEF ReadsBack, n, v, w

\* The layouts of the protocol.
LEMMA FieldsOf ==
    \A at \in Nat, kind \in Kinds : Pro!Field(at, kind) \in [at : Nat, kind : Kinds]
  BY DEF Pro!Field

\* Octets stand one behind the other,
LEMMA OctetLaid ==
    ASSUME NEW a \in Nat, NEW n \in Nat
    PROVE  /\ Laid(Pro!Octet(a, n))
           /\ Len(Pro!Octet(a, n)) = n
           /\ n > 0 => Pro!Size(Pro!Octet(a, n)) = a + n
<1> DEFINE o == Pro!Octet(a, n)
<1>1. ASSUME NEW i \in 1..n PROVE Pro!Field(a + i - 1, "u8") \in [at : Nat, kind : Kinds]
  <2>1. a + i - 1 \in Nat /\ "u8" \in Kinds
    BY DEF Kinds
  <2> QED BY <2>1, FieldsOf
<1>2. o \in [1..n -> [at : Nat, kind : Kinds]]
  BY <1>1 DEF Pro!Octet
<1>3. o \in Seq([at : Nat, kind : Kinds]) /\ Len(o) = n
  BY <1>2, FunctionIsSequence
<1>4. ASSUME NEW i \in 1..n PROVE o[i].at = a + i - 1 /\ Pro!End(o[i]) = a + i
  <2>1. o[i] = Pro!Field(a + i - 1, "u8") /\ a + i - 1 \in Nat
    BY DEF Pro!Octet
  <2> HIDE DEF o
  <2>2. o[i].at = a + i - 1 /\ Pro!End(o[i]) = (a + i - 1) + 1
    BY <2>1 DEF Pro!Field, Pro!End, Pro!Width
  <2> QED BY <2>2
<1> HIDE DEF o
<1>5. Laid(o)
  <2>1. ASSUME NEW i \in 1..n, NEW j \in 1..n, i < j PROVE Pro!End(o[i]) <= o[j].at
    <3>1. a + i <= a + j - 1
      BY <2>1
    <3> QED BY <3>1, <1>4
  <2> QED BY <2>1, <1>3 DEF Laid
<1>6. n > 0 => Pro!Size(o) = a + n
  <2> HAVE n > 0
  <2>1. o # <<>> /\ n \in 1..n
    BY <1>3
  <2> QED BY <2>1, <1>3, <1>4 DEF Pro!Size
<1> QED BY <1>3, <1>5, <1>6 DEF o

\* and so do the fields of a subscriber message and of a short transfer,
LEMMA HeadLaid ==
    /\ Laid(Pro!ShortData) /\ Pro!Size(Pro!ShortData) = 40 /\ Len(Pro!ShortData) = 3
    /\ Laid(Pro!Status) /\ Pro!Size(Pro!Status) = 2 /\ Len(Pro!Status) = 1
    /\ Laid(Pro!SubscriberHead) /\ Pro!Size(Pro!SubscriberHead) = 16 /\ Len(Pro!SubscriberHead) = 3
<1>1. Laid(Pro!ShortData) /\ Pro!Size(Pro!ShortData) = 40 /\ Len(Pro!ShortData) = 3
  BY DEF Pro!ShortData, Laid, Pro!Size, Pro!Field, Pro!End, Pro!Width, Kinds
<1>2. Laid(Pro!Status) /\ Pro!Size(Pro!Status) = 2 /\ Len(Pro!Status) = 1
  BY DEF Pro!Status, Laid, Pro!Size, Pro!Field, Pro!End, Pro!Width, Kinds
<1>3. Laid(Pro!SubscriberHead) /\ Pro!Size(Pro!SubscriberHead) = 16 /\ Len(Pro!SubscriberHead) = 3
  BY DEF Pro!SubscriberHead, Laid, Pro!Size, Pro!Field, Pro!End, Pro!Width, Kinds
<1> QED BY <1>1, <1>2, <1>3

\* of the other call control payloads,
LEMMA FixedLaid ==
    /\ Laid(<<>>)
    /\ Laid(<<Pro!Field(0, "u32"), Pro!Field(4, "u32"), Pro!Field(8, "u8"), Pro!Field(9, "u8"), Pro!Field(10, "u16")>>)
    /\ Laid(<<Pro!Field(0, "u32"), Pro!Field(4, "u8"), Pro!Field(5, "u32")>>)
    /\ Laid(<<Pro!Field(0, "u8"), Pro!Field(1, "u32"), Pro!Field(5, "ipv6"), Pro!Field(21, "u32")>>)
<1>1. Laid(<<>>)
  BY DEF Laid
<1>2. Laid(<<Pro!Field(0, "u32"), Pro!Field(4, "u32"), Pro!Field(8, "u8"), Pro!Field(9, "u8"), Pro!Field(10, "u16")>>)
  BY DEF Laid, Pro!Size, Pro!Field, Pro!End, Pro!Width, Kinds
<1>3. Laid(<<Pro!Field(0, "u32"), Pro!Field(4, "u8"), Pro!Field(5, "u32")>>)
  BY DEF Laid, Pro!Size, Pro!Field, Pro!End, Pro!Width, Kinds
<1>4. Laid(<<Pro!Field(0, "u8"), Pro!Field(1, "u32"), Pro!Field(5, "ipv6"), Pro!Field(21, "u32")>>)
  BY DEF Laid, Pro!Size, Pro!Field, Pro!End, Pro!Width, Kinds
<1> QED BY <1>1, <1>2, <1>3, <1>4

\* of a list of groups,
LEMMA GroupListLaid ==
    ASSUME NEW n \in Nat
    PROVE  /\ Laid(Pro!GroupList(n))
           /\ Len(Pro!GroupList(n)) = n
           /\ Pro!Size(Pro!GroupList(n)) = 4 * n
<1> DEFINE o == Pro!GroupList(n)
<1>1. ASSUME NEW i \in 1..n PROVE Pro!Field(4 * i - 4, "u32") \in [at : Nat, kind : Kinds]
  <2>1. 4 * i - 4 \in Nat /\ "u32" \in Kinds
    BY DEF Kinds
  <2> QED BY <2>1, FieldsOf
<1>2. o \in [1..n -> [at : Nat, kind : Kinds]]
  BY <1>1 DEF Pro!GroupList
<1>3. o \in Seq([at : Nat, kind : Kinds]) /\ Len(o) = n
  BY <1>2, FunctionIsSequence
<1>4. ASSUME NEW i \in 1..n
      PROVE  o[i].at = 4 * i - 4 /\ o[i].kind = "u32" /\ Pro!End(o[i]) = 4 * i
  <2>1. o[i] = Pro!Field(4 * i - 4, "u32") /\ 4 * i - 4 \in Nat
    BY DEF Pro!GroupList
  <2> HIDE DEF o
  <2>2. o[i].at = 4 * i - 4 /\ o[i].kind = "u32" /\ Pro!End(o[i]) = (4 * i - 4) + 4
    BY <2>1 DEF Pro!Field, Pro!End, Pro!Width
  <2> QED BY <2>2
<1> HIDE DEF o
<1>5. Laid(o)
  BY <1>3, <1>4 DEF Laid
<1>6. Pro!Size(o) = 4 * n
  <2>1. CASE n = 0
    <3>1. o = <<>>
      BY <2>1, <1>3
    <3> QED BY <3>1, <2>1 DEF Pro!Size
  <2>2. CASE n > 0
    <3>1. o # <<>> /\ n \in 1..n
      BY <2>2, <1>3
    <3> QED BY <3>1, <1>3, <1>4 DEF Pro!Size
  <2> QED BY <2>1, <2>2
<1> QED BY <1>3, <1>5, <1>6 DEF o

\* of a circular grant,
LEMMA CircularLaid == Laid(Pro!Circular)
<1> DEFINE h == Pro!ShortData
           o == Pro!Octet(40, 11)
           c == h \o o
           R == [at : Nat, kind : Kinds]
<1>1. h \in Seq(R) /\ Len(h) = 3 /\ o \in Seq(R) /\ Len(o) = 11
  BY HeadLaid, OctetLaid DEF Laid
<1>2. h[1] = Pro!Field(0, "u32") /\ h[2] = Pro!Field(4, "u32") /\ h[3] = Pro!Field(8, "name")
  BY DEF Pro!ShortData
<1>3. \A i \in 1..11 : o[i] = Pro!Field(40 + i - 1, "u8")
  BY DEF Pro!Octet
<1>4. Pro!Circular = c
  BY DEF Pro!Circular, Pro!ShortData
<1> HIDE DEF h, o, R
<1>5. c \in Seq(R) /\ Len(c) = 14 /\ \A i \in 1..14 : c[i] = IF i <= 3 THEN h[i] ELSE o[i - 3]
  <2>1. /\ c \in Seq(R) /\ Len(c) = Len(h) + Len(o)
        /\ \A i \in 1..Len(h) + Len(o) : c[i] = IF i <= Len(h) THEN h[i] ELSE o[i - Len(h)]
    BY <1>1, ConcatProperties
  <2>2. Len(h) + Len(o) = 14
    BY <1>1
  <2> HIDE DEF c
  <2> QED BY <2>1, <2>2, <1>1
<1> HIDE DEF c
<1>6. ASSUME NEW i \in 1..14
      PROVE  /\ c[i].at = IF i = 1 THEN 0 ELSE IF i = 2 THEN 4 ELSE IF i = 3 THEN 8 ELSE i + 36
             /\ Pro!End(c[i]) = IF i = 1 THEN 4 ELSE IF i = 2 THEN 8 ELSE IF i = 3 THEN 40 ELSE i + 37
  <2>1. CASE i <= 3
    <3>1. c[i] = h[i] /\ (i = 1 \/ i = 2 \/ i = 3)
      BY <2>1, <1>5
    <3>2. /\ h[1].at = 0 /\ Pro!End(h[1]) = 4
          /\ h[2].at = 4 /\ Pro!End(h[2]) = 8
          /\ h[3].at = 8 /\ Pro!End(h[3]) = 40
      BY <1>2 DEF Pro!Field, Pro!End, Pro!Width
    <3> QED BY <3>1, <3>2
  <2>2. CASE i > 3
    <3>1. c[i] = o[i - 3] /\ i - 3 \in 1..11 /\ 40 + (i - 3) - 1 = i + 36 /\ i + 36 \in Nat
      BY <2>2, <1>5
    <3>2. c[i] = Pro!Field(i + 36, "u8")
      BY <3>1, <1>3
    <3>3. c[i].at = i + 36 /\ Pro!End(c[i]) = i + 36 + 1
      BY <3>1, <3>2 DEF Pro!Field, Pro!End, Pro!Width
    <3> QED BY <3>3, <2>2
  <2> QED BY <2>1, <2>2
<1>7. ASSUME NEW i \in 1..14, NEW j \in 1..14, i < j PROVE Pro!End(c[i]) <= c[j].at
  BY <1>6, <1>7
<1> QED BY <1>4, <1>5, <1>7 DEF Laid, R

\* and of whatever a state and the length of its payload call for.
LEMMA LayoutLaid == \A state, b : Laid(Pro!Layout(state, b))
<1> SUFFICES ASSUME NEW state, NEW b PROVE Laid(Pro!Layout(state, b))
  OBVIOUS
<1>1. Laid(Pro!Octet(0, 1)) /\ Laid(Pro!Octet(0, 2))
  BY OctetLaid
<1>2. Laid(Pro!ShortForm(b))
  BY HeadLaid DEF Pro!ShortForm
<1> QED BY <1>1, <1>2, FixedLaid, CircularLaid DEF Pro!Layout

-----------------------------------------------------------------------------
(* Packets on their way                                                    *)

\* Part of a sequence of bytes is one.
LEMMA BytesCut ==
    ASSUME NEW b \in Seq(Pro!Byte), NEW m \in Nat, NEW n \in Nat, m > 0, n <= Len(b)
    PROVE  /\ SubSeq(b, m, n) \in Seq(Pro!Byte)
           /\ Len(SubSeq(b, m, n)) = IF m <= n THEN n - m + 1 ELSE 0
           /\ \A i \in 1..n - m + 1 : SubSeq(b, m, n)[i] = b[m + i - 1]
<1>1. ASSUME NEW i \in m..n PROVE b[i] \in Pro!Byte
  <2>1. i \in 1..Len(b)
    OBVIOUS
  <2> QED BY <2>1
<1>2. m \in Int /\ n \in Int
  OBVIOUS
<1> QED BY <1>1, <1>2, SubSeqProperties

\* A message about a call is understood again as it was understood.
LEMMA CallKept ==
    ASSUME NEW p, p.body \in Seq(Pro!Byte), NEW m, m = Pro!ParseCallControl(p), m # Pro!Refused
    PROVE  m.class = "call" /\ Pro!ParseCallControl(Pro!BuildCallControl(m)) = m
<1> DEFINE layout == Pro!Layout(p.type, p.body)
           fields == Pro!Read(layout, p.body)
           rest == IF Pro!KeepsRest(p.type) THEN SubSeq(p.body, Pro!Size(layout) + 1, Len(p.body)) ELSE <<>>
           built == Pro!Write(layout, fields) \o rest
<1>1. /\ Len(p.body) >= Pro!Size(layout)
      /\ m = [class |-> "call", type |-> p.type, layout |-> layout, fields |-> fields, rest |-> rest]
  <2>1. ~(Len(p.body) < Pro!Size(layout))
    BY DEF Pro!ParseCallControl
  <2>2. Laid(layout)
    BY LayoutLaid
  <2>3. Pro!Size(layout) \in Nat /\ Len(p.body) \in Nat
    <3> HIDE DEF layout
    <3> QED BY <2>2, LaidSize
  <2>4. m = [class |-> "call", type |-> p.type, layout |-> layout, fields |-> fields, rest |-> rest]
    BY <2>1, Zenon DEF Pro!ParseCallControl
  <2> HIDE DEF layout
  <2> QED BY <2>1, <2>3, <2>4
<1>2. Laid(layout)
  BY LayoutLaid
<1> HIDE DEF layout
<1>3. Pro!Size(layout) \in Nat /\ Len(p.body) \in Nat
  BY <1>2, LaidSize
<1>4. Holds(layout, fields)
  BY <1>1, <1>2, LayoutRead
<1> HIDE DEF fields
<1>5. rest \in Seq(Pro!Byte)
  <2>1. SubSeq(p.body, Pro!Size(layout) + 1, Len(p.body)) \in Seq(Pro!Byte)
    <3>1. Pro!Size(layout) + 1 \in Nat /\ Pro!Size(layout) + 1 > 0 /\ Len(p.body) <= Len(p.body)
      BY <1>3
    <3> QED BY <3>1, <1>3, BytesCut
  <2>2. <<>> \in Seq(Pro!Byte)
    OBVIOUS
  <2> QED BY <2>1, <2>2
<1>6. ~Pro!KeepsRest(p.type) => rest = <<>>
  OBVIOUS
<1> HIDE DEF rest
<1>7. /\ Len(built) = Pro!Size(layout) + Len(rest)
      /\ Pro!Read(layout, built) = fields
      /\ SubSeq(built, Pro!Size(layout) + 1, Len(built)) = rest
  <2>1. ReadsBack(layout, fields, rest)
    BY <1>2, <1>4, <1>5, LayoutWritten
  <2> QED BY <2>1 DEF ReadsBack
<1>8. Pro!BuildCallControl(m) = [class |-> "call", type |-> p.type, body |-> built]
  <2>1. /\ m.type = p.type /\ m.layout = layout /\ m.fields = fields /\ m.rest = rest
    BY <1>1
  <2> QED BY <2>1 DEF Pro!BuildCallControl
<1> HIDE DEF built
<1>9. Pro!Layout(p.type, built) = layout
  <2>1. CASE p.type = Pro!ShortTransfer
    <3>1. rest = <<>> /\ Len(rest) = 0
      <4>1. ~Pro!KeepsRest(p.type)
        BY <2>1 DEF Pro!KeepsRest, Pro!ShortTransfer, Pro!PDPRequest
      <4> QED BY <4>1, <1>6
    <3>2. Len(built) = Pro!Size(layout)
      BY <3>1, <1>3, <1>7
    <3>3. layout = Pro!ShortForm(p.body) /\ Pro!Layout(p.type, built) = Pro!ShortForm(built)
      BY <2>1 DEF layout, Pro!Layout, Pro!ShortTransfer, Pro!GroupTX, Pro!PDPRequest, Pro!PDPAccept
    <3>4. layout = Pro!ShortData \/ layout = Pro!Status
      BY <3>3 DEF Pro!ShortForm
    <3>5. Pro!Size(Pro!ShortData) = 40 /\ Pro!Size(Pro!Status) = 2
      BY HeadLaid
    <3>6. CASE layout = Pro!ShortData
      BY <3>2, <3>3, <3>5, <3>6 DEF Pro!ShortForm
    <3>7. CASE layout = Pro!Status
      <4>1. ~(Len(built) >= Pro!Size(Pro!ShortData))
        BY <3>2, <3>5, <3>7
      <4> QED BY <4>1, <3>3, <3>7 DEF Pro!ShortForm
    <3> QED BY <3>4, <3>6, <3>7
  <2>2. CASE p.type # Pro!ShortTransfer
    BY <2>2 DEF layout, Pro!Layout
  <2> QED BY <2>1, <2>2
<1>10. ~(Len(built) < Pro!Size(layout))
  <2>1. Len(rest) \in Nat
    BY <1>5
  <2> QED BY <2>1, <1>3, <1>7
<1>11. rest = IF Pro!KeepsRest(p.type) THEN SubSeq(built, Pro!Size(layout) + 1, Len(built)) ELSE <<>>
  BY <1>6, <1>7
<1>12. Pro!ParseCallControl([class |-> "call", type |-> p.type, body |-> built]) = m
  BY <1>1, <1>7, <1>9, <1>10, <1>11 DEF Pro!ParseCallControl
<1> QED BY <1>1, <1>8, <1>12

\* Data that is long enough is cut to what counts.
LEMMA NormalizedCut ==
    ASSUME NEW type, NEW bits, NEW b, NEW k, Pro!Kept(type, bits, b) = k, Len(b) >= k,
           Pro!PayloadBytes(bits) # 0
    PROVE  Pro!Normalized(type, bits, b) = SubSeq(b, 1, k)
  BY DEF Pro!Normalized

\* A frame that is no short data has as many bytes as its length says.
LEMMA FrameKept ==
    ASSUME NEW p, p.class = "frame", p.body \in Seq(Pro!Byte), p.bits \in Pro!Word, ~Pro!IsSDS(p.type),
           NEW m, m = Pro!ParseFrame(p), m # Pro!Refused
    PROVE  m.class = "frame" /\ m.type = p.type /\ Pro!Parse(Pro!ForwardFrame(m)) = m
<1> DEFINE n == Pro!PayloadBytes(p.bits)
           d == SubSeq(p.body, 1, n)
<1>1. n \in Nat /\ (p.bits = 0 => n = 0)
  BY DEF Pro!PayloadBytes, Pro!Word
<1>2. \A bits, b : Pro!Kept(p.type, bits, b) = Pro!PayloadBytes(bits)
  BY DEF Pro!Kept
<1> HIDE DEF n
<1>3. /\ ~(Len(p.body) < n) /\ Pro!Valid(p.type, d)
      /\ m = [class |-> "frame", type |-> p.type, bits |-> p.bits, data |-> d]
  <2>1. Pro!Kept(p.type, p.bits, p.body) = n
    BY <1>2 DEF n
  <2> HIDE DEF d
  <2>2. m = IF Len(p.body) < n \/ ~Pro!Valid(p.type, d) THEN Pro!Refused
            ELSE [class |-> "frame", type |-> p.type, bits |-> p.bits, data |-> d]
    BY <2>1, Zenon DEF Pro!ParseFrame, n, d
  <2> QED BY <2>2
<1>4. n <= Len(p.body) /\ Len(p.body) \in Nat
  BY <1>1, <1>3
<1>5. d \in Seq(Pro!Byte) /\ Len(d) = n
  <2>1. 1 \in Nat /\ 1 > 0
    OBVIOUS
  <2>2. d \in Seq(Pro!Byte) /\ Len(d) = IF 1 <= n THEN n - 1 + 1 ELSE 0
    BY <2>1, <1>1, <1>4, BytesCut
  <2> HIDE DEF d
  <2> QED BY <2>2, <1>1
<1> HIDE DEF d
<1>6. SubSeq(d, 1, n) = d
  BY <1>5, SubSeqFull
<1>7. Pro!BuildFrame(p.type, p.bits, d) = [class |-> "frame", type |-> p.type, bits |-> p.bits, body |-> d]
  <2>1. p.bits = 0 => d = <<>>
    BY <1>1, <1>5
  <2>2. Pro!LengthOf(p.bits, d) = p.bits
    BY <2>1 DEF Pro!LengthOf
  <2>3. Pro!Kept(p.type, p.bits, d) = n /\ Pro!PayloadBytes(p.bits) = n
    BY <1>2 DEF n
  <2>4. Pro!Normalized(p.type, p.bits, d) = d
    <3>1. CASE n = 0
      <4>1. d = <<>>
        BY <3>1, <1>5
      <4> QED BY <4>1, <2>3, <3>1 DEF Pro!Normalized
    <3>2. CASE n # 0
      <4>1. Pro!Normalized(p.type, p.bits, d) = SubSeq(d, 1, n)
        BY <2>3, <3>2, <1>1, <1>5, NormalizedCut
      <4> QED BY <4>1, <1>6
    <3> QED BY <3>1, <3>2
  <2> QED BY <2>2, <2>4 DEF Pro!BuildFrame
<1>8. Pro!ForwardFrame(m) = [class |-> "frame", type |-> p.type, bits |-> p.bits, body |-> d]
  <2>1. m.type = p.type /\ m.bits = p.bits /\ m.data = d
    BY <1>3
  <2> QED BY <2>1, <1>7 DEF Pro!ForwardFrame
<1>9. Pro!Parse([class |-> "frame", type |-> p.type, bits |-> p.bits, body |-> d]) = m
  <2> DEFINE q == [class |-> "frame", type |-> p.type, bits |-> p.bits, body |-> d]
  <2>1. q.class = "frame" /\ q.type = p.type /\ q.bits = p.bits /\ q.body = d
    OBVIOUS
  <2> HIDE DEF q
  <2>2. Pro!Parse(q) = Pro!ParseFrame(q)
    BY <2>1 DEF Pro!Parse
  <2>3. Pro!Kept(q.type, q.bits, q.body) = n /\ Pro!PayloadBytes(q.bits) = n
    BY <1>2, <2>1 DEF n
  <2>4. SubSeq(q.body, 1, Pro!Kept(q.type, q.bits, q.body)) = d
    BY <2>1, <2>3, <1>6
  <2>5. ~(Len(q.body) < n)
    BY <2>1, <1>1, <1>5
  <2>6. Pro!ParseFrame(q) = [class |-> "frame", type |-> p.type, bits |-> p.bits, data |-> d]
    BY <1>3, <2>1, <2>3, <2>4, <2>5 DEF Pro!ParseFrame
  <2> QED BY <2>2, <2>6, <1>3 DEF q
<1> QED BY <1>3, <1>8, <1>9

\* A short data message that a server has accepted.
SdsMessage(m) ==
    /\ m = [class |-> "frame", type |-> m.type, bits |-> m.bits, data |-> m.data]
    /\ Pro!IsSDS(m.type) /\ m.bits \in Pro!Word /\ m.data \in Seq(Pro!Byte)
    /\ Pro!Valid(m.type, m.data)
    /\ \/ Len(m.data) = Pro!PayloadBytes(m.bits)
       \/ Len(m.data) = Pro!PayloadBytes(m.bits) + 8

\* A length of zero bits is the only one of zero bytes.
LEMMA PayloadIsNat ==
    ASSUME NEW bits \in Pro!Word
    PROVE  Pro!PayloadBytes(bits) \in Nat /\ (Pro!PayloadBytes(bits) = 0 <=> bits = 0)
  BY DEF Pro!PayloadBytes, Pro!Word

\* One that comes in as long as it goes out, with addresses, is accepted whole.
LEMMA SdsWhole ==
    ASSUME NEW type, Pro!IsSDS(type), NEW bits \in Pro!Word, NEW b \in Seq(Pro!Byte),
           Len(b) >= 9,
           \/ Len(b) = Pro!PayloadBytes(bits)
           \/ Len(b) = Pro!PayloadBytes(bits) + 8
    PROVE  LET m == [class |-> "frame", type |-> type, bits |-> bits, data |-> b]
           IN /\ Pro!Parse([class |-> "frame", type |-> type, bits |-> bits, body |-> b]) = m
              /\ SdsMessage(m)
<1> DEFINE p == [class |-> "frame", type |-> type, bits |-> bits, body |-> b]
           m == [class |-> "frame", type |-> type, bits |-> bits, data |-> b]
           n == Pro!PayloadBytes(bits)
<1>1. p.class = "frame" /\ p.type = type /\ p.bits = bits /\ p.body = b
  OBVIOUS
<1>2. m.class = "frame" /\ m.type = type /\ m.bits = bits /\ m.data = b
  OBVIOUS
<1>3. n \in Nat /\ Len(b) \in Nat
  BY PayloadIsNat
<1> HIDE DEF p
<1>4. Pro!Kept(type, bits, b) = Len(b)
  BY <1>3 DEF Pro!Kept
<1>5. SubSeq(b, 1, Len(b)) = b
  BY SubSeqFull
<1>6. ~(Len(b) < n)
  BY <1>3
<1>7. Pro!Valid(type, b)
  <2>1. type = 1 \/ type = 2
    BY DEF Pro!IsSDS, Pro!SDSTransfer, Pro!SDSReport
  <2>2. Len(b) # 0
    BY <1>3
  <2> QED BY <2>1, <2>2 DEF Pro!Valid, Pro!Traffic, Pro!SDSTransfer, Pro!SDSReport, Pro!DTMFData, Pro!PacketData
<1>8. Pro!ParseFrame(p) = m
  BY <1>1, <1>4, <1>5, <1>6, <1>7 DEF Pro!ParseFrame
<1>9. Pro!Parse(p) = Pro!ParseFrame(p)
  BY <1>1 DEF Pro!Parse
<1>10. SdsMessage(m)
  BY <1>2, <1>3, <1>7 DEF SdsMessage
<1> QED BY <1>8, <1>9, <1>10 DEF p

\* What a server accepts from a base station.
LEMMA SdsAccepted ==
    ASSUME NEW p, p.class = "frame", p.body \in Seq(Pro!Byte), p.bits \in Pro!Word, Pro!IsSDS(p.type),
           NEW m, m = Pro!ParseFrame(p), m # Pro!Refused
    PROVE  SdsMessage(m)
<1> DEFINE n == Pro!PayloadBytes(p.bits)
           k == Pro!Kept(p.type, p.bits, p.body)
           d == SubSeq(p.body, 1, k)
<1>1. n \in Nat /\ Len(p.body) \in Nat
  BY PayloadIsNat
<1>2. k = IF Len(p.body) >= n + 8 THEN n + 8 ELSE n
  BY DEF Pro!Kept
<1>3. /\ ~(Len(p.body) < n) /\ Pro!Valid(p.type, d)
      /\ m = [class |-> "frame", type |-> p.type, bits |-> p.bits, data |-> d]
  <2> HIDE DEF d
  <2>1. m = IF Len(p.body) < n \/ ~Pro!Valid(p.type, d) THEN Pro!Refused
            ELSE [class |-> "frame", type |-> p.type, bits |-> p.bits, data |-> d]
    BY Zenon DEF Pro!ParseFrame, d
  <2> HIDE DEF n
  <2> QED BY <2>1
<1> HIDE DEF n, k
<1>4. k \in Nat /\ k <= Len(p.body) /\ (k = n \/ k = n + 8)
  BY <1>1, <1>2, <1>3
<1>5. d \in Seq(Pro!Byte) /\ Len(d) = k
  <2>1. 1 \in Nat /\ 1 > 0
    OBVIOUS
  <2>2. d \in Seq(Pro!Byte) /\ Len(d) = IF 1 <= k THEN k - 1 + 1 ELSE 0
    BY <2>1, <1>1, <1>4, BytesCut
  <2> HIDE DEF d
  <2> QED BY <2>2, <1>4
<1> HIDE DEF d
<1>6. m.class = "frame" /\ m.type = p.type /\ m.bits = p.bits /\ m.data = d
  BY <1>3
<1> QED BY <1>3, <1>4, <1>5, <1>6 DEF SdsMessage, n

\* An address is four bytes.
LEMMA AddressBytes ==
    ASSUME NEW n \in Nat
    PROVE  Pro!LittleEndian(n) \in Seq(Pro!Byte) /\ Len(Pro!LittleEndian(n)) = 4
<1>1. \A i \in Nat : i % 256 \in Pro!Byte
  BY DEF Pro!Byte
<1>2. n \in Nat /\ n \div 256 \in Nat /\ n \div 65536 \in Nat /\ n \div 16777216 \in Nat
  OBVIOUS
<1> QED BY <1>1, <1>2 DEF Pro!LittleEndian

\* A message either is taken as it is, or falls into addresses and content.
LEMMA Unwrapped ==
    ASSUME NEW b \in Seq(Pro!Byte), NEW u, u = Pro!Unwrap(b)
    PROVE  /\ u.src \in Seq(Pro!Byte) /\ Len(u.src) = 4
           /\ u.dst \in Seq(Pro!Byte) /\ Len(u.dst) = 4
           /\ u.payload \in Seq(Pro!Byte)
           /\ \/ u.payload = b
              \/ Len(b) >= 9 /\ Len(u.payload) = Len(b) - 8
<1> DEFINE src == SubSeq(b, 1, 4)
           dst == SubSeq(b, 5, 8)
           rest == SubSeq(b, 9, Len(b))
<1>0. Len(b) \in Nat
  OBVIOUS
<1>1. CASE Len(b) >= 9 /\ u = [src |-> src, dst |-> dst, payload |-> rest]
  <2>1. /\ 1 \in Nat /\ 4 \in Nat /\ 5 \in Nat /\ 8 \in Nat /\ 9 \in Nat
        /\ 1 > 0 /\ 5 > 0 /\ 9 > 0 /\ 4 <= Len(b) /\ 8 <= Len(b) /\ Len(b) <= Len(b)
    BY <1>0, <1>1
  <2>2. src \in Seq(Pro!Byte) /\ Len(src) = IF 1 <= 4 THEN 4 - 1 + 1 ELSE 0
    BY <2>1, BytesCut
  <2>3. dst \in Seq(Pro!Byte) /\ Len(dst) = IF 5 <= 8 THEN 8 - 5 + 1 ELSE 0
    BY <2>1, BytesCut
  <2>4. rest \in Seq(Pro!Byte) /\ Len(rest) = IF 9 <= Len(b) THEN Len(b) - 9 + 1 ELSE 0
    BY <2>1, <1>0, BytesCut
  <2> HIDE DEF src, dst, rest
  <2>5. Len(src) = 4 /\ Len(dst) = 4 /\ Len(rest) = Len(b) - 8
    BY <2>2, <2>3, <2>4, <1>0, <1>1
  <2>6. u.src = src /\ u.dst = dst /\ u.payload = rest
    BY <1>1
  <2> QED BY <2>2, <2>3, <2>4, <2>5, <2>6, <1>1
<1>2. CASE u = [src |-> Pro!NoAddress, dst |-> Pro!NoAddress, payload |-> b]
  <2>1. Pro!NoAddress \in Seq(Pro!Byte) /\ Len(Pro!NoAddress) = 4
    BY AddressBytes DEF Pro!NoAddress
  <2>2. u.src = Pro!NoAddress /\ u.dst = Pro!NoAddress /\ u.payload = b
    BY <1>2
  <2> QED BY <2>1, <2>2
<1>3. \/ Len(b) >= 9 /\ u = [src |-> src, dst |-> dst, payload |-> rest]
      \/ u = [src |-> Pro!NoAddress, dst |-> Pro!NoAddress, payload |-> b]
  <2> HIDE DEF rest, src, dst
  <2> QED BY Zenon DEF Pro!Unwrap, rest, src, dst
<1> QED BY <1>1, <1>2, <1>3

\* A part of a message, byte by byte.
LEMMA PartFound ==
    ASSUME NEW w \in Seq(Pro!Byte), NEW t \in Seq(Pro!Byte), NEW m \in Nat, m + Len(t) <= Len(w),
           \A i \in 1..Len(t) : w[m + i] = t[i]
    PROVE  SubSeq(w, m + 1, m + Len(t)) = t
<1>1. m + 1 \in Nat /\ m + Len(t) \in Nat /\ m + 1 > 0
  OBVIOUS
<1>2. /\ SubSeq(w, m + 1, m + Len(t)) \in Seq(Pro!Byte)
      /\ Len(SubSeq(w, m + 1, m + Len(t))) =
            IF m + 1 <= m + Len(t) THEN m + Len(t) - (m + 1) + 1 ELSE 0
      /\ \A i \in 1..m + Len(t) - (m + 1) + 1 :
            SubSeq(w, m + 1, m + Len(t))[i] = w[m + 1 + i - 1]
  BY <1>1, BytesCut
<1>3. Len(SubSeq(w, m + 1, m + Len(t))) = Len(t)
  BY <1>1, <1>2
<1>4. ASSUME NEW i \in 1..Len(t) PROVE SubSeq(w, m + 1, m + Len(t))[i] = t[i]
  <2>1. i \in 1..m + Len(t) - (m + 1) + 1 /\ m + 1 + i - 1 = m + i
    BY <1>1
  <2> QED BY <2>1, <1>2
<1> QED BY <1>2, <1>3, <1>4, SeqEqual

\* The parts of a message with its addresses in front.
Address(s) == s \in Seq(Pro!Byte) /\ Len(s) = 4
Text(c) == c \in Seq(Pro!Byte) /\ Len(c) > 0
Enclose(s, d, c) == s \o d \o c

LEMMA Enclosed ==
    ASSUME NEW s, Address(s), NEW d, Address(d), NEW c, Text(c)
    PROVE  /\ Enclose(s, d, c) \in Seq(Pro!Byte) /\ Len(Enclose(s, d, c)) = 8 + Len(c)
           /\ SubSeq(Enclose(s, d, c), 1, 4) = s
           /\ SubSeq(Enclose(s, d, c), 5, 8) = d
           /\ SubSeq(Enclose(s, d, c), 9, Len(Enclose(s, d, c))) = c
           /\ Enclose(s, d, c)[1] = s[1] /\ Enclose(s, d, c)[9] = c[1]
<1> USE DEF Address, Text
<1> DEFINE w == Enclose(s, d, c)
<1>0. Len(c) \in Nat
  OBVIOUS
<1> DEFINE h == s \o d
<1>1. /\ h \in Seq(Pro!Byte) /\ Len(h) = Len(s) + Len(d)
      /\ \A i \in 1..Len(s) + Len(d) : h[i] = IF i <= Len(s) THEN s[i] ELSE d[i - Len(s)]
  BY ConcatProperties
<1>2. w = h \o c
  BY DEF Enclose
<1> HIDE DEF h, w
<1>3. Len(h) = 8 /\ \A i \in 1..8 : h[i] = IF i <= 4 THEN s[i] ELSE d[i - 4]
  BY <1>1
<1>4. /\ w \in Seq(Pro!Byte) /\ Len(w) = Len(h) + Len(c)
      /\ \A i \in 1..Len(h) + Len(c) : w[i] = IF i <= Len(h) THEN h[i] ELSE c[i - Len(h)]
  <2>1. /\ h \o c \in Seq(Pro!Byte) /\ Len(h \o c) = Len(h) + Len(c)
        /\ \A i \in 1..Len(h) + Len(c) : (h \o c)[i] = IF i <= Len(h) THEN h[i] ELSE c[i - Len(h)]
    <3>1. h \in Seq(Pro!Byte)
      BY <1>1
    <3> QED BY <3>1, ConcatProperties
  <2> QED BY <1>2, <2>1
<1>5. Len(w) = 8 + Len(c) /\ Len(w) \in Nat /\ Len(w) >= 9
  BY <1>0, <1>3, <1>4
<1>6. /\ \A i \in 1..4 : w[i] = s[i]
      /\ \A i \in 1..4 : w[4 + i] = d[i]
      /\ \A i \in 1..Len(c) : w[8 + i] = c[i]
  <2>1. ASSUME NEW i \in 1..4 PROVE w[i] = s[i]
    <3>1. i \in 1..Len(h) + Len(c) /\ i <= Len(h) /\ i \in 1..8 /\ i <= 4
      BY <1>0, <1>3
    <3> QED BY <3>1, <1>3, <1>4
  <2>2. ASSUME NEW i \in 1..4 PROVE w[4 + i] = d[i]
    <3>1. PICK j \in 5..8 : j = 4 + i
      OBVIOUS
    <3>2. j \in 1..Len(h) + Len(c) /\ j <= Len(h) /\ j \in 1..8 /\ ~(j <= 4) /\ j - 4 = i
      BY <1>0, <1>3, <3>1
    <3> QED BY <3>1, <3>2, <1>3, <1>4
  <2>3. ASSUME NEW i \in 1..Len(c) PROVE w[8 + i] = c[i]
    <3>1. PICK j \in Nat : j = 8 + i
      BY <1>0
    <3>2. j \in 1..Len(h) + Len(c) /\ ~(j <= Len(h)) /\ j - Len(h) = i
      BY <1>0, <1>3, <3>1
    <3> QED BY <3>1, <3>2, <1>4
  <2> QED BY <2>1, <2>2, <2>3
<1>7. SubSeq(w, 1, 4) = s
  <2>1. SubSeq(w, 0 + 1, 0 + Len(s)) = s
    <3>1. 0 \in Nat /\ 0 + Len(s) <= Len(w)
      BY <1>5
    <3>2. ASSUME NEW i \in 1..Len(s) PROVE w[0 + i] = s[i]
      <4>1. 0 + i = i /\ i \in 1..4
        OBVIOUS
      <4> QED BY <4>1, <1>6
    <3> QED BY <3>1, <3>2, <1>4, PartFound
  <2>2. 0 + 1 = 1 /\ 0 + Len(s) = 4
    OBVIOUS
  <2> QED BY <2>1, <2>2
<1>8. SubSeq(w, 5, 8) = d
  <2>1. SubSeq(w, 4 + 1, 4 + Len(d)) = d
    <3>1. 4 \in Nat /\ 4 + Len(d) <= Len(w)
      BY <1>5
    <3>2. \A i \in 1..Len(d) : w[4 + i] = d[i]
      BY <1>6
    <3> QED BY <3>1, <3>2, <1>4, PartFound
  <2>2. 4 + 1 = 5 /\ 4 + Len(d) = 8
    OBVIOUS
  <2> QED BY <2>1, <2>2
<1>9. SubSeq(w, 9, Len(w)) = c
  <2>1. SubSeq(w, 8 + 1, 8 + Len(c)) = c
    <3>1. 8 \in Nat /\ 8 + Len(c) <= Len(w)
      BY <1>5, <1>0
    <3> QED BY <3>1, <1>4, <1>6, PartFound
  <2>2. 8 + 1 = 9 /\ 8 + Len(c) = Len(w)
    BY <1>5
  <2> QED BY <2>1, <2>2
<1>10. w[1] = s[1] /\ w[9] = c[1]
  <2>1. 1 \in 1..4 /\ 1 \in 1..Len(c) /\ 8 + 1 = 9
    BY <1>0
  <2> QED BY <2>1, <1>6
<1> QED BY <1>4, <1>5, <1>7, <1>8, <1>9, <1>10 DEF w

\* A report that a server accepts is one byte long or has room for addresses.
LEMMA ReportValid ==
    ASSUME NEW b, Pro!Valid(2, b)
    PROVE  Len(b) = 1 \/ Len(b) >= 9
  BY DEF Pro!Valid, Pro!Traffic, Pro!SDSTransfer, Pro!SDSReport, Pro!DTMFData, Pro!PacketData

\* An accepted message falls into two addresses and content that is not empty.
LEMMA SdsParts ==
    ASSUME Pro!ProtocolConstants, NEW m, SdsMessage(m)
    PROVE  /\ Address(Pro!Source(m)) /\ Address(Pro!Dest(m)) /\ Text(Pro!Content(m))
           /\ \/ Pro!Content(m) = m.data
              \/ Len(m.data) >= 9 /\ Len(Pro!Content(m)) = Len(m.data) - 8
           /\ m.type = 2 => Len(m.data) = 1 \/ Len(m.data) >= 9
<1> DEFINE u == Pro!Unwrap(m.data)
<1>1. m.data \in Seq(Pro!Byte) /\ Pro!Valid(m.type, m.data) /\ Pro!IsSDS(m.type)
  BY DEF SdsMessage
<1>2. /\ u.src \in Seq(Pro!Byte) /\ Len(u.src) = 4
      /\ u.dst \in Seq(Pro!Byte) /\ Len(u.dst) = 4
      /\ u.payload \in Seq(Pro!Byte)
      /\ \/ u.payload = m.data
         \/ Len(m.data) >= 9 /\ Len(u.payload) = Len(m.data) - 8
  BY <1>1, Unwrapped
<1>3. CallRoute.src \in Nat /\ CallRoute.dst \in Nat
  BY DEF Pro!ProtocolConstants
<1>4. /\ Pro!LittleEndian(CallRoute.src) \in Seq(Pro!Byte) /\ Len(Pro!LittleEndian(CallRoute.src)) = 4
      /\ Pro!LittleEndian(CallRoute.dst) \in Seq(Pro!Byte) /\ Len(Pro!LittleEndian(CallRoute.dst)) = 4
  BY <1>3, AddressBytes
<1> HIDE DEF u
<1>5. /\ Pro!Source(m) = IF u.src = Pro!NoAddress THEN Pro!LittleEndian(CallRoute.src) ELSE u.src
      /\ Pro!Dest(m) = IF u.dst = Pro!NoAddress THEN Pro!LittleEndian(CallRoute.dst) ELSE u.dst
      /\ Pro!Content(m) = u.payload
  BY DEF Pro!Source, Pro!Dest, Pro!Content, u
<1>6. m.type = 1 \/ m.type = 2
  BY <1>1 DEF Pro!IsSDS, Pro!SDSTransfer, Pro!SDSReport
<1>7. Len(m.data) # 0 /\ (m.type = 2 => Len(m.data) = 1 \/ Len(m.data) >= 9)
  <2>0. Len(m.data) \in Nat
    BY <1>1
  <2>1. CASE m.type = 1
    BY <2>1, <1>1 DEF Pro!Valid, Pro!Traffic, Pro!SDSTransfer, Pro!SDSReport
  <2>2. CASE m.type = 2
    <3>1. Len(m.data) = 1 \/ Len(m.data) >= 9
      BY <2>2, <1>1, ReportValid
    <3> QED BY <3>1, <2>0
  <2> QED BY <2>1, <2>2, <1>6
<1>8. Len(m.data) \in Nat /\ Len(u.payload) \in Nat
  BY <1>1, <1>2
<1>9. Len(u.payload) > 0
  BY <1>2, <1>7, <1>8
<1> QED BY <1>2, <1>4, <1>5, <1>7, <1>9 DEF Address, Text

\* A server that accepts a short data message passes on one the next server accepts,
\* which is its content with addresses in front unless addresses were taken for
\* content.
LEMMA SdsForwarded ==
    ASSUME Pro!ProtocolConstants, NEW m, SdsMessage(m), NEW n, n = Pro!Parse(Pro!ForwardFrame(m))
    PROVE  /\ SdsMessage(n) /\ n.type = m.type
           /\ Pro!Apart(m) => n.data = Enclose(Pro!Source(m), Pro!Dest(m), Pro!Content(m))
<1> DEFINE s == Pro!Source(m)
           d == Pro!Dest(m)
           c == Pro!Content(m)
           w == Enclose(s, d, c)
           e == Pro!PayloadBytes(m.bits)
<1>1. /\ Address(s) /\ Address(d) /\ Text(c)
      /\ c = m.data \/ (Len(m.data) >= 9 /\ Len(c) = Len(m.data) - 8)
      /\ m.type = 2 => Len(m.data) = 1 \/ Len(m.data) >= 9
  BY SdsParts
<1>2. /\ m.data \in Seq(Pro!Byte) /\ Pro!IsSDS(m.type) /\ m.bits \in Pro!Word
      /\ Len(m.data) = e \/ Len(m.data) = e + 8
  BY DEF SdsMessage
<1>3. e \in Nat /\ (e = 0 <=> m.bits = 0) /\ Len(m.data) \in Nat /\ Len(c) \in Nat
  BY <1>1, <1>2, PayloadIsNat DEF Text
<1>4. Pro!Apart(m) <=> Len(m.data) = e \/ c # m.data
  BY DEF Pro!Apart
<1> HIDE DEF s, d, c, e
<1>5. w \in Seq(Pro!Byte) /\ Len(w) = 8 + Len(c)
  BY <1>1, Enclosed
<1>6. Pro!ForwardFrame(m) = Pro!BuildFrame(m.type, m.bits, w)
  BY <1>2 DEF Pro!ForwardFrame, Enclose, s, d, c
<1> HIDE DEF w
<1> SUFFICES ASSUME NEW length \in Pro!Word, NEW b \in Seq(Pro!Byte), Len(b) >= 9,
                    Len(b) = Pro!PayloadBytes(length) \/ Len(b) = Pro!PayloadBytes(length) + 8,
                    Pro!BuildFrame(m.type, m.bits, w) =
                        [class |-> "frame", type |-> m.type, bits |-> length, body |-> b],
                    Pro!Apart(m) => b = w
             PROVE  /\ SdsMessage(n) /\ n.type = m.type
                    /\ Pro!Apart(m) => n.data = w
  <2> SUFFICES \E length \in Pro!Word, b \in Seq(Pro!Byte) :
                  /\ Len(b) >= 9
                  /\ Len(b) = Pro!PayloadBytes(length) \/ Len(b) = Pro!PayloadBytes(length) + 8
                  /\ Pro!BuildFrame(m.type, m.bits, w) =
                        [class |-> "frame", type |-> m.type, bits |-> length, body |-> b]
                  /\ Pro!Apart(m) => b = w
    BY DEF w, s, d, c
  <2>1. CASE m.bits = 0
    <3>1. e = 0 /\ Len(m.data) = 8 /\ c = m.data
      <4>1. e = 0
        BY <2>1, <1>3
      <4>2. m.type = 1 \/ m.type = 2
        BY <1>2 DEF Pro!IsSDS, Pro!SDSTransfer, Pro!SDSReport
      <4>3. Len(m.data) # 0
        BY <1>1, <1>3 DEF Text
      <4>4. Len(m.data) = 8
        BY <4>1, <4>3, <1>2
      <4> QED BY <4>1, <4>4, <1>1
    <3>2. Len(w) = 16 /\ w # <<>>
      BY <3>1, <1>5
    <3>3. 128 \in Pro!Word /\ Pro!PayloadBytes(128) = 16
      BY DEF Pro!Word, Pro!PayloadBytes
    <3>4. Pro!Kept(m.type, 128, w) = 16
      BY <3>2, <3>3 DEF Pro!Kept
    <3>5. SubSeq(w, 1, 16) = w
      BY <1>5, <3>2, SubSeqFull
    <3>6. Pro!LengthOf(m.bits, w) = 128
      BY <2>1, <3>2 DEF Pro!LengthOf
    <3>7. Pro!Normalized(m.type, 128, w) = w
      <4>1. Pro!Normalized(m.type, 128, w) = SubSeq(w, 1, 16)
        BY <3>2, <3>3, <3>4 DEF Pro!Normalized
      <4> QED BY <4>1, <3>5
    <3>8. Pro!BuildFrame(m.type, m.bits, w) =
            [class |-> "frame", type |-> m.type, bits |-> 128, body |-> w]
      BY <3>6, <3>7 DEF Pro!BuildFrame
    <3>9. /\ 128 \in Pro!Word /\ w \in Seq(Pro!Byte) /\ Len(w) >= 9
          /\ Len(w) = Pro!PayloadBytes(128) \/ Len(w) = Pro!PayloadBytes(128) + 8
      BY <3>2, <3>3, <1>5
    <3> QED BY <3>8, <3>9
  <2>2. CASE m.bits # 0
    <3> DEFINE k == IF Len(w) >= e + 8 THEN e + 8 ELSE e
               b == SubSeq(w, 1, k)
    <3>1. e \in Nat /\ e > 0 /\ Len(w) \in Nat
      BY <2>2, <1>3, <1>5
    <3>2. Pro!Kept(m.type, m.bits, w) = k
      BY <1>2 DEF Pro!Kept, e
    <3>3. k \in Nat /\ k <= Len(w) /\ k >= 9 /\ (k = e \/ k = e + 8)
      BY <3>1, <1>1, <1>2, <1>3, <1>5
    <3>4. Pro!Apart(m) => k = Len(w)
      BY <3>1, <1>1, <1>2, <1>3, <1>4, <1>5
    <3> HIDE DEF k
    <3>5. b \in Seq(Pro!Byte) /\ Len(b) = k
      <4>1. 1 \in Nat /\ 1 > 0
        OBVIOUS
      <4>2. b \in Seq(Pro!Byte) /\ Len(b) = IF 1 <= k THEN k - 1 + 1 ELSE 0
        BY <4>1, <3>3, <1>5, BytesCut
      <4> HIDE DEF b
      <4> QED BY <4>2, <3>3
    <3>6. k = Len(w) => b = w
      BY <1>5, SubSeqFull
    <3>7. Pro!LengthOf(m.bits, w) = m.bits
      BY <2>2 DEF Pro!LengthOf
    <3>8. Pro!Normalized(m.type, m.bits, w) = b
      <4>1. Pro!PayloadBytes(m.bits) # 0 /\ Len(w) >= k
        BY <3>1, <3>3 DEF e
      <4> QED BY <4>1, <3>2, NormalizedCut
    <3>9. Pro!BuildFrame(m.type, m.bits, w) =
            [class |-> "frame", type |-> m.type, bits |-> m.bits, body |-> b]
      BY <3>7, <3>8 DEF Pro!BuildFrame
    <3>10. Len(b) >= 9 /\ (Len(b) = Pro!PayloadBytes(m.bits) \/ Len(b) = Pro!PayloadBytes(m.bits) + 8)
      BY <3>3, <3>5 DEF e
    <3> HIDE DEF b
    <3> QED BY <3>4, <3>5, <3>6, <3>9, <3>10, <1>2
  <2> QED BY <2>1, <2>2
<1>7. /\ n = [class |-> "frame", type |-> m.type, bits |-> length, data |-> b]
      /\ SdsMessage([class |-> "frame", type |-> m.type, bits |-> length, data |-> b])
  BY <1>2, <1>6, SdsWhole
<1>8. n.type = m.type /\ n.data = b
  BY <1>7
<1> QED BY <1>7, <1>8

\* Addresses that are recognised are recognised again, behind them the same content.
LEMMA SdsAgain ==
    ASSUME Pro!ProtocolConstants, NEW m, SdsMessage(m), Pro!Recognised(m),
           NEW n, n.data = Enclose(Pro!Source(m), Pro!Dest(m), Pro!Content(m))
    PROVE  /\ Pro!Source(n) = Pro!Source(m) /\ Pro!Dest(n) = Pro!Dest(m)
           /\ Pro!Content(n) = Pro!Content(m)
           /\ Pro!Apart(n)
<1> DEFINE s == Pro!Source(m)
           d == Pro!Dest(m)
           c == Pro!Content(m)
           w == Enclose(s, d, c)
<1>1. Address(s) /\ Address(d) /\ Text(c)
  BY SdsParts
<1>2. /\ s # Pro!NoAddress \/ d # Pro!NoAddress
      /\ ~Pro!IsProtocol(s[1]) /\ Pro!IsProtocol(c[1])
  BY DEF Pro!Recognised
<1>3. /\ s = Pro!NoAddress => Pro!LittleEndian(CallRoute.src) = Pro!NoAddress
      /\ d = Pro!NoAddress => Pro!LittleEndian(CallRoute.dst) = Pro!NoAddress
  BY DEF Pro!Source, Pro!Dest
<1> HIDE DEF s, d, c
<1>4. /\ w \in Seq(Pro!Byte) /\ Len(w) = 8 + Len(c)
      /\ SubSeq(w, 1, 4) = s /\ SubSeq(w, 5, 8) = d /\ SubSeq(w, 9, Len(w)) = c
      /\ w[1] = s[1] /\ w[9] = c[1]
  BY <1>1, Enclosed
<1> HIDE DEF w
<1>5. Len(w) >= 9 /\ Len(c) \in Nat
  BY <1>1, <1>4 DEF Text
<1>6. Pro!Unwrap(w) = [src |-> s, dst |-> d, payload |-> c]
  BY <1>2, <1>4, <1>5 DEF Pro!Unwrap
<1>7. n.data = w
  BY DEF w, s, d, c
<1>8. Pro!Unwrap(n.data).src = s /\ Pro!Unwrap(n.data).dst = d /\ Pro!Unwrap(n.data).payload = c
  BY <1>6, <1>7
<1>9. Pro!Source(n) = s /\ Pro!Dest(n) = d /\ Pro!Content(n) = c
  BY <1>3, <1>8 DEF Pro!Source, Pro!Dest, Pro!Content
<1>10. Pro!Apart(n)
  <2>1. c # w
    BY <1>4, <1>5
  <2> QED BY <2>1, <1>7, <1>9 DEF Pro!Apart
<1> QED BY <1>9, <1>10 DEF s, d, c

\* A layout of three fields is read field by field.
LEMMA ThreeFields ==
    ASSUME NEW a, NEW b, NEW c
    PROVE  <<a>> \o <<b, c>> = <<a, b, c>>
<1> DEFINE S == {a, b, c}
           s == <<a>>
           t == <<b, c>>
           x == s \o t
<1>1. s \in Seq(S) /\ t \in Seq(S) /\ Len(s) = 1 /\ Len(t) = 2 /\ s[1] = a /\ t[1] = b /\ t[2] = c
  OBVIOUS
<1> HIDE DEF S, s, t
<1>2. /\ x \in Seq(S) /\ Len(x) = Len(s) + Len(t)
      /\ \A i \in 1..Len(s) + Len(t) : x[i] = IF i <= Len(s) THEN s[i] ELSE t[i - Len(s)]
  BY <1>1, ConcatProperties
<1> HIDE DEF x
<1>3. Len(x) = 3 /\ x[1] = a /\ x[2] = b /\ x[3] = c
  BY <1>1, <1>2
<1>4. x = <<x[1], x[2], x[3]>>
  <2>1. x \in Seq(S) /\ Len(x) = 3
    BY <1>2, <1>3
  <2> QED BY <2>1
<1> QED BY <1>3, <1>4 DEF x, s, t

\* What a message of a subscriber or a service holds is read as it was written.
LEMMA SpokenRead ==
    ASSUME Pro!ProtocolConstants, NEW m \in Spoken
    PROVE  /\ m.class \in {"subscriber", "service"}
           /\ m.class = "service" => Pro!Parse(Pro!BuildService(m)) = m
           /\ m.class = "subscriber" => Pro!Parse(Pro!BuildSubscriber(m, Pro!Now)) = m
<1>1. CASE m \in [class : {"service"}, type : Pro!Byte, json : Seq(Pro!Byte \ {0})]
  <2>1. m.class = "service" /\ m.json \in Seq(Pro!Byte \ {0})
    BY <1>1
  <2>2. m = [class |-> "service", type |-> m.type, json |-> m.json]
    BY <1>1
  <2>3. <<0>> \in Seq({0})
    OBVIOUS
  <2>4. Pro!BeforeZero(m.json \o <<0>>) = m.json
    BY <2>1, <2>3, ZeroKept
  <2> DEFINE p == Pro!BuildService(m)
  <2>5. p.class = "service" /\ p.type = m.type /\ p.body = m.json \o <<0>>
    BY DEF Pro!BuildService
  <2> HIDE DEF p
  <2>6. Pro!Parse(p) = [class |-> "service", type |-> m.type, json |-> m.json]
    BY <2>4, <2>5 DEF Pro!Parse, Pro!ParseService
  <2> QED BY <2>1, <2>2, <2>6 DEF p
<1>2. CASE m \in [class : {"subscriber"}, type : Pro!Byte, number : Pro!Identifier, groups : Seq(Pro!Identifier)]
  <2> DEFINE k == Len(m.groups)
             head == Pro!Write(Pro!SubscriberHead, <<m.number>> \o Pro!Now)
             list == Pro!Write(Pro!GroupList(k), m.groups)
             p == Pro!BuildSubscriber(m, Pro!Now)
  <2>1. m.class = "subscriber" /\ m.number \in [1..2 -> Pro!Word] /\ m.groups \in Seq(Pro!Identifier)
    BY <1>2 DEF Pro!Identifier
  <2>2. m = [class |-> "subscriber", type |-> m.type, number |-> m.number, groups |-> m.groups]
    BY <1>2
  <2>3. k \in Nat
    BY <2>1
  <2>4. Laid(Pro!GroupList(k)) /\ Len(Pro!GroupList(k)) = k /\ Pro!Size(Pro!GroupList(k)) = 4 * k
    BY <2>3, GroupListLaid
  <2>5. Holds(Pro!GroupList(k), m.groups)
    <3>1. ASSUME NEW i \in 1..k PROVE Fits(Pro!GroupList(k)[i].kind, m.groups[i])
      <4>1. Pro!GroupList(k)[i].kind = "u32"
        BY DEF Pro!GroupList, Pro!Field
      <4>2. m.groups[i] \in [1..2 -> Pro!Word]
        BY <2>1 DEF Pro!Identifier
      <4> QED BY <4>1, <4>2 DEF Fits
    <3>2. m.groups = [i \in 1..k |-> m.groups[i]]
      BY <2>1
    <3> QED BY <3>1, <3>2, <2>4 DEF Holds
  <2>6. /\ Laid(Pro!SubscriberHead) /\ Pro!Size(Pro!SubscriberHead) = 16 /\ Len(Pro!SubscriberHead) = 3
    BY HeadLaid
  <2>7. Holds(Pro!SubscriberHead, <<m.number>> \o Pro!Now)
    <3>1. <<m.number>> \o Pro!Now = <<m.number, <<1, 2, 0, 0>>, <<9, 0>>>>
      BY ThreeFields DEF Pro!Now
    <3>2. /\ Pro!SubscriberHead[1].kind = "u32" /\ Pro!SubscriberHead[2].kind = "u64"
          /\ Pro!SubscriberHead[3].kind = "u32"
      BY DEF Pro!SubscriberHead, Pro!Field
    <3>3. <<1, 2, 0, 0>> \in [1..4 -> Pro!Word] /\ <<9, 0>> \in [1..2 -> Pro!Word]
      BY DEF Pro!Word
    <3>4. Fits("u32", m.number) /\ Fits("u64", <<1, 2, 0, 0>>) /\ Fits("u32", <<9, 0>>)
      BY <3>3, <2>1 DEF Fits
    <3> DEFINE t == <<m.number, <<1, 2, 0, 0>>, <<9, 0>>>>
    <3>5. t = [i \in 1..3 |-> t[i]] /\ t[1] = m.number /\ t[2] = <<1, 2, 0, 0>> /\ t[3] = <<9, 0>>
      OBVIOUS
    <3> HIDE DEF t
    <3>6. \A i \in 1..3 : Fits(Pro!SubscriberHead[i].kind, t[i])
      BY <3>2, <3>4, <3>5
    <3>7. Holds(Pro!SubscriberHead, t)
      BY <3>5, <3>6, <2>6 DEF Holds
    <3> QED BY <3>1, <3>7 DEF t
  <2>8. list \in Seq({list[i] : i \in 1..4 * k}) /\ Len(list) = 4 * k
    <3> DEFINE T == {list[i] : i \in 1..4 * k}
    <3>1. list = [i \in 1..4 * k |-> list[i]]
      BY <2>4 DEF Pro!Write
    <3>2. 4 * k \in Nat
      BY <2>3
    <3> HIDE DEF list, k
    <3>3. list \in [1..4 * k -> T]
      BY <3>1
    <3> HIDE DEF T
    <3>4. list \in Seq(T) /\ Len(list) = 4 * k
      BY <3>2, <3>3, FunctionIsSequence
    <3> QED BY <3>4 DEF T
  <2>9. Pro!Read(Pro!GroupList(k), list) = m.groups
    <3>1. <<>> \in Seq({}) /\ Len(<<>>) = 0
      OBVIOUS
    <3>2. Pro!Read(Pro!GroupList(k), list \o <<>>) = m.groups
      <4>1. ReadsBack(Pro!GroupList(k), m.groups, <<>>)
        BY <2>4, <2>5, <3>1, LayoutWritten
      <4> QED BY <4>1 DEF ReadsBack
    <3> HIDE DEF list, k
    <3>3. list \o <<>> = list
      BY <2>8, ConcatEmptySeq
    <3> QED BY <3>2, <3>3
  <2> HIDE DEF list, k, head
  <2>10. /\ Len(head \o list) = Pro!Size(Pro!SubscriberHead) + Len(list)
         /\ Pro!Read(Pro!SubscriberHead, head \o list) = <<m.number>> \o Pro!Now
         /\ SubSeq(head \o list, Pro!Size(Pro!SubscriberHead) + 1, Len(head \o list)) = list
    <3>1. ReadsBack(Pro!SubscriberHead, <<m.number>> \o Pro!Now, list)
      BY <2>6, <2>7, <2>8, LayoutWritten
    <3> QED BY <3>1 DEF ReadsBack, head
  <2>11. p.class = "subscriber" /\ p.type = m.type /\ p.body = head \o list
    BY DEF Pro!BuildSubscriber, list, k, head
  <2> HIDE DEF p
  <2>12. ~(Len(p.body) < Pro!Size(Pro!SubscriberHead))
    BY <2>3, <2>6, <2>8, <2>10, <2>11
  <2>13. SubSeq(p.body, Pro!Size(Pro!SubscriberHead) + 1, Len(p.body)) = list
    BY <2>10, <2>11, <2>12
  <2>14. Len(list) \div 4 = k
    BY <2>3, <2>8
  <2>15. (<<m.number>> \o Pro!Now)[1] = m.number
    BY DEF Pro!Now
  <2>16. Pro!ParseSubscriber(p) =
           [class |-> "subscriber", type |-> m.type, number |-> m.number, groups |-> m.groups]
    BY <2>9, <2>10, <2>11, <2>12, <2>13, <2>14, <2>15 DEF Pro!ParseSubscriber
  <2>17. Pro!Parse(p) = Pro!ParseSubscriber(p)
    BY <2>11 DEF Pro!Parse
  <2> QED BY <2>1, <2>2, <2>16, <2>17 DEF p
<1> QED BY <1>1, <1>2 DEF Pro!ProtocolConstants

\* What the next server understands of what this one passes on.
PassedOn(m) == Pro!Parse(IF m.class = "call" THEN Pro!BuildCallControl(m) ELSE Pro!ForwardFrame(m))

\* A message that stays what it is, however often it is passed on.
Settled(m) ==
    /\ m.class \in {"call", "frame", "subscriber", "service", "error"}
    /\ m.class = "frame" => ~Pro!IsSDS(m.type)
    /\ m.class \in {"call", "frame"} => PassedOn(m) = m

\* What a receiver understands, n servers behind the first.
Seen(m, n) ==
    \/ Settled(first) /\ m = first
    \/ /\ SdsMessage(first) /\ SdsMessage(m) /\ m.type = first.type
       /\ n = 0 => m = first
       /\ n > 0 /\ Pro!Apart(first) /\ (n = 1 \/ Pro!Recognised(first)) =>
            m.data = Enclose(Pro!Source(first), Pro!Dest(first), Pro!Content(first))

\* The packet on the wire is one a base station sent, or is understood as the first
\* receiver's message.
RelayInv ==
    /\ hops \in Nat
    /\ message # Pro!NotRead => message = Pro!Parse(packet) /\ first # Pro!NotRead
    /\ first = Pro!NotRead => hops = 0 /\ packet \in Packet
    /\ \/ first = Pro!NotRead
       \/ first = Pro!Refused /\ message = Pro!Refused
       \/ Seen(Pro!Parse(packet), hops)

\* What the first receiver understands of a base station's packet.
LEMMA FirstRead ==
    ASSUME Pro!ProtocolConstants, NEW p \in Packet, NEW m, m = Pro!Parse(p)
    PROVE  m = Pro!Refused \/ Settled(m) \/ SdsMessage(m)
<1>1. p.class \in {"subscriber", "call", "frame", "service", "error", "other"} /\ p.body \in Seq(Pro!Byte)
  BY DEF Pro!ProtocolConstants
<1>2. CASE p.class = "subscriber"
  <2>1. m = Pro!ParseSubscriber(p)
    BY <1>2 DEF Pro!Parse
  <2>2. m = Pro!Refused \/ m.class = "subscriber"
    BY <2>1 DEF Pro!ParseSubscriber
  <2> QED BY <2>2 DEF Settled
<1>3. CASE p.class = "call"
  <2>1. m = Pro!ParseCallControl(p)
    BY <1>3 DEF Pro!Parse
  <2>2. CASE m # Pro!Refused
    <3>1. m.class = "call" /\ Pro!ParseCallControl(Pro!BuildCallControl(m)) = m
      BY <1>1, <2>1, <2>2, CallKept
    <3>2. Pro!BuildCallControl(m).class = "call"
      BY DEF Pro!BuildCallControl
    <3>3. Pro!Parse(Pro!BuildCallControl(m)) = m
      BY <3>1, <3>2 DEF Pro!Parse
    <3> QED BY <3>1, <3>3 DEF Settled, PassedOn
  <2> QED BY <2>2
<1>4. CASE p.class = "frame"
  <2>1. m = Pro!ParseFrame(p)
    BY <1>4 DEF Pro!Parse
  <2>2. p.bits \in Pro!Word
    BY <1>4 DEF Pro!ProtocolConstants
  <2>3. CASE m # Pro!Refused /\ Pro!IsSDS(p.type)
    BY <1>1, <1>4, <2>1, <2>2, <2>3, SdsAccepted
  <2>4. CASE m # Pro!Refused /\ ~Pro!IsSDS(p.type)
    <3>1. m.class = "frame" /\ m.type = p.type /\ Pro!Parse(Pro!ForwardFrame(m)) = m
      BY <1>1, <1>4, <2>1, <2>2, <2>4, FrameKept
    <3> QED BY <3>1, <2>4 DEF Settled, PassedOn
  <2> QED BY <2>3, <2>4
<1>5. CASE p.class = "service"
  <2>1. m.class = "service"
    BY <1>5 DEF Pro!Parse, Pro!ParseService
  <2> QED BY <2>1 DEF Settled
<1>6. CASE p.class = "error"
  <2>1. m.class = "error"
    BY <1>6 DEF Pro!Parse
  <2> QED BY <2>1 DEF Settled
<1>7. CASE p.class = "other"
  BY <1>7 DEF Pro!Parse
<1> QED BY <1>1, <1>2, <1>3, <1>4, <1>5, <1>6, <1>7

\* One server more.
LEMMA SeenStep ==
    ASSUME Pro!ProtocolConstants, NEW m, NEW n \in Nat, Seen(m, n), m.class \in {"call", "frame"}
    PROVE  Seen(PassedOn(m), n + 1)
<1>1. CASE Settled(first) /\ m = first
  <2>1. PassedOn(m) = first
    BY <1>1 DEF Settled
  <2> QED BY <2>1, <1>1 DEF Seen
<1>2. CASE ~(Settled(first) /\ m = first)
  <2> DEFINE k == PassedOn(m)
             w == Enclose(Pro!Source(first), Pro!Dest(first), Pro!Content(first))
  <2>1. /\ SdsMessage(first) /\ SdsMessage(m) /\ m.type = first.type
        /\ n = 0 => m = first
        /\ n > 0 /\ Pro!Apart(first) /\ (n = 1 \/ Pro!Recognised(first)) => m.data = w
    BY <1>2 DEF Seen
  <2>2. k = Pro!Parse(Pro!ForwardFrame(m))
    <3>1. m.class = "frame"
      BY <2>1 DEF SdsMessage
    <3> QED BY <3>1 DEF PassedOn
  <2> HIDE DEF k, w
  <2>3. /\ SdsMessage(k) /\ k.type = m.type
        /\ Pro!Apart(m) => k.data = Enclose(Pro!Source(m), Pro!Dest(m), Pro!Content(m))
    BY <2>1, <2>2, SdsForwarded
  <2>4. ASSUME Pro!Apart(first), n + 1 = 1 \/ Pro!Recognised(first)
        PROVE  k.data = w
    <3>1. CASE n = 0
      BY <3>1, <2>1, <2>3, <2>4 DEF w
    <3>2. CASE n > 0
      <4>1. Pro!Recognised(first) /\ m.data = w
        BY <3>2, <2>1, <2>4
      <4>2. /\ Pro!Source(m) = Pro!Source(first) /\ Pro!Dest(m) = Pro!Dest(first)
            /\ Pro!Content(m) = Pro!Content(first)
            /\ Pro!Apart(m)
        BY <4>1, <2>1, SdsAgain DEF w
      <4> QED BY <4>2, <2>3 DEF w
    <3> QED BY <3>1, <3>2
  <2>5. n + 1 # 0 /\ n + 1 > 0
    OBVIOUS
  <2> QED BY <2>1, <2>3, <2>4, <2>5 DEF Seen, k, w
<1> QED BY <1>1, <1>2

\* What the last receiver has read is what it was meant to read.
LEMMA RelaySound ==
    ASSUME Pro!ProtocolConstants, RelayInv
    PROVE  RelayFaithful
<1> SUFFICES ASSUME message # Pro!NotRead, first # Pro!Refused
             PROVE  /\ message # Pro!Refused
                    /\ IF message.class = "frame" /\ Pro!IsSDS(message.type)
                       THEN Pro!Apart(first) =>
                                /\ Pro!Recognised(first) => Pro!Content(message) = Pro!Content(first)
                                /\ hops = 1 => SubSeq(message.data, 9, Len(message.data)) = Pro!Content(first)
                       ELSE message = first
  BY DEF RelayFaithful, Pro!RelayFaithful
<1>1. Seen(message, hops) /\ hops \in Nat
  BY DEF RelayInv
<1>2. CASE Settled(first) /\ message = first
  <2>1. ~(message.class = "frame" /\ Pro!IsSDS(message.type))
    BY <1>2 DEF Settled
  <2> QED BY <1>2, <2>1
<1>3. CASE ~(Settled(first) /\ message = first)
  <2> DEFINE w == Enclose(Pro!Source(first), Pro!Dest(first), Pro!Content(first))
  <2>1. /\ SdsMessage(first) /\ SdsMessage(message)
        /\ hops = 0 => message = first
        /\ hops > 0 /\ Pro!Apart(first) /\ (hops = 1 \/ Pro!Recognised(first)) => message.data = w
    BY <1>1, <1>3 DEF Seen
  <2>2. message.class = "frame" /\ Pro!IsSDS(message.type) /\ message # Pro!Refused
    BY <2>1 DEF SdsMessage, Pro!Refused
  <2>3. ASSUME Pro!Apart(first), Pro!Recognised(first)
        PROVE  Pro!Content(message) = Pro!Content(first)
    <3>1. CASE hops = 0
      BY <3>1, <2>1
    <3>2. CASE hops > 0
      <4>1. message.data = w
        BY <3>2, <2>1, <2>3
      <4> QED BY <4>1, <2>1, <2>3, SdsAgain
    <3> QED BY <3>1, <3>2, <1>1
  <2>4. ASSUME Pro!Apart(first), hops = 1
        PROVE  SubSeq(message.data, 9, Len(message.data)) = Pro!Content(first)
    <3>1. message.data = w
      BY <2>1, <2>4
    <3>2. /\ Address(Pro!Source(first)) /\ Address(Pro!Dest(first)) /\ Text(Pro!Content(first))
      BY <2>1, SdsParts
    <3>3. SubSeq(w, 9, Len(w)) = Pro!Content(first)
      BY <3>2, Enclosed
    <3> HIDE DEF w
    <3> QED BY <3>1, <3>3
  <2> QED BY <2>2, <2>3, <2>4
<1> QED BY <1>2, <1>3

\* Receiving and passing on keep the invariant.
LEMMA RelayStep ==
    ASSUME Pro!ProtocolConstants, RelayInv, [Pro!Next]_Pro!vars
    PROVE  RelayInv'
<1>1. CASE Pro!Receive
  <2>1. /\ message = Pro!NotRead /\ message' = Pro!Parse(packet)
        /\ first' = (IF first = Pro!NotRead THEN message' ELSE first)
        /\ packet' = packet /\ hops' = hops
    BY <1>1 DEF Pro!Receive
  <2>2. CASE first = Pro!NotRead
    <3>1. hops = 0 /\ packet \in Packet
      BY <2>2 DEF RelayInv
    <3>2. message' = Pro!Refused \/ Settled(message') \/ SdsMessage(message')
      BY <2>1, <3>1, FirstRead
    <3>3. first' # Pro!NotRead
      BY <2>1, <2>2, <3>2 DEF Settled, SdsMessage, Pro!Refused, Pro!NotRead
    <3>4. \/ first' = Pro!Refused /\ message' = Pro!Refused
          \/ Seen(Pro!Parse(packet), hops)'
      BY <2>1, <2>2, <3>1, <3>2 DEF Seen
    <3> QED BY <2>1, <3>1, <3>3, <3>4 DEF RelayInv
  <2>3. CASE first # Pro!NotRead
    <3>1. first # Pro!Refused
      <4>1. message # Pro!Refused
        BY <2>1 DEF Pro!Refused, Pro!NotRead
      <4>2. Seen(Pro!Parse(packet), hops) => first # Pro!Refused
        BY DEF Seen, Settled, SdsMessage, Pro!Refused
      <4> QED BY <2>3, <4>1, <4>2 DEF RelayInv
    <3>2. first' = first /\ first' # Pro!NotRead
      BY <2>1, <2>3
    <3>3. Seen(Pro!Parse(packet), hops)
      BY <2>3, <3>1 DEF RelayInv
    <3>4. Seen(Pro!Parse(packet), hops)'
      BY <2>1, <3>2, <3>3 DEF Seen
    <3> QED BY <2>1, <3>2, <3>4 DEF RelayInv
  <2> QED BY <2>2, <2>3
<1>2. CASE Pro!Forward
  <2>1. /\ message.class \in {"call", "frame"}
        /\ packet' = (IF message.class = "call" THEN Pro!BuildCallControl(message) ELSE Pro!ForwardFrame(message))
        /\ message' = Pro!NotRead /\ hops' = hops + 1 /\ first' = first
    BY <1>2 DEF Pro!Forward
  <2>2. message # Pro!NotRead /\ message # Pro!Refused
    BY <2>1 DEF Pro!NotRead, Pro!Refused
  <2>3. /\ hops \in Nat /\ first # Pro!NotRead /\ message = Pro!Parse(packet)
        /\ Seen(message, hops)
    BY <2>2 DEF RelayInv
  <2>4. Seen(PassedOn(message), hops + 1)
    BY <2>1, <2>3, SeenStep
  <2>5. Pro!Parse(packet') = PassedOn(message)
    BY <2>1 DEF PassedOn
  <2>6. Seen(Pro!Parse(packet), hops)'
    BY <2>1, <2>4, <2>5 DEF Seen
  <2>7. hops + 1 \in Nat
    BY <2>3
  <2> QED BY <2>1, <2>3, <2>6, <2>7 DEF RelayInv
<1>3. CASE UNCHANGED Pro!vars
  <2>1. packet' = packet /\ first' = first /\ message' = message /\ hops' = hops
    BY <1>3 DEF Pro!vars
  <2> QED BY <2>1 DEF RelayInv, Seen
<1> QED BY <1>1, <1>2, <1>3 DEF Pro!Next

\* RelayFaithful: however many servers a packet passes, each of them building it anew
\* from what it understood, the last one understands what the first one did; a short
\* data message is delivered whole by the first server and, if its addresses are
\* recognised, by all of them, whatever its bytes and the length it states.
THEOREM RelayAlwaysFaithful ==
    ASSUME Pro!ProtocolConstants
    PROVE  Pro!Spec => []RelayFaithful
<1>1. Pro!Init => RelayInv
  <2> SUFFICES ASSUME Pro!Init PROVE RelayInv
    OBVIOUS
  <2>1. hops = 0 /\ message = Pro!NotRead
    BY DEF Pro!Init
  <2>2. CASE packet \in Packet /\ first = Pro!NotRead
    BY <2>1, <2>2 DEF RelayInv
  <2>3. CASE /\ first \in Spoken
             /\ packet = (IF first.class = "service" THEN Pro!BuildService(first)
                          ELSE Pro!BuildSubscriber(first, Pro!Now))
    <3>1. first.class \in {"subscriber", "service"} /\ Pro!Parse(packet) = first
      BY <2>3, SpokenRead
    <3>2. first # Pro!NotRead /\ Settled(first)
      BY <3>1 DEF Pro!NotRead, Settled
    <3> QED BY <2>1, <3>1, <3>2 DEF RelayInv, Seen
  <2> QED BY <2>2, <2>3 DEF Pro!Init
<1>2. RelayInv /\ [Pro!Next]_Pro!vars => RelayInv'
  BY RelayStep
<1>3. RelayInv => RelayFaithful
  BY RelaySound
<1> QED BY <1>1, <1>2, <1>3, PTL DEF Pro!Spec
=============================================================================
