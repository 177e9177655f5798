-------------------------- MODULE MeshRouterProofs --------------------------
(***************************************************************************)
(* Proofs about MeshRouter, for any mesh, any TTL and any buffer size.     *)
(***************************************************************************)
EXTENDS MeshRouter, TLAPS

(* Facts about the operators the actions are built from.                   *)

\* Sending keeps every queue a sequence of messages.
LEMMA SendControlType ==
    ASSUME TypeOK, NEW S \in SUBSET Stream, NEW m \in Msg
    PROVE  SendControl(S, m) \in [Stream -> Seq(Msg)]
BY DEF SendControl, TypeOK

\* What SendControl puts on a stream is what was there, or the new message.
LEMMA SendControlRange ==
    ASSUME TypeOK, NEW S \in SUBSET Stream, NEW m \in Msg, NEW s \in Stream,
           NEW x \in Range(SendControl(S, m)[s])
    PROVE  x \in Range(queue[s]) \/ (s \in S /\ x = m)
<1>1. queue[s] \in Seq(Msg)
  BY DEF TypeOK
<1>2. CASE s \in S /\ Len(queue[s]) < SendBuf
  <2>1. SendControl(S, m)[s] = Append(queue[s], m)
    BY <1>2 DEF SendControl
  <2>2. PICK i \in DOMAIN Append(queue[s], m) : x = Append(queue[s], m)[i]
    BY <2>1 DEF Range
  <2>3. CASE i = Len(queue[s]) + 1
    BY <1>1, <1>2, <2>2, <2>3
  <2>4. CASE i # Len(queue[s]) + 1
    <3>1. i \in DOMAIN queue[s] /\ x = queue[s][i]
      BY <1>1, <2>2, <2>4
    <3> QED BY <3>1 DEF Range
  <2> QED BY <2>3, <2>4
<1>3. CASE ~(s \in S /\ Len(queue[s]) < SendBuf)
  BY <1>3 DEF SendControl
<1> QED BY <1>2, <1>3

\* A fan-out uses streams of the sender, to the servers it is meant for.
LEMMA FanOutStreams ==
    ASSUME TypeOK, NEW n, NEW T, NEW S \in FanOut(n, T)
    PROVE  S \in SUBSET Stream /\ \A s \in S : s[1] = n /\ s[2] \in T
BY DEF FanOut, TypeOK

\* Dropping the head of a queue brings no new message in.
LEMMA TailRange ==
    ASSUME NEW q \in Seq(Msg), q # <<>>, NEW x \in Range(Tail(q))
    PROVE  x \in Range(q)
<1>1. PICK i \in DOMAIN Tail(q) : x = Tail(q)[i]
  BY DEF Range
<1>2. i + 1 \in DOMAIN q /\ Tail(q)[i] = q[i + 1]
  BY <1>1
<1> QED BY <1>1, <1>2 DEF Range

\* The head of a non-empty queue is a message of that queue.
LEMMA HeadRange ==
    ASSUME NEW q \in Seq(Msg), q # <<>>
    PROVE  Head(q) \in Msg /\ Head(q) \in Range(q)
BY DEF Range

\* PrepareOutgoing and PrepareRelay make messages.
LEMMA PrepareTypes ==
    /\ \A n, o \in Server, id \in MsgId : PrepareOutgoing(n, id, o) \in Msg
    /\ \A m \in Msg, n \in Server : PrepareRelay(m, n) \in Msg
BY MeshConstants DEF PrepareOutgoing, PrepareRelay, Msg

-----------------------------------------------------------------------------
(* Type correctness                                                        *)

\* Every state of the mesh is well typed, and a read loop holds a message
\* exactly while it is past the check.
THEOREM TypeCorrect == Spec => []TypeOK
<1>1. Init => TypeOK
  BY DEF Init, TypeOK
<1>2. TypeOK /\ [Next]_vars => TypeOK'
  <2> SUFFICES ASSUME TypeOK, [Next]_vars PROVE TypeOK'
    OBVIOUS
  <2>1. ASSUME NEW n \in Server, NEW o \in Server, NEW id \in MsgId, Broadcast(n, id, o)
        PROVE TypeOK'
    <3>1. PICK S \in FanOut(n, Peers(n)) : queue' = SendControl(S, PrepareOutgoing(n, id, o))
      BY <2>1 DEF Broadcast
    <3>2. queue' \in [Stream -> Seq(Msg)]
      BY <3>1, SendControlType, FanOutStreams, PrepareTypes
    <3> QED BY <2>1, <3>2 DEF Broadcast, TypeOK
  <2>2. ASSUME NEW s \in Stream, Check(s) PROVE TypeOK'
    <3>1. queue[s] \in Seq(Msg) /\ queue[s] # <<>> /\ Head(queue[s]) \in Msg
      BY <2>2, HeadRange DEF Check, TypeOK
    <3>2. Head(queue[s]) # NoMsg
      BY <3>1, NoMsgAssumption
    <3> QED BY <2>2, <3>1, <3>2 DEF Check, TypeOK
  <2>3. ASSUME NEW s \in Stream, Discard(s) PROVE TypeOK'
    BY <2>3 DEF Discard, TypeOK
  <2>4. ASSUME NEW s \in Stream, MarkSeen(s) PROVE TypeOK'
    <3>1. cur[s] \in Msg /\ s[2] \in Server
      BY <2>4, MeshConstants DEF MarkSeen, TypeOK
    <3> QED BY <2>4, <3>1 DEF MarkSeen, TypeOK, Msg
  <2>5. ASSUME NEW s \in Stream, Handle(s) PROVE TypeOK'
    <3>1. cur[s] \in Msg /\ s[2] \in Server /\ cur[s].id \in MsgId
      BY <2>5, MeshConstants DEF Handle, TypeOK, Msg
    <3>2. queue' \in [Stream -> Seq(Msg)]
      <4>1. CASE ShouldRelay(cur[s])
        <5>1. PICK S \in FanOut(s[2], RelayTargets(cur[s], s[2], s[1])) :
                 queue' = SendControl(S, PrepareRelay(cur[s], s[2]))
          BY <2>5, <4>1 DEF Handle
        <5> QED BY <3>1, <5>1, SendControlType, FanOutStreams, PrepareTypes
      <4>2. CASE ~ShouldRelay(cur[s])
        BY <2>5, <4>2 DEF Handle, TypeOK
      <4> QED BY <4>1, <4>2
    <3>3. handled' \in [Stream -> [MsgId -> Nat]]
      BY <2>5, <3>1 DEF Handle, TypeOK
    <3> QED BY <2>5, <3>1, <3>2, <3>3 DEF Handle, TypeOK
  <2>6. ASSUME NEW n \in Server, NEW id \in MsgId, Cleanup(n, id) PROVE TypeOK'
    BY <2>6 DEF Cleanup, TypeOK
  <2>7. ASSUME NEW s \in Stream, Disconnect(s) PROVE TypeOK'
    BY <2>7 DEF Disconnect, TypeOK
  <2>8. ASSUME NEW s \in Stream, Reconnect(s) PROVE TypeOK'
    BY <2>8 DEF Reconnect, TypeOK, Connection
  <2>9. CASE UNCHANGED vars
    BY <2>9 DEF vars, TypeOK
  <2> QED BY <2>1, <2>2, <2>3, <2>4, <2>5, <2>6, <2>7, <2>8, <2>9 DEF Next
<1> QED BY <1>1, <1>2, PTL DEF Spec

-----------------------------------------------------------------------------
(* Where copies come from                                                  *)

\* A relayed copy on stream s comes from the read loop of a stream t into the
\* sender of s, and goes neither back nor to a server of the path.
RelayedFrom(m, s, t) ==
    /\ pc[t] = "handle"
    /\ ShouldRelay(cur[t])
    /\ s[1] = t[2]
    /\ s[2] # t[1]
    /\ ~IsInPath(cur[t], s[2])
    /\ m = PrepareRelay(cur[t], t[2])

\* Every copy after a step was there before, was started by a broadcast of
\* its sender, or was relayed by a handler at its sender.
CopyStep(s, m) ==
    \/ m \in Copies(s)
    \/ \E o \in Server, id \in MsgId :
          m = PrepareOutgoing(s[1], id, o) /\ Broadcast(s[1], id, o)
    \/ \E t \in Stream : RelayedFrom(m, s, t) /\ Handle(t)

\* Where copies come from: a step leaves a copy where it was, moves it from the
\* queue to its read loop, or makes it by a broadcast or a relay.
LEMMA CopiesStep ==
    ASSUME TypeOK, TypeOK', [Next]_vars, NEW s \in Stream, NEW m \in Copies(s)'
    PROVE  CopyStep(s, m)
<1> USE DEF Copies
<1>0. s[1] \in Server /\ s[2] \in Server /\ queue[s] \in Seq(Msg)
  BY MeshConstants DEF TypeOK
<1>1. ASSUME NEW n \in Server, NEW o \in Server, NEW id \in MsgId, Broadcast(n, id, o)
      PROVE CopyStep(s, m)
  <2>1. PICK S \in FanOut(n, Peers(n)) : queue' = SendControl(S, PrepareOutgoing(n, id, o))
    BY <1>1 DEF Broadcast
  <2>2. S \in SUBSET Stream /\ \A x \in S : x[1] = n
    BY <2>1, FanOutStreams
  <2>3. CASE m \in Range(queue[s]')
    <3>1. m \in Range(SendControl(S, PrepareOutgoing(n, id, o))[s])
      BY <2>1, <2>3
    <3>2. m \in Range(queue[s]) \/ (s \in S /\ m = PrepareOutgoing(n, id, o))
      BY <3>1, <2>2, SendControlRange, PrepareTypes
    <3> QED BY <3>2, <2>2, <1>1 DEF CopyStep
  <2>4. CASE m \notin Range(queue[s]')
    BY <2>4, <1>1 DEF Broadcast, CopyStep
  <2> QED BY <2>3, <2>4
<1>2. ASSUME NEW t \in Stream, Check(t) PROVE CopyStep(s, m)
  <2>1. queue[t] \in Seq(Msg) /\ queue[t] # <<>>
    BY <1>2 DEF Check, TypeOK
  <2>2. \/ m \in Range(queue[s]) 
        \/ m \in Range(Tail(queue[t])) /\ s = t
        \/ m = Head(queue[t]) /\ s = t
        \/ m = cur[s] /\ pc[s] # "recv"
    BY <1>2 DEF Check, TypeOK
  <2> QED BY <2>1, <2>2, TailRange, HeadRange DEF CopyStep
<1>3. ASSUME NEW t \in Stream, Discard(t) PROVE CopyStep(s, m)
  <2>1. queue[t] \in Seq(Msg) /\ queue[t] # <<>>
    BY <1>3 DEF Discard, TypeOK
  <2>2. \/ m \in Range(queue[s])
        \/ m \in Range(Tail(queue[t])) /\ s = t
        \/ m = cur[s] /\ pc[s] # "recv"
    BY <1>3 DEF Discard, TypeOK
  <2> QED BY <2>1, <2>2, TailRange DEF CopyStep
<1>4. ASSUME NEW t \in Stream, MarkSeen(t) PROVE CopyStep(s, m)
  BY <1>4 DEF MarkSeen, TypeOK, CopyStep
<1>5. ASSUME NEW t \in Stream, Handle(t) PROVE CopyStep(s, m)
  <2>1. cur[t] \in Msg /\ t[2] \in Server
    BY <1>5, MeshConstants DEF Handle, TypeOK
  <2>2. CASE m \in Range(queue[s]') /\ ShouldRelay(cur[t])
    <3>1. PICK S \in FanOut(t[2], RelayTargets(cur[t], t[2], t[1])) :
             queue' = SendControl(S, PrepareRelay(cur[t], t[2]))
      BY <1>5, <2>2 DEF Handle
    <3>2. S \in SUBSET Stream
          /\ \A x \in S : x[1] = t[2] /\ x[2] \in RelayTargets(cur[t], t[2], t[1])
      BY <3>1, FanOutStreams
    <3>3. m \in Range(SendControl(S, PrepareRelay(cur[t], t[2]))[s])
      BY <2>2, <3>1
    <3>4. m \in Range(queue[s]) \/ (s \in S /\ m = PrepareRelay(cur[t], t[2]))
      BY <2>1, <3>2, <3>3, SendControlRange, PrepareTypes
    <3>5. CASE s \in S /\ m = PrepareRelay(cur[t], t[2])
      <4>1. RelayedFrom(m, s, t)
        BY <1>5, <2>2, <3>2, <3>5 DEF RelayedFrom, RelayTargets, Handle
      <4> QED BY <4>1, <1>5 DEF CopyStep
    <3> QED BY <3>4, <3>5 DEF CopyStep
  <2>3. CASE ~(m \in Range(queue[s]') /\ ShouldRelay(cur[t]))
    BY <2>3, <1>5 DEF Handle, TypeOK, CopyStep
  <2> QED BY <2>2, <2>3
<1>6. ASSUME NEW n \in Server, NEW id \in MsgId, Cleanup(n, id) PROVE CopyStep(s, m)
  BY <1>6 DEF Cleanup, CopyStep
<1>7. ASSUME NEW t \in Stream, Disconnect(t) PROVE CopyStep(s, m)
  <2>1. CASE s \in Connection(t)
    <3>1. queue'[s] = <<>>
      BY <1>7, <2>1 DEF Disconnect
    <3> QED BY <1>7, <3>1 DEF Disconnect, CopyStep, Range
  <2>2. CASE s \notin Connection(t)
    BY <1>7, <2>2 DEF Disconnect, CopyStep
  <2> QED BY <2>1, <2>2
<1>8. ASSUME NEW t \in Stream, Reconnect(t) PROVE CopyStep(s, m)
  BY <1>8 DEF Reconnect, CopyStep
<1>9. CASE UNCHANGED vars
  BY <1>9 DEF vars, CopyStep
<1> QED BY <1>1, <1>2, <1>3, <1>4, <1>5, <1>6, <1>7, <1>8, <1>9 DEF Next

\* A handled message is a copy in its read loop.
LEMMA HandlerHoldsCopy ==
    ASSUME TypeOK, NEW t \in Stream, pc[t] = "handle"
    PROVE  cur[t] \in Copies(t) /\ cur[t] \in Msg /\ t[1] \in Server /\ t[2] \in Server
BY MeshConstants DEF TypeOK, Copies

-----------------------------------------------------------------------------
(* Loop freedom and the hop budget                                         *)

\* Extending a simple path by a server that is not on it keeps it simple.
LEMMA PathExtend ==
    ASSUME NEW p \in Seq(Server), IsInjective(p), NEW n \in Server, n \notin Range(p)
    PROVE  /\ Append(p, n) \in Seq(Server)
           /\ Append(p, n) # <<>>
           /\ IsInjective(Append(p, n))
           /\ Append(p, n)[Len(Append(p, n))] = n
           /\ Len(Append(p, n)) = Len(p) + 1
           /\ \A x \in Range(Append(p, n)) : x \in Range(p) \/ x = n
<1>1. \A i \in 1..Len(p) : p[i] \in Range(p)
  BY DEF Range
<1>2. IsInjective(Append(p, n))
  BY <1>1 DEF IsInjective
<1>3. ASSUME NEW x \in Range(Append(p, n)) PROVE x \in Range(p) \/ x = n
  <2>1. PICK i \in DOMAIN Append(p, n) : x = Append(p, n)[i]
    BY DEF Range
  <2>2. CASE i = Len(p) + 1
    BY <2>1, <2>2
  <2>3. CASE i # Len(p) + 1
    BY <1>1, <2>1, <2>3
  <2> QED BY <2>2, <2>3
<1> QED BY <1>2, <1>3

\* A copy that can be neither looping nor over its budget.
CopyOK(m, s) ==
    /\ m.path # <<>>
    /\ IsInjective(m.path)
    /\ m.path[Len(m.path)] = s[1]
    /\ ~IsInPath(m, s[2])
    /\ m.ttl >= 1
    /\ m.ttl + Len(m.path) = MaxTTL + 1

CopiesOK == \A s \in Stream : \A m \in Copies(s) : CopyOK(m, s)

\* Each copy in transit has a simple path that ends at its sender, does not
\* hold its receiver, and has spent exactly one unit of TTL per hop.
THEOREM CopiesAlwaysOK == Spec => []CopiesOK
<1>1. Init => CopiesOK
  BY DEF Init, CopiesOK, Copies, Range
<1>2. TypeOK /\ TypeOK' /\ CopiesOK /\ [Next]_vars => CopiesOK'
  <2> SUFFICES ASSUME TypeOK, TypeOK', CopiesOK, [Next]_vars,
                      NEW s \in Stream, NEW m \in Copies(s)'
               PROVE  CopyOK(m, s)
    BY DEF CopiesOK, CopyOK, IsInPath
  <2>0. s[1] \in Server /\ s[2] \in Server /\ s[1] # s[2]
    BY MeshConstants
  <2>1. CASE m \in Copies(s)
    BY <2>1 DEF CopiesOK
  <2>2. ASSUME NEW o \in Server, NEW id \in MsgId, m = PrepareOutgoing(s[1], id, o)
        PROVE  CopyOK(m, s)
    <3>1. m.path = <<s[1]>> /\ m.ttl = MaxTTL
      BY <2>2 DEF PrepareOutgoing
    <3>2. Range(m.path) = {s[1]}
      BY <3>1 DEF Range
    <3> QED BY <2>0, <3>1, <3>2, MeshConstants DEF CopyOK, IsInjective, IsInPath
  <2>3. ASSUME NEW t \in Stream, RelayedFrom(m, s, t) PROVE CopyOK(m, s)
    <3>1. cur[t] \in Copies(t) /\ cur[t] \in Msg /\ t[2] \in Server
      BY <2>3, HandlerHoldsCopy DEF RelayedFrom
    <3>2. CopyOK(cur[t], t)
      BY <3>1 DEF CopiesOK
    <3>3. /\ m.path = Append(cur[t].path, t[2])
          /\ m.ttl = cur[t].ttl - 1
          /\ s[1] = t[2]
          /\ s[2] \notin Range(cur[t].path)
          /\ cur[t].ttl > 1
      BY <2>3 DEF RelayedFrom, PrepareRelay, IsInPath, ShouldRelay
    <3>4. cur[t].path \in Seq(Server) /\ cur[t].ttl \in Int
      BY <3>1 DEF Msg
    <3>5. IsInjective(cur[t].path) /\ t[2] \notin Range(cur[t].path)
      BY <3>2 DEF CopyOK, IsInPath
    <3>6. /\ m.path # <<>>
          /\ IsInjective(m.path)
          /\ m.path[Len(m.path)] = s[1]
          /\ Len(m.path) = Len(cur[t].path) + 1
          /\ \A x \in Range(m.path) : x \in Range(cur[t].path) \/ x = s[1]
      BY <3>1, <3>3, <3>4, <3>5, PathExtend
    <3>7. m.ttl >= 1 /\ m.ttl + Len(m.path) = MaxTTL + 1
      BY <3>2, <3>3, <3>4, <3>6, MeshConstants DEF CopyOK
    <3> QED BY <2>0, <3>3, <3>6, <3>7 DEF CopyOK, IsInPath
  <2> QED BY <2>1, <2>2, <2>3, CopiesStep DEF CopyStep
<1> QED BY <1>1, <1>2, TypeCorrect, PTL DEF Spec

\* No copy is ever on its way to a server it has been at.
THEOREM LoopFreedom == Spec => []LoopFree
<1>1. CopiesOK => LoopFree
  BY DEF CopiesOK, CopyOK, LoopFree
<1> QED BY <1>1, CopiesAlwaysOK, PTL

\* No copy exceeds the hop budget.
THEOREM HopBudgetHolds == Spec => []HopBudget
<1>1. CopiesOK => HopBudget
  BY DEF CopiesOK, CopyOK, HopBudget
<1> QED BY <1>1, CopiesAlwaysOK, PTL

-----------------------------------------------------------------------------
(* Deduplication                                                           *)

\* Relaying keeps the id: a message is under way only if it was before, or
\* has just been started.
LEMMA InFlightStep ==
    ASSUME TypeOK, TypeOK', [Next]_vars, NEW id \in MsgId, InFlight(id)'
    PROVE  InFlight(id) \/ \E n, o \in Server : Broadcast(n, id, o)
<1>5. PICK s \in Stream : \E m \in Copies(s)' : m.id = id
  BY DEF InFlight
<1>1. PICK m \in Copies(s)' : m.id = id
  BY <1>5
<1>0. s[1] \in Server
  BY MeshConstants
<1>2. CASE m \in Copies(s)
  BY <1>1, <1>2 DEF InFlight
<1>3. ASSUME NEW o \in Server, NEW i \in MsgId,
             m = PrepareOutgoing(s[1], i, o), Broadcast(s[1], i, o)
      PROVE  \E n \in Server : Broadcast(n, id, o)
  <2>1. i = id
    BY <1>1, <1>3 DEF PrepareOutgoing
  <2> QED BY <1>0, <1>3, <2>1
<1>4. ASSUME NEW t \in Stream, RelayedFrom(m, s, t) PROVE InFlight(id)
  <2>1. cur[t] \in Copies(t)
    BY <1>4, HandlerHoldsCopy DEF RelayedFrom
  <2>2. cur[t].id = id
    BY <1>1, <1>4 DEF RelayedFrom, PrepareRelay
  <2> QED BY <2>1, <2>2 DEF InFlight
<1> QED BY <1>2, <1>3, <1>4, CopiesStep DEF CopyStep

\* A message that was acted on or is under way has been started.
StartedInv ==
    \A id \in MsgId :
        (InFlight(id) \/ \E s \in Stream : handled[s][id] > 0) => birth[id] # {}

\* The strengthening that makes OncePerReadLoop inductive: what a read loop
\* has acted on stays remembered as long as copies are under way, and what it
\* is working on it has not acted on before.
DedupAt(s, id) ==
    /\ handled[s][id] > 0 /\ InFlight(id) => id \in seen[s[2]]
    /\ pc[s] # "recv" /\ cur[s].id = id => handled[s][id] = 0
    /\ pc[s] = "handle" /\ cur[s].id = id => id \in seen[s[2]]
    /\ handled[s][id] <= 1

DedupInv == \A s \in Stream, id \in MsgId : DedupAt(s, id)

\* Only what was broadcast is under way or has been acted on.
LEMMA StartedInvariant == Spec => []StartedInv
<1>1. Init => StartedInv
  BY DEF Init, StartedInv, InFlight, Copies, Range
<1>2. TypeOK /\ TypeOK' /\ StartedInv /\ [Next]_vars => StartedInv'
  <2> SUFFICES ASSUME TypeOK, TypeOK', StartedInv, [Next]_vars, NEW id \in MsgId,
                      InFlight(id)' \/ \E s \in Stream : handled'[s][id] > 0
               PROVE  birth'[id] # {}
    BY DEF StartedInv
  <2>1. birth[id] # {} => birth'[id] # {}
    BY DEF Next, vars, Broadcast, Check, Discard, MarkSeen, Handle, Cleanup,
           Disconnect, Reconnect, TypeOK
  <2>2. CASE InFlight(id)'
    <3>1. CASE InFlight(id)
      BY <2>1, <3>1 DEF StartedInv
    <3>2. ASSUME NEW n \in Server, NEW o \in Server, Broadcast(n, id, o)
          PROVE  birth'[id] # {}
      BY <3>2 DEF Broadcast, TypeOK
    <3> QED BY <2>2, <3>1, <3>2, InFlightStep
  <2>3. ASSUME NEW s \in Stream, handled'[s][id] > 0 PROVE birth'[id] # {}
    <3>1. CASE handled[s][id] > 0
      BY <2>1, <3>1 DEF StartedInv
    <3>2. CASE ~(handled[s][id] > 0)
      <4>1. PICK t \in Stream : Handle(t)
        BY <2>3, <3>2 DEF Next, vars, Broadcast, Check, Discard, MarkSeen, Cleanup,
                          Disconnect, Reconnect
      <4>2. cur[t].id = id /\ cur[t] \in Copies(t)
        BY <2>3, <3>2, <4>1, HandlerHoldsCopy DEF Handle, TypeOK
      <4> QED BY <2>1, <4>2 DEF StartedInv, InFlight
    <3> QED BY <3>1, <3>2
  <2> QED BY <2>2, <2>3
<1> QED BY <1>1, <1>2, TypeCorrect, PTL DEF Spec

\* While no copy outlives the dedup window, no read loop acts twice on the
\* same message, however the read loops of a server interleave.
THEOREM DedupHolds == Spec => []OncePerReadLoop
<1>1. Init => DedupInv
  BY DEF Init, DedupInv, DedupAt
<1>2. ~LateDelivery /\ TypeOK /\ TypeOK' /\ StartedInv /\ DedupInv /\ [Next]_vars => DedupInv'
  <2> SUFFICES ASSUME ~LateDelivery, TypeOK, TypeOK', StartedInv, DedupInv, [Next]_vars,
                      NEW s \in Stream, NEW id \in MsgId
               PROVE  DedupAt(s, id)'
    BY DEF DedupInv
  <2>0. s[2] \in Server /\ handled[s][id] \in Nat
    BY MeshConstants DEF TypeOK
  <2>a. DedupAt(s, id)
    BY DEF DedupInv
  <2>1. ASSUME NEW n \in Server, NEW o \in Server, NEW i \in MsgId, Broadcast(n, i, o)
        PROVE  DedupAt(s, id)'
    <3>1. seen[s[2]] \subseteq seen'[s[2]] /\ UNCHANGED <<pc, cur, handled>>
      BY <2>0, <2>1 DEF Broadcast, TypeOK
    <3>2. CASE InFlight(id)
      BY <2>a, <3>1, <3>2 DEF DedupAt
    <3>3. CASE ~InFlight(id) /\ InFlight(id)'
      <4>1. birth[id] = {}
        BY <3>3, InFlightStep DEF Broadcast
      <4>2. handled[s][id] = 0
        BY <2>0, <4>1 DEF StartedInv
      <4> QED BY <2>a, <3>1, <4>2 DEF DedupAt
    <3>4. CASE ~InFlight(id) /\ ~InFlight(id)'
      BY <2>a, <3>1, <3>4 DEF DedupAt
    <3> QED BY <3>2, <3>3, <3>4
  <2>2. ASSUME ~\E n, o \in Server, i \in MsgId : Broadcast(n, i, o), InFlight(id)'
        PROVE  InFlight(id)
    BY <2>2, InFlightStep
  <2>3. ASSUME NEW t \in Stream, Check(t), InFlight(id)' => InFlight(id)
        PROVE  DedupAt(s, id)'
    <3>1. UNCHANGED <<seen, handled>>
      BY <2>3 DEF Check
    <3>2. CASE s = t
      <4>1. cur'[s] = Head(queue[s]) /\ pc'[s] = "mark"
        BY <2>3, <3>2 DEF Check, TypeOK
      <4>2. queue[s] \in Seq(Msg) /\ queue[s] # <<>> /\ Head(queue[s]).id \notin seen[s[2]]
        BY <2>3, <3>2 DEF Check, TypeOK
      <4>3. Head(queue[s]) \in Copies(s)
        BY <4>2, HeadRange DEF Copies
      <4>4. cur'[s].id = id => InFlight(id) /\ id \notin seen[s[2]]
        BY <4>1, <4>2, <4>3 DEF InFlight
      <4> QED BY <2>a, <2>0, <2>3, <3>1, <4>1, <4>4 DEF DedupAt
    <3>3. CASE s # t
      <4>1. pc'[s] = pc[s] /\ cur'[s] = cur[s]
        BY <2>3, <3>3 DEF Check, TypeOK
      <4> QED BY <2>a, <2>3, <3>1, <4>1 DEF DedupAt
    <3> QED BY <3>2, <3>3
  <2>4. ASSUME NEW t \in Stream, Discard(t), InFlight(id)' => InFlight(id)
        PROVE  DedupAt(s, id)'
    BY <2>a, <2>4 DEF Discard, DedupAt
  <2>5. ASSUME NEW t \in Stream, MarkSeen(t), InFlight(id)' => InFlight(id)
        PROVE  DedupAt(s, id)'
    <3>1. UNCHANGED <<cur, handled>> /\ seen[s[2]] \subseteq seen'[s[2]]
      BY <2>0, <2>5 DEF MarkSeen, TypeOK
    <3>2. CASE s = t
      <4>1. pc[s] = "mark" /\ cur[s].id \in seen'[s[2]]
        BY <2>0, <2>5, <3>2 DEF MarkSeen, TypeOK
      <4> QED BY <2>a, <2>5, <3>1, <4>1 DEF DedupAt
    <3>3. CASE s # t
      <4>1. pc'[s] = pc[s]
        BY <2>5, <3>3 DEF MarkSeen, TypeOK
      <4> QED BY <2>a, <2>5, <3>1, <4>1 DEF DedupAt
    <3> QED BY <3>2, <3>3
  <2>6. ASSUME NEW t \in Stream, Handle(t), InFlight(id)' => InFlight(id)
        PROVE  DedupAt(s, id)'
    <3>1. UNCHANGED seen
      BY <2>6 DEF Handle
    <3>2. CASE s = t
      <4>1. pc'[s] = "recv" /\ pc[s] = "handle"
        BY <2>6, <3>2 DEF Handle, TypeOK
      <4>2. CASE cur[s].id = id
        <5>1. handled[s][id] = 0 /\ id \in seen[s[2]]
          BY <2>a, <4>1, <4>2 DEF DedupAt
        <5>2. handled'[s][id] = 1
          BY <2>6, <3>2, <4>2, <5>1 DEF Handle, TypeOK
        <5> QED BY <3>1, <4>1, <5>1, <5>2 DEF DedupAt
      <4>3. CASE cur[s].id # id
        <5>1. handled'[s][id] = handled[s][id]
          BY <2>6, <3>2, <4>3 DEF Handle, TypeOK
        <5> QED BY <2>a, <2>6, <3>1, <4>1, <5>1 DEF DedupAt
      <4> QED BY <4>2, <4>3
    <3>3. CASE s # t
      <4>1. pc'[s] = pc[s] /\ cur'[s] = cur[s] /\ handled'[s][id] = handled[s][id]
        BY <2>6, <3>3 DEF Handle, TypeOK
      <4> QED BY <2>a, <2>6, <3>1, <4>1 DEF DedupAt
    <3> QED BY <3>2, <3>3
  <2>7. ASSUME NEW n \in Server, NEW i \in MsgId, Cleanup(n, i), InFlight(id)' => InFlight(id)
        PROVE  DedupAt(s, id)'
    <3>1. UNCHANGED <<pc, cur, handled>>
      BY <2>7 DEF Cleanup
    <3>2. ~InFlight(i)
      BY <2>7 DEF Cleanup
    <3>3. id # i => (id \in seen[s[2]] => id \in seen'[s[2]])
      BY <2>0, <2>7 DEF Cleanup, TypeOK
    <3>4. pc[s] = "handle" => cur[s].id # i
      BY <3>2, HandlerHoldsCopy DEF InFlight
    <3> QED BY <2>a, <2>7, <3>1, <3>2, <3>3, <3>4 DEF DedupAt
  <2>8. ASSUME NEW t \in Stream, Disconnect(t) \/ Reconnect(t), InFlight(id)' => InFlight(id)
        PROVE  DedupAt(s, id)'
    BY <2>a, <2>8 DEF Disconnect, Reconnect, DedupAt
  <2>9. CASE UNCHANGED vars
    <3>1. InFlight(id)' => InFlight(id)
      BY <2>9 DEF vars, InFlight, Copies
    <3> QED BY <2>a, <2>9, <3>1 DEF vars, DedupAt
  <2> QED BY <2>1, <2>2, <2>3, <2>4, <2>5, <2>6, <2>7, <2>8, <2>9 DEF Next
<1>3. DedupInv => OncePerReadLoop
  BY DEF DedupInv, DedupAt, OncePerReadLoop
<1>4. LateDelivery => OncePerReadLoop
  BY DEF OncePerReadLoop
<1>5. CASE ~LateDelivery
  BY <1>1, <1>2, <1>3, <1>5, TypeCorrect, StartedInvariant, PTL DEF Spec
<1>6. CASE LateDelivery
  BY <1>4, <1>6, PTL
<1> QED BY <1>5, <1>6, MeshConstants

-----------------------------------------------------------------------------
(* Refinement of the abstract flood                                        *)

\* Where a copy is, its sender has the message, its origin is the one it was
\* started with, and a read loop past the check is not at that origin.
SourceInv ==
    \A s \in Stream : \A m \in Copies(s) :
        /\ s[1] \in Holders[m.id]
        /\ \A x \in birth[m.id] : x[2] = m.origin
        /\ m = cur[s] => m.origin # s[2]

\* Holders only ever grow, and births never change once made.
LEMMA HoldersGrow ==
    ASSUME TypeOK, TypeOK', [Next]_vars, NEW id \in MsgId
    PROVE  /\ Holders[id] \subseteq Holders'[id]
           /\ birth[id] # {} => birth'[id] = birth[id]
<1>1. birth[id] # {} => birth'[id] = birth[id]
  BY DEF Next, vars, Broadcast, Check, Discard, MarkSeen, Handle, Cleanup,
         Disconnect, Reconnect, TypeOK
<1>2. ASSUME NEW s \in Stream, handled[s][id] > 0 PROVE handled'[s][id] > 0
  <2>1. CASE UNCHANGED handled
    BY <1>2, <2>1
  <2>2. ASSUME NEW t \in Stream, Handle(t) PROVE handled'[s][id] > 0
    <3>1. handled[s] \in [MsgId -> Nat] /\ handled[s][id] \in Nat
      BY DEF TypeOK
    <3>2. handled'[s][id] = handled[s][id] \/ handled'[s][id] = handled[s][id] + 1
      BY <2>2, <3>1 DEF Handle, TypeOK
    <3> QED BY <1>2, <3>1, <3>2
  <2> QED BY <2>1, <2>2 DEF Next, vars, Broadcast, Check, Discard, MarkSeen, Cleanup,
                            Disconnect, Reconnect
<1> QED BY <1>1, <1>2 DEF Holders

\* A copy comes from a server that has the message, carries the origin of its
\* broadcast, and is past the check only where it did not originate.
LEMMA SourceInvariant == Spec => []SourceInv
<1>1. Init => SourceInv
  BY DEF Init, SourceInv, Copies, Range
<1>2. TypeOK /\ TypeOK' /\ StartedInv /\ SourceInv /\ [Next]_vars => SourceInv'
  <2> SUFFICES ASSUME TypeOK, TypeOK', StartedInv, SourceInv, [Next]_vars,
                      NEW s \in Stream, NEW m \in Copies(s)'
               PROVE  /\ s[1] \in Holders'[m.id]
                      /\ \A x \in birth'[m.id] : x[2] = m.origin
                      /\ m = cur'[s] => m.origin # s[2]
    BY DEF SourceInv
  <2>0. s[1] \in Server /\ s[2] \in Server /\ m \in Msg /\ m.id \in MsgId
    <3>1. m \in Msg
      BY DEF Copies, TypeOK, Range
    <3> QED BY <3>1, MeshConstants DEF Msg
  <2>1. /\ s[1] \in Holders'[m.id]
        /\ \A x \in birth'[m.id] : x[2] = m.origin
    <3>1. CASE m \in Copies(s)
      <4>1. birth[m.id] # {}
        BY <2>0, <3>1 DEF StartedInv, InFlight
      <4>2. Holders[m.id] \subseteq Holders'[m.id] /\ birth'[m.id] = birth[m.id]
        BY <2>0, <4>1, HoldersGrow
      <4>3. s[1] \in Holders[m.id] /\ \A x \in birth[m.id] : x[2] = m.origin
        BY <3>1 DEF SourceInv
      <4> QED BY <4>2, <4>3
    <3>2. ASSUME NEW o \in Server, NEW id \in MsgId,
                 m = PrepareOutgoing(s[1], id, o), Broadcast(s[1], id, o)
          PROVE  /\ s[1] \in Holders'[m.id]
                 /\ \A x \in birth'[m.id] : x[2] = m.origin
      <4>1. m.id = id /\ m.origin = o /\ birth'[id] = {<<s[1], o>>}
        BY <3>2 DEF PrepareOutgoing, Broadcast, TypeOK
      <4>2. \A x \in birth'[m.id] : x[1] = s[1] /\ x[2] = m.origin
        BY <4>1
      <4>3. Holders'[m.id] = {x[1] : x \in birth'[m.id]}
                 \cup {u[2] : u \in {t \in Stream : handled'[t][m.id] > 0}}
        BY <2>0 DEF Holders
      <4>4. <<s[1], o>> \in birth'[m.id] /\ <<s[1], o>>[1] = s[1]
        BY <4>1
      <4>5. s[1] \in {x[1] : x \in birth'[m.id]}
        BY <4>4
      <4> QED BY <4>2, <4>3, <4>5
    <3>3. ASSUME NEW t \in Stream, RelayedFrom(m, s, t), Handle(t)
          PROVE  /\ s[1] \in Holders'[m.id]
                 /\ \A x \in birth'[m.id] : x[2] = m.origin
      <4>1. cur[t] \in Copies(t) /\ cur[t] \in Msg
        BY <3>3, HandlerHoldsCopy DEF RelayedFrom
      <4>2. m.id = cur[t].id /\ m.origin = cur[t].origin /\ s[1] = t[2]
        BY <3>3 DEF RelayedFrom, PrepareRelay
      <4>3. \A x \in birth'[m.id] : x[2] = m.origin
        BY <3>3, <4>1, <4>2 DEF SourceInv, Handle
      <4>4. handled'[t][m.id] > 0
        <5>1. handled[t] \in [MsgId -> Nat] /\ handled[t][m.id] \in Nat
          BY <2>0 DEF TypeOK
        <5> QED BY <2>0, <3>3, <4>2, <5>1 DEF Handle, TypeOK
      <4> QED BY <2>0, <4>2, <4>3, <4>4 DEF Holders
    <3> QED BY <3>1, <3>2, <3>3, CopiesStep DEF CopyStep
  <2>2. ASSUME m = cur'[s] PROVE m.origin # s[2]
    <3>1. pc'[s] # "recv"
      BY <2>0, <2>2, NoMsgAssumption DEF TypeOK
    <3>2. CASE cur'[s] = cur[s]
      <4>1. m \in Copies(s)
        BY <2>2, <3>2, <2>0, NoMsgAssumption DEF Copies, TypeOK
      <4> QED BY <2>2, <3>2, <4>1 DEF SourceInv
    <3>3. CASE cur'[s] # cur[s]
      <4>1. Check(s)
        BY <3>1, <3>3 DEF Next, vars, Broadcast, Check, Discard, MarkSeen, Handle, Cleanup,
                          Disconnect, Reconnect, TypeOK
      <4>2. cur'[s] = Head(queue[s]) /\ Acceptable(Head(queue[s]), s[2])
        BY <4>1 DEF Check, TypeOK
      <4> QED BY <2>2, <4>2 DEF Acceptable
    <3> QED BY <3>2, <3>3
  <2> QED BY <2>1, <2>2
<1> QED BY <1>1, <1>2, TypeCorrect, StartedInvariant, PTL DEF Spec

\* The mesh implements the abstract flood: a server acts only on messages
\* that a linked server had before it, and never on one attributed to itself.
THEOREM MeshRefinesFlood == Spec => RefinesFlood
<1>1. Init => Flood!FloodInit
  BY DEF Init, Flood!FloodInit, Holders
<1>2. TypeOK /\ TypeOK' /\ StartedInv /\ SourceInv /\ [Next]_vars
         => [Flood!FloodNext]_(Flood!fvars)
  <2> SUFFICES ASSUME TypeOK, TypeOK', StartedInv, SourceInv, [Next]_vars
               PROVE  Flood!FloodNext \/ UNCHANGED <<birth, Holders>>
    BY DEF Flood!fvars
  <2>1. ASSUME NEW n \in Server, NEW o \in Server, NEW id \in MsgId, Broadcast(n, id, o)
        PROVE  Flood!FloodNext
    <3>1. \A s \in Stream : ~(handled[s][id] > 0)
      BY <2>1 DEF Broadcast, StartedInv
    <3>2. Holders' = [Holders EXCEPT ![id] = {n}]
      <4>1. UNCHANGED handled /\ birth' = [birth EXCEPT ![id] = {<<n, o>>}]
        BY <2>1 DEF Broadcast
      <4>2. Holders'[id] = {n}
        BY <3>1, <4>1 DEF Holders, TypeOK
      <4>3. \A i \in MsgId : i # id => Holders'[i] = Holders[i]
        BY <4>1 DEF Holders, TypeOK
      <4> QED BY <4>2, <4>3 DEF Holders
    <3>3. Flood!Start(n, id, o)
      BY <2>1, <3>2 DEF Flood!Start, Broadcast
    <3> QED BY <3>3 DEF Flood!FloodNext
  <2>2. ASSUME NEW t \in Stream, Handle(t)
        PROVE  Flood!FloodNext \/ UNCHANGED <<birth, Holders>>
    <3> DEFINE id == cur[t].id
    <3>1. /\ cur[t] \in Copies(t) /\ id \in MsgId
          /\ t[1] \in Server /\ t[2] \in Server
      BY <2>2, HandlerHoldsCopy DEF Handle, Msg
    <3>2. UNCHANGED birth
      BY <2>2 DEF Handle
    <3>3. handled'[t][id] > 0
      <4>1. handled[t] \in [MsgId -> Nat] /\ handled[t][id] \in Nat
        BY <3>1 DEF TypeOK
      <4>2. handled'[t][id] = IF handled[t][id] < 2 THEN handled[t][id] + 1 ELSE handled[t][id]
        BY <2>2, <3>1 DEF Handle, TypeOK
      <4> QED BY <4>1, <4>2
    <3>4. \A s \in Stream, i \in MsgId : (s # t \/ i # id) => handled'[s][i] = handled[s][i]
      BY <2>2, <3>1 DEF Handle, TypeOK
    <3>5. Holders' = [Holders EXCEPT ![id] = @ \cup {t[2]}]
      <4>1. Holders'[id] = Holders[id] \cup {t[2]}
        BY <3>1, <3>2, <3>3, <3>4 DEF Holders
      <4>2. \A i \in MsgId : i # id => Holders'[i] = Holders[i]
        BY <3>2, <3>4 DEF Holders
      <4> QED BY <3>1, <4>1, <4>2 DEF Holders
    <3>6. CASE t[2] \in Holders[id]
      <4>1. Holders[id] \cup {t[2]} = Holders[id]
        BY <3>6
      <4>2. Holders = [Holders EXCEPT ![id] = Holders[id]]
        BY <3>1 DEF Holders
      <4> QED BY <3>2, <3>5, <4>1, <4>2
    <3>7. CASE t[2] \notin Holders[id]
      <4>1. t[1] \in Holders[id] /\ \A x \in birth[id] : x[2] # t[2]
        BY <3>1 DEF SourceInv
      <4>2. Flood!Spread(t[1], t[2], id)
        BY <3>1, <3>2, <3>5, <3>7, <4>1 DEF Flood!Spread
      <4> QED BY <3>1, <4>2 DEF Flood!FloodNext
    <3> QED BY <3>6, <3>7
  <2>3. ASSUME UNCHANGED <<birth, handled>> PROVE UNCHANGED <<birth, Holders>>
    BY <2>3 DEF Holders
  <2> QED BY <2>1, <2>2, <2>3 DEF Next, vars, Check, Discard, MarkSeen, Cleanup,
                                  Disconnect, Reconnect
<1> QED BY <1>1, <1>2, TypeCorrect, StartedInvariant, SourceInvariant, PTL
        DEF Spec, RefinesFlood, Flood!FloodSpec
=============================================================================
