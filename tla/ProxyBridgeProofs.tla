------------------------- MODULE ProxyBridgeProofs -------------------------
(***************************************************************************)
(* Proofs about ProxyBridge, for any number of calls, any cap and any      *)
(* number of lost connections.                                             *)
(***************************************************************************)
EXTENDS ProxyBridge, FiniteSetTheorems, TLAPS

(* Facts about queues.                                                     *)

\* The messages of a queue.
Elems(q) == {q[i] : i \in DOMAIN q}

\* What Append leaves in a queue.
LEMMA AppendElems ==
    ASSUME NEW q \in Seq(Msg), NEW m \in Msg
    PROVE  Append(q, m) \in Seq(Msg) /\ Elems(Append(q, m)) \subseteq Elems(q) \cup {m}
<1>1. ASSUME NEW i \in DOMAIN Append(q, m)
      PROVE Append(q, m)[i] \in Elems(q) \cup {m}
  <2>1. CASE i = Len(q) + 1
    BY <2>1
  <2>2. CASE i # Len(q) + 1
    <3>1. i \in DOMAIN q /\ Append(q, m)[i] = q[i]
      BY <2>2
    <3> QED BY <3>1 DEF Elems
  <2> QED BY <2>1, <2>2
<1>2. Append(q, m) \in Seq(Msg)
  OBVIOUS
<1> QED BY <1>1, <1>2 DEF Elems

\* What \o leaves in a queue.
LEMMA ConcatElems ==
    ASSUME NEW q \in Seq(Msg), NEW r \in Seq(Msg)
    PROVE  q \o r \in Seq(Msg) /\ Elems(q \o r) \subseteq Elems(q) \cup Elems(r)
<1>1. ASSUME NEW i \in DOMAIN (q \o r)
      PROVE (q \o r)[i] \in Elems(q) \cup Elems(r)
  <2>1. CASE i <= Len(q)
    <3>1. i \in DOMAIN q /\ (q \o r)[i] = q[i]
      BY <2>1
    <3> QED BY <3>1 DEF Elems
  <2>2. CASE i > Len(q)
    <3>1. i - Len(q) \in DOMAIN r /\ (q \o r)[i] = r[i - Len(q)]
      BY <2>2
    <3> QED BY <3>1 DEF Elems
  <2> QED BY <2>1, <2>2
<1>2. q \o r \in Seq(Msg)
  OBVIOUS
<1> QED BY <1>1, <1>2 DEF Elems

\* What is taken from a queue was in it, and so is what is left.
LEMMA TailElems ==
    ASSUME NEW q \in Seq(Msg), q # <<>>
    PROVE  /\ Tail(q) \in Seq(Msg) /\ Elems(Tail(q)) \subseteq Elems(q)
           /\ Head(q) \in Msg /\ Head(q) \in Elems(q)
<1>1. ASSUME NEW i \in DOMAIN Tail(q) PROVE Tail(q)[i] \in Elems(q)
  <2>1. i + 1 \in DOMAIN q /\ Tail(q)[i] = q[i + 1]
    OBVIOUS
  <2> QED BY <2>1 DEF Elems
<1>2. Tail(q) \in Seq(Msg) /\ Head(q) \in Msg /\ Head(q) \in Elems(q)
  BY DEF Elems
<1> QED BY <1>1, <1>2 DEF Elems

\* The short queues the handlers send.
LEMMA ShortElems ==
    /\ Elems(<<>>) = {}
    /\ \A m : Elems(<<m>>) = {m}
    /\ \A m, n : Elems(<<m, n>>) = {m, n}
BY DEF Elems

\* Messages of the bridge's words are messages.
LEMMA MsgTypes ==
    /\ \A l \in Leg, w \in Word : <<l, w>> \in Msg
    /\ \A k \in Call : <<k, "in">> \in Leg /\ <<k, "out">> \in Leg
    /\ \A l \in Leg : /\ OtherLeg(l) \in Leg /\ OtherLeg(l)[1] = l[1]
                      /\ l[1] \in Call /\ l[2] \in {"in", "out"} /\ l = <<l[1], l[2]>>
    /\ \A k \in Call : Release(k) \in Seq(Msg)
BY DEF Msg, Leg, Word, OtherLeg, Release

-----------------------------------------------------------------------------
(* Type correctness                                                        *)

\* Each call is in the table under both of its keys or under none.
Paired == \A k \in Call : <<k, "in">> \in sessions <=> <<k, "out">> \in sessions

\* Taking a message leaves a queue of messages.
LEMMA TakeTypes ==
    ASSUME TypeOK, NEW l \in Leg, NEW w \in Word, Take(l, w)
    PROVE  /\ recv' \in Seq(Msg) /\ Elems(recv') \subseteq Elems(recv)
           /\ <<l, w>> \in Elems(recv)
           /\ UNCHANGED <<caller, target, send, up, flaps, life>>
BY TailElems DEF Take, TypeOK

\* What a radio sends arrives as a message, if the bridge is connected.
LEMMA ToBridgeTypes ==
    ASSUME TypeOK, NEW k \in Call, NEW side \in {"in", "out"}, NEW w \in Word,
           ToBridge(k, side, w)
    PROVE  /\ recv' \in Seq(Msg)
           /\ Elems(recv') \subseteq Elems(recv) \cup {<<<<k, side>>, w>>}
           /\ UNCHANGED bridge
<1>1. <<<<k, side>>, w>> \in Msg
  BY MsgTypes
<1>2. recv \in Seq(Msg)
  BY DEF TypeOK
<1>3. recv' = recv \/ recv' = Append(recv, <<<<k, side>>, w>>)
  BY DEF ToBridge
<1> QED BY <1>1, <1>2, <1>3, AppendElems DEF ToBridge

\* Sessions come and go by pairs of keys.
LEMMA PairedKept ==
    ASSUME Paired, NEW k \in Call,
           \/ sessions' = sessions \cup {<<k, "in">>, <<k, "out">>}
           \/ sessions' = sessions \ {<<k, "in">>, <<k, "out">>}
    PROVE  Paired'
<1> SUFFICES ASSUME NEW j \in Call PROVE (<<j, "in">> \in sessions' <=> <<j, "out">> \in sessions')
  BY DEF Paired
<1>1. CASE j = k
  BY <1>1
<1>2. CASE j # k
  <2>1. <<j, "in">> \notin {<<k, "in">>, <<k, "out">>} /\ <<j, "out">> \notin {<<k, "in">>, <<k, "out">>}
    BY <1>2
  <2>2. (<<j, "in">> \in sessions' <=> <<j, "in">> \in sessions)
    BY <2>1
  <2>3. (<<j, "out">> \in sessions' <=> <<j, "out">> \in sessions)
    BY <2>1
  <2> QED BY <2>2, <2>3 DEF Paired
<1> QED BY <1>1, <1>2

\* What a goroutine has to say is a queue of messages.
LEMMA SayTypes ==
    ASSUME TypeOK, NEW p \in Proc, NEW q \in Seq(Msg), Say(p, q)
    PROVE  todo' \in [Proc -> Seq(Msg)]
BY DEF Say, TypeOK

\* Both keys of a leg's call.
LEMMA BothKeys ==
    ASSUME NEW l \in Leg
    PROVE  {l, OtherLeg(l)} = {<<l[1], "in">>, <<l[1], "out">>}
BY DEF Leg, OtherLeg

\* Every state is well typed, calls are in the table under both keys or none,
\* and a call in the table has been dialled.
THEOREM ProxyTypeCorrect == Spec => []TypeOK
<1>1. Init => TypeOK
  BY ProxyConstants DEF Init, TypeOK
<1>2. TypeOK /\ [Next]_vars => TypeOK'
  <2> SUFFICES ASSUME TypeOK, [Next]_vars PROVE TypeOK'
    OBVIOUS
  <2> USE DEF CallerActive, TargetActive
  <2>0. Paired
    BY DEF TypeOK, Paired
  <2>1. ASSUME NEW k \in Call, Dial(k) \/ CallerHangsUp(k) PROVE TypeOK'
    <3>1. PICK w \in Word : ToBridge(k, "in", w)
      BY <2>1 DEF Dial, CallerHangsUp, CallerSays, Word
    <3>2. recv' \in Seq(Msg) /\ UNCHANGED bridge
      BY <3>1, ToBridgeTypes
    <3> QED BY <2>1, <3>2 DEF Dial, CallerHangsUp, CallerSays, bridge, TypeOK
  <2>2. ASSUME NEW k \in Call, Answer(k) \/ Refuse(k) \/ TargetHangsUp(k) PROVE TypeOK'
    <3>1. PICK w \in Word : ToBridge(k, "out", w)
      BY <2>2 DEF Answer, Refuse, TargetHangsUp, TargetSays, Word
    <3>2. recv' \in Seq(Msg) /\ UNCHANGED bridge
      BY <3>1, ToBridgeTypes
    <3> QED BY <2>2, <3>2 DEF Answer, Refuse, TargetHangsUp, TargetSays, bridge, TypeOK
  <2>3. ASSUME Deliver PROVE TypeOK'
    <3>1. send # <<>> /\ send' = Tail(send) /\ UNCHANGED <<sessions, state, todo, up, flaps, life>>
      BY <2>3 DEF Deliver
    <3>2. send' \in Seq(Msg) /\ Head(send) \in Msg
      BY <3>1, TailElems DEF TypeOK
    <3>3. Head(send)[1][1] \in Call
      BY <3>2 DEF Msg, Leg
    <3>4. recv' = recv \/ recv' = Append(recv, <<<<Head(send)[1][1], "out">>, "accept">>)
      BY <2>3 DEF Deliver
    <3>5. recv' \in Seq(Msg)
      <4> DEFINE a == <<<<Head(send)[1][1], "out">>, "accept">>
      <4>1. a \in Msg
        BY <3>3, MsgTypes DEF Word
      <4>2. recv \in Seq(Msg) /\ (recv' = recv \/ recv' = Append(recv, a))
        BY <3>4 DEF TypeOK
      <4> HIDE DEF a
      <4> QED BY <4>1, <4>2, AppendElems
    <3>6. caller' \in [Call -> CallerActive \cup {"idle", "over"}]
      BY <2>3, <3>3 DEF Deliver, TypeOK
    <3>7. target' \in [Call -> TargetActive \cup {"idle", "refused", "over"}]
      BY <2>3, <3>3 DEF Deliver, TypeOK
    <3> QED BY <3>1, <3>2, <3>5, <3>6, <3>7 DEF TypeOK
  <2>4. ASSUME NEW k \in Call, HandleInboundSetup(k) PROVE TypeOK'
    <3> DEFINE l == <<k, "in">>
    <3>1. l \in Leg /\ OtherLeg(l) = <<k, "out">>
      BY DEF Leg, OtherLeg
    <3>2. recv' \in Seq(Msg) /\ UNCHANGED <<caller, target, send, up, flaps, life>>
      BY <2>4, <3>1, TakeTypes DEF HandleInboundSetup, Word
    <3>3. todo' \in [Proc -> Seq(Msg)]
      <4>1. /\ <<l, "reject">> \in Msg /\ <<l, "accept">> \in Msg
            /\ <<OtherLeg(l), "setup">> \in Msg
        BY <3>1, MsgTypes DEF Word
      <4>2. /\ << <<l, "reject">> >> \in Seq(Msg)
            /\ << <<l, "accept">>, <<OtherLeg(l), "setup">> >> \in Seq(Msg)
        BY <4>1
      <4>3. \/ todo' = todo
            \/ Say("loop", << <<l, "reject">> >>)
            \/ Say("loop", << <<l, "accept">>, <<OtherLeg(l), "setup">> >>)
        BY <2>4 DEF HandleInboundSetup, Ignore
      <4> QED BY <4>2, <4>3, SayTypes DEF TypeOK, Proc
    <3>4. CASE sessions' = sessions /\ state' = state
      BY <3>2, <3>3, <3>4 DEF TypeOK
    <3>5. CASE /\ sessions' = sessions \cup {<<k, "in">>, <<k, "out">>}
               /\ state' = [state EXCEPT ![k] = "dialing"]
      <4>1. Paired'
        BY <2>0, <3>5, PairedKept
      <4>2. sessions' \subseteq Leg
        BY <3>1, <3>5 DEF TypeOK, Leg
      <4>3. ASSUME NEW j \in Call, <<j, "in">> \in sessions' PROVE state'[j] # "none"
        BY <3>5, <4>3 DEF TypeOK
      <4>4. state' \in [Call -> {"none", "dialing", "connected"}]
        BY <3>5 DEF TypeOK
      <4> QED BY <3>2, <3>3, <4>1, <4>2, <4>3, <4>4 DEF TypeOK, Paired
    <3> QED BY <2>4, <3>1, <3>4, <3>5 DEF HandleInboundSetup, Ignore
  <2>5. ASSUME NEW k \in Call, HandleOutboundAccept(k) PROVE TypeOK'
    <3>1. recv' \in Seq(Msg) /\ UNCHANGED <<caller, target, send, up, flaps, life>>
      BY <2>5, TakeTypes, MsgTypes DEF HandleOutboundAccept, Word
    <3> QED BY <2>5, <3>1 DEF HandleOutboundAccept, Ignore, TypeOK
  <2>6. ASSUME NEW k \in Call, HandleOutboundConnect(k) PROVE TypeOK'
    <3>1. recv' \in Seq(Msg) /\ UNCHANGED <<caller, target, send, up, flaps, life>>
      BY <2>6, TakeTypes, MsgTypes DEF HandleOutboundConnect, Word
    <3>2. <<<<k, "in">>, "connect">> \in Msg /\ <<<<k, "out">>, "confirm">> \in Msg
      BY MsgTypes DEF Word
    <3>3. todo' \in [Proc -> Seq(Msg)]
      <4>1. << <<<<k, "in">>, "connect">>, <<<<k, "out">>, "confirm">> >> \in Seq(Msg)
        BY <3>2
      <4>2. \/ todo' = todo
            \/ Say("loop", << <<<<k, "in">>, "connect">>, <<<<k, "out">>, "confirm">> >>)
        BY <2>6 DEF HandleOutboundConnect, AnswerWords, Ignore
      <4> QED BY <4>1, <4>2, SayTypes DEF TypeOK, Proc
    <3>4. /\ sessions' = sessions
          /\ state' = state \/ state' = [state EXCEPT ![k] = "connected"]
      BY <2>6 DEF HandleOutboundConnect, Ignore
    <3> QED BY <3>1, <3>3, <3>4 DEF TypeOK
  <2>7. ASSUME NEW k \in Call, NEW side \in {"in", "out"}, NEW w \in {"reject", "release"},
               HandleLegFailure(<<k, side>>, w)
        PROVE TypeOK'
    <3> DEFINE l == <<k, side>>
    <3>1. l \in Leg /\ OtherLeg(l) \in Leg /\ w \in Word
      BY DEF Leg, OtherLeg, Word
    <3>2. recv' \in Seq(Msg) /\ UNCHANGED <<caller, target, send, up, flaps, life>>
      BY <2>7, <3>1, TakeTypes DEF HandleLegFailure
    <3>3. todo' \in [Proc -> Seq(Msg)]
      <4>1. <<OtherLeg(l), "release">> \in Msg
        BY <3>1, MsgTypes DEF Word
      <4>2. << <<OtherLeg(l), "release">> >> \in Seq(Msg)
        BY <4>1
      <4>3. todo' = todo \/ Say("loop", << <<OtherLeg(l), "release">> >>)
        BY <2>7 DEF HandleLegFailure, Ignore
      <4> QED BY <4>2, <4>3, SayTypes DEF TypeOK, Proc
    <3>4. state' = state /\ (sessions' = sessions \/ sessions' = sessions \ {<<k, "in">>, <<k, "out">>})
      BY <2>7, <3>1, BothKeys DEF HandleLegFailure, Ignore
    <3>5. Paired'
      BY <2>0, <3>4, PairedKept DEF Paired
    <3> QED BY <3>2, <3>3, <3>4, <3>5 DEF TypeOK, Paired
  <2>8. ASSUME NEW k \in Call, SweepOne(k) PROVE TypeOK'
    <3>1. todo' \in [Proc -> Seq(Msg)]
      <4>1. todo["watchdog"] \o Release(k) \in Seq(Msg)
        BY MsgTypes, ConcatElems DEF TypeOK, Proc
      <4> QED BY <2>8, <4>1 DEF SweepOne, Say, TypeOK
    <3>2. Paired'
      BY <2>0, <2>8, PairedKept DEF SweepOne
    <3> QED BY <2>8, <3>1, <3>2 DEF SweepOne, TypeOK, Paired
  <2>9. ASSUME NEW p \in Proc, Enqueue(p) PROVE TypeOK'
    <3>1. todo[p] \in Seq(Msg) /\ todo[p] # <<>>
      BY <2>9 DEF Enqueue, TypeOK
    <3>2. Tail(todo[p]) \in Seq(Msg) /\ Head(todo[p]) \in Msg
      BY <3>1, TailElems
    <3> QED BY <2>9, <3>2 DEF Enqueue, TypeOK
  <2>10. ASSUME Cancel PROVE TypeOK'
    BY <2>10 DEF Cancel, TypeOK
  <2>11. ASSUME Stop PROVE TypeOK'
    <3>1. CASE UNCHANGED <<sessions, todo>>
      BY <2>11, <3>1 DEF Stop, TypeOK
    <3>2. ASSUME NEW k \in Call,
                 sessions' = sessions \ {<<k, "in">>, <<k, "out">>},
                 Say("stop", todo["stop"] \o Release(k))
          PROVE TypeOK'
      <4>1. todo["stop"] \o Release(k) \in Seq(Msg)
        BY MsgTypes, ConcatElems DEF TypeOK, Proc
      <4>2. todo' \in [Proc -> Seq(Msg)]
        BY <3>2, <4>1 DEF Say, TypeOK
      <4>3. Paired'
        BY <2>0, <3>2, PairedKept
      <4> QED BY <2>11, <3>2, <4>2, <4>3 DEF Stop, TypeOK, Paired
    <3> QED BY <2>11, <3>1, <3>2 DEF Stop
  <2>12. ASSUME Flap PROVE TypeOK'
    <3>1. send' \in Seq(Msg)
      BY <2>12, TailElems DEF Flap, TypeOK
    <3>2. target' \in [Call -> TargetActive \cup {"idle", "refused", "over"}]
      BY <2>12 DEF Flap, OnDisconnect, TypeOK
    <3>3. flaps' \in 0..MaxFlaps
      BY <2>12, ProxyConstants DEF Flap, TypeOK
    <3>4. up' = FALSE /\ recv' = <<>> /\ UNCHANGED <<caller, sessions, state, todo, life>>
      BY <2>12 DEF Flap
    <3>5. up' \in BOOLEAN
      BY <3>4, Zenon
    <3>6. recv' \in Seq(Msg)
      BY <3>4
    <3> QED BY <3>1, <3>2, <3>3, <3>4, <3>5, <3>6 DEF TypeOK
  <2>13. ASSUME Reconnect PROVE TypeOK'
    BY <2>13 DEF Reconnect, TypeOK
  <2>14. CASE UNCHANGED vars
    BY <2>14 DEF vars, TypeOK
  <2>15. ASSUME Handle PROVE TypeOK'
    BY <2>4, <2>5, <2>6, <2>7, <2>15 DEF Handle
  <2>16. ASSUME NEW k \in Call, DialTimeout(k) \/ IdleTimeout(k) PROVE TypeOK'
    BY <2>8, <2>16 DEF DialTimeout, IdleTimeout
  <2> QED BY <2>1, <2>2, <2>3, <2>9, <2>10, <2>11, <2>12, <2>13, <2>14, <2>15, <2>16 DEF Next
<1> QED BY <1>1, <1>2, PTL DEF Spec

-----------------------------------------------------------------------------
(* The caller is connected only after the target picked up                 *)

Picked(k) == target[k] \in {"answered", "talking", "over"}

\* No word of an answer is under way, on either leg, before there is one.
NoEarlyWord ==
    \A k \in Call :
        /\ <<<<k, "out">>, "connect">> \in Elems(recv) => Picked(k)
        /\ <<<<k, "in">>, "connect">> \in Elems(send) => Picked(k)
        /\ \A p \in Proc : <<<<k, "in">>, "connect">> \in Elems(todo[p]) => Picked(k)

\* A target that has picked up never goes back.
LEMMA PickedStays ==
    ASSUME TypeOK, [Next]_vars, NEW k \in Call, Picked(k)
    PROVE  Picked(k)'
<1> USE DEF Picked, TargetActive
<1>1. ASSUME NEW j \in Call, Answer(j) \/ Refuse(j) \/ TargetHangsUp(j) PROVE Picked(k)'
  BY <1>1 DEF Answer, Refuse, TargetHangsUp, TargetSays, TypeOK
<1>2. ASSUME Deliver PROVE Picked(k)'
  BY <1>2 DEF Deliver, TypeOK
<1>3. ASSUME Flap PROVE Picked(k)'
  BY <1>3 DEF Flap, OnDisconnect
<1>4. ASSUME \/ \E j \in Call : Dial(j) \/ CallerHangsUp(j)
             \/ Handle
             \/ \E j \in Call : DialTimeout(j) \/ IdleTimeout(j)
             \/ \E p \in Proc : Enqueue(p)
             \/ Cancel \/ Stop \/ Reconnect \/ UNCHANGED vars
      PROVE target' = target
  <2>1. ASSUME Handle PROVE target' = target
    BY <2>1 DEF Handle, HandleInboundSetup, HandleOutboundAccept, HandleOutboundConnect,
                HandleLegFailure, Take
  <2> QED BY <1>4, <2>1 DEF Dial, CallerHangsUp, CallerSays, DialTimeout, IdleTimeout,
                SweepOne, Enqueue, Cancel, Stop, Reconnect, vars
<1> QED BY <1>1, <1>2, <1>3, <1>4 DEF Next

\* The queues after a step hold what they held, what the other queue handed on,
\* or a new word; an answer's word is new only when there is an answer.
LEMMA NoEarlyWordStep ==
    ASSUME TypeOK, TypeOK', NoEarlyWord, [Next]_vars
    PROVE  NoEarlyWord'
<1> SUFFICES ASSUME NEW k \in Call
             PROVE /\ <<<<k, "out">>, "connect">> \in Elems(recv') => Picked(k)'
                   /\ <<<<k, "in">>, "connect">> \in Elems(send') => Picked(k)'
                   /\ \A p \in Proc : <<<<k, "in">>, "connect">> \in Elems(todo'[p]) => Picked(k)'
  BY DEF NoEarlyWord
<1> DEFINE o == <<<<k, "out">>, "connect">>
           i == <<<<k, "in">>, "connect">>
           Goal == /\ o \in Elems(recv') => Picked(k)'
                   /\ i \in Elems(send') => Picked(k)'
                   /\ \A p \in Proc : i \in Elems(todo'[p]) => Picked(k)'
<1>0. /\ Picked(k) => Picked(k)'
      /\ o \in Elems(recv) => Picked(k)
      /\ i \in Elems(send) => Picked(k)
      /\ \A p \in Proc : i \in Elems(todo[p]) => Picked(k)
  BY PickedStays DEF NoEarlyWord
<1>1. ASSUME NEW j \in Call, Dial(j) \/ CallerHangsUp(j) PROVE Goal
  <2>1. PICK w \in {"setup", "release"} : ToBridge(j, "in", w)
    BY <1>1 DEF Dial, CallerHangsUp, CallerSays
  <2>2. Elems(recv') \subseteq Elems(recv) \cup {<<<<j, "in">>, w>>} /\ UNCHANGED bridge
    BY <2>1, ToBridgeTypes DEF Word
  <2>3. o # <<<<j, "in">>, w>>
    OBVIOUS
  <2> QED BY <1>0, <2>2, <2>3 DEF bridge
<1>2. ASSUME NEW j \in Call, Answer(j) PROVE Goal
  <2>1. ToBridge(j, "out", "connect") /\ target' = [target EXCEPT ![j] = "answered"]
    BY <1>2 DEF Answer, TargetSays
  <2>2. Elems(recv') \subseteq Elems(recv) \cup {<<<<j, "out">>, "connect">>} /\ UNCHANGED bridge
    BY <2>1, ToBridgeTypes DEF Word
  <2>3. j = k => Picked(k)'
    BY <2>1 DEF Picked, TypeOK
  <2>4. j # k => o # <<<<j, "out">>, "connect">>
    OBVIOUS
  <2> QED BY <1>0, <2>2, <2>3, <2>4 DEF bridge
<1>3. ASSUME NEW j \in Call, Refuse(j) \/ TargetHangsUp(j) PROVE Goal
  <2>1. PICK w \in {"reject", "release"} : ToBridge(j, "out", w)
    BY <1>3 DEF Refuse, TargetHangsUp, TargetSays
  <2>2. Elems(recv') \subseteq Elems(recv) \cup {<<<<j, "out">>, w>>} /\ UNCHANGED bridge
    BY <2>1, ToBridgeTypes DEF Word
  <2>3. o # <<<<j, "out">>, w>>
    OBVIOUS
  <2> QED BY <1>0, <2>2, <2>3 DEF bridge
<1>4. ASSUME Deliver PROVE Goal
  <2> DEFINE a == <<<<Head(send)[1][1], "out">>, "accept">>
  <2>1. send # <<>> /\ send' = Tail(send) /\ todo' = todo
    BY <1>4 DEF Deliver
  <2>2. Elems(send') \subseteq Elems(send) /\ Head(send) \in Msg
    BY <2>1, TailElems DEF TypeOK
  <2>3. recv' = recv \/ recv' = Append(recv, a)
    BY <1>4 DEF Deliver
  <2>4. a \in Msg /\ recv \in Seq(Msg) /\ o # a
    BY <2>2 DEF TypeOK, Msg, Leg, Word
  <2>5. Elems(recv') \subseteq Elems(recv) \cup {a}
    <3> HIDE DEF a
    <3> QED BY <2>3, <2>4, AppendElems
  <2> QED BY <1>0, <2>1, <2>2, <2>4, <2>5
<1>5. ASSUME NEW j \in Call, NEW l \in Leg, NEW w \in Word, Take(l, w),
             todo' = todo \/ \E q \in Seq(Msg) : Say("loop", q) /\ (i \in Elems(q) => Picked(k))
      PROVE Goal
  <2>1. Elems(recv') \subseteq Elems(recv) /\ send' = send
    BY <1>5, TakeTypes
  <2>2. ASSUME NEW p \in Proc, i \in Elems(todo'[p]) PROVE Picked(k)
    BY <1>0, <1>5, <2>2 DEF Say, TypeOK
  <2> QED BY <1>0, <2>1, <2>2
<1>6. ASSUME NEW j \in Call, HandleInboundSetup(j) PROVE Goal
  <2> DEFINE q1 == << <<<<j, "in">>, "reject">> >>
             q2 == << <<<<j, "in">>, "accept">>, <<OtherLeg(<<j, "in">>), "setup">> >>
  <2>1. Take(<<j, "in">>, "setup") /\ (todo' = todo \/ Say("loop", q1) \/ Say("loop", q2))
    BY <1>6 DEF HandleInboundSetup, Ignore
  <2>2. q1 \in Seq(Msg) /\ q2 \in Seq(Msg)
    BY DEF Msg, Leg, Word, OtherLeg
  <2>3. i \notin Elems(q1) /\ i \notin Elems(q2)
    BY ShortElems
  <2>4. <<j, "in">> \in Leg /\ "setup" \in Word
    BY DEF Leg, Word
  <2> HIDE DEF q1, q2, Goal, i
  <2> QED BY <1>5, <2>1, <2>2, <2>3, <2>4
<1>7. ASSUME NEW j \in Call, HandleOutboundAccept(j) PROVE Goal
  <2>1. Take(<<j, "out">>, "accept") /\ todo' = todo /\ <<j, "out">> \in Leg /\ "accept" \in Word
    BY <1>7 DEF HandleOutboundAccept, Ignore, Leg, Word
  <2> HIDE DEF Goal, i
  <2> QED BY <1>5, <2>1
<1>8. ASSUME NEW j \in Call, HandleOutboundConnect(j) PROVE Goal
  <2> DEFINE q == << <<<<j, "in">>, "connect">>, <<<<j, "out">>, "confirm">> >>
  <2>1. Take(<<j, "out">>, "connect") /\ (todo' = todo \/ Say("loop", q))
    BY <1>8 DEF HandleOutboundConnect, AnswerWords, Ignore
  <2>2. q \in Seq(Msg) /\ <<j, "out">> \in Leg /\ "connect" \in Word
    BY DEF Msg, Leg, Word
  <2>3. <<<<j, "out">>, "connect">> \in Elems(recv)
    BY <2>1, <2>2, TakeTypes
  <2>4. i \in Elems(q) => j = k
    BY ShortElems
  <2>5. i \in Elems(q) => Picked(k)
    BY <1>0, <2>3, <2>4
  <2> HIDE DEF q, Goal, i
  <2> QED BY <1>5, <2>1, <2>2, <2>5
<1>9. ASSUME NEW j \in Call, NEW side \in {"in", "out"}, NEW w \in {"reject", "release"},
             HandleLegFailure(<<j, side>>, w)
      PROVE Goal
  <2> DEFINE q == << <<OtherLeg(<<j, side>>), "release">> >>
  <2>1. Take(<<j, side>>, w) /\ (todo' = todo \/ Say("loop", q))
    BY <1>9 DEF HandleLegFailure, Ignore
  <2>2. q \in Seq(Msg) /\ <<j, side>> \in Leg /\ w \in Word
    BY DEF Msg, Leg, Word, OtherLeg
  <2>3. i \notin Elems(q)
    BY ShortElems
  <2> HIDE DEF q, Goal, i
  <2> QED BY <1>5, <2>1, <2>2, <2>3
<1>10. ASSUME NEW j \in Call, NEW x \in Proc, Say(x, todo[x] \o Release(j)),
              recv' = recv, send' = send
       PROVE Goal
  <2>1. todo[x] \in Seq(Msg) /\ Release(j) \in Seq(Msg)
    BY MsgTypes DEF TypeOK
  <2>2. i \notin Elems(Release(j))
    BY ShortElems DEF Release
  <2>3. i \in Elems(todo[x] \o Release(j)) => i \in Elems(todo[x])
    BY <2>1, <2>2, ConcatElems
  <2>4. ASSUME NEW p \in Proc, i \in Elems(todo'[p]) PROVE Picked(k)
    <3> HIDE DEF i
    <3> QED BY <1>0, <1>10, <2>3, <2>4 DEF Say, TypeOK
  <2> QED BY <1>0, <1>10, <2>4
<1>11. ASSUME NEW x \in Proc, Enqueue(x) PROVE Goal
  <2>1. todo[x] \in Seq(Msg) /\ todo[x] # <<>> /\ send \in Seq(Msg)
    BY <1>11 DEF Enqueue, TypeOK
  <2>2. /\ Head(todo[x]) \in Msg /\ Head(todo[x]) \in Elems(todo[x])
        /\ Elems(Tail(todo[x])) \subseteq Elems(todo[x])
    BY <2>1, TailElems
  <2>3. Elems(send') \subseteq Elems(send) \cup {Head(todo[x])}
    BY <1>11, <2>1, <2>2, AppendElems DEF Enqueue
  <2>4. \A p \in Proc : Elems(todo'[p]) \subseteq Elems(todo[p])
    BY <1>11, <2>2 DEF Enqueue, TypeOK
  <2>5. recv' = recv
    BY <1>11 DEF Enqueue
  <2> HIDE DEF i
  <2> QED BY <1>0, <2>2, <2>3, <2>4, <2>5
<1>12. ASSUME Flap PROVE Goal
  <2>1. recv' = <<>> /\ todo' = todo /\ (send' = send \/ (send # <<>> /\ send' = Tail(send)))
    BY <1>12 DEF Flap
  <2>2. Elems(send') \subseteq Elems(send) /\ Elems(recv') = {}
    BY <2>1, TailElems, ShortElems DEF TypeOK
  <2> QED BY <1>0, <2>1, <2>2
<1>13. ASSUME UNCHANGED <<recv, send, todo>> PROVE Goal
  BY <1>0, <1>13
<1>14. ASSUME NEW j \in Call, DialTimeout(j) \/ IdleTimeout(j) PROVE Goal
  <2>1. /\ Say("watchdog", todo["watchdog"] \o Release(j))
        /\ recv' = recv /\ send' = send /\ "watchdog" \in Proc
    BY <1>14 DEF DialTimeout, IdleTimeout, SweepOne, Proc
  <2> HIDE DEF Goal
  <2> QED BY <1>10, <2>1
<1>15. ASSUME Stop PROVE Goal
  <2>1. recv' = recv /\ send' = send /\ "stop" \in Proc
    BY <1>15 DEF Stop, Proc
  <2>2. todo' = todo \/ \E j \in Call : Say("stop", todo["stop"] \o Release(j))
    BY <1>15 DEF Stop
  <2> HIDE DEF Goal
  <2> QED BY <1>10, <1>13, <2>1, <2>2
<1>16. ASSUME Cancel \/ Reconnect \/ UNCHANGED vars PROVE Goal
  <2>1. UNCHANGED <<recv, send, todo>>
    BY <1>16 DEF Cancel, Reconnect, vars
  <2> HIDE DEF Goal
  <2> QED BY <1>13, <2>1
<1>17. ASSUME Handle PROVE Goal
  <2> HIDE DEF Goal
  <2> QED BY <1>6, <1>7, <1>8, <1>9, <1>17 DEF Handle
<1>18. Goal
  <2> HIDE DEF Goal
  <2> QED BY <1>1, <1>2, <1>3, <1>4, <1>11, <1>12, <1>14, <1>15, <1>16, <1>17 DEF Next
<1> QED BY <1>18

\* The caller is told of an answer only when the target has picked up, however
\* acknowledgements, time-outs, hang-ups and lost connections interleave
\* (handleOutboundAccept, handleOutboundConnect).
THEOREM ConnectAfterAnswer == Spec => []NoEarlyConnect
<1>1. Init => NoEarlyWord /\ NoEarlyConnect
  BY ShortElems DEF Init, NoEarlyWord, NoEarlyConnect
<1>2. TypeOK /\ TypeOK' /\ NoEarlyWord /\ [Next]_vars => NoEarlyWord'
  BY NoEarlyWordStep
<1>3. TypeOK /\ NoEarlyWord /\ NoEarlyConnect /\ [Next]_vars => NoEarlyConnect'
  <2> SUFFICES ASSUME TypeOK, NoEarlyWord, NoEarlyConnect, [Next]_vars,
                      NEW k \in Call, caller'[k] = "talking"
               PROVE  Picked(k)'
    BY DEF NoEarlyConnect, Picked
  <2>1. caller[k] = "talking" => Picked(k)'
    BY PickedStays DEF NoEarlyConnect, Picked
  <2>2. ASSUME caller[k] # "talking" PROVE Deliver
    <3>1. ASSUME Handle PROVE caller' = caller
      BY <3>1 DEF Handle, HandleInboundSetup, HandleOutboundAccept, HandleOutboundConnect,
                  HandleLegFailure, Take
    <3>2. ASSUME NEW j \in Call, Dial(j) \/ CallerHangsUp(j) PROVE FALSE
      BY <2>2, <3>2 DEF Dial, CallerHangsUp, CallerSays, TypeOK
    <3>3. ASSUME NEW j \in Call,
                 \/ Answer(j) \/ Refuse(j) \/ TargetHangsUp(j)
                 \/ DialTimeout(j) \/ IdleTimeout(j)
          PROVE caller' = caller
      BY <3>3 DEF Answer, Refuse, TargetHangsUp, TargetSays, DialTimeout, IdleTimeout, SweepOne
    <3>4. ASSUME (\E p \in Proc : Enqueue(p)) \/ Cancel \/ Stop \/ Flap \/ Reconnect \/ UNCHANGED vars
          PROVE caller' = caller
      BY <3>4 DEF Enqueue, Cancel, Stop, Flap, Reconnect, vars
    <3> QED BY <2>2, <3>1, <3>2, <3>3, <3>4 DEF Next
  <2>3. ASSUME caller[k] # "talking", Deliver PROVE Picked(k)
    <3> DEFINE h == Head(send)
    <3>1. send \in Seq(Msg) /\ send # <<>>
      BY <2>3 DEF Deliver, TypeOK
    <3>2. h \in Msg /\ h \in Elems(send)
      BY <3>1, TailElems
    <3>3. h[1][1] = k /\ h[1][2] # "out" /\ h[2] = "connect"
      BY <2>3 DEF Deliver, TypeOK, CallerActive
    <3>4. h = <<<<k, "in">>, "connect">>
      BY <3>2, <3>3 DEF Msg, Leg
    <3> QED BY <3>2, <3>4 DEF NoEarlyWord
  <2> QED BY <2>1, <2>2, <2>3, PickedStays
<1> QED BY <1>1, <1>2, <1>3, ProxyTypeCorrect, PTL DEF Spec

-----------------------------------------------------------------------------
(* The cap                                                                 *)

\* uniqueSessionCountLocked counts half of the keys of the map.
LEMMA KeysAreTwiceCalls ==
    ASSUME TypeOK
    PROVE  /\ IsFiniteSet(sessions)
           /\ SessionCount \in Nat
           /\ Cardinality(sessions) = 2 * SessionCount
<1> DEFINE K == {k \in Call : \E side \in {"in", "out"} : <<k, side>> \in sessions}
<1>1. IsFiniteSet(K)
  BY ProxyConstants, FS_Subset
<1>2. IsFiniteSet({"in", "out"}) /\ Cardinality({"in", "out"}) = 2
  <2>1. IsFiniteSet({"in"}) /\ Cardinality({"in"}) = 1
    BY FS_Singleton
  <2>2. {"in", "out"} = {"in"} \cup {"out"} /\ "out" \notin {"in"}
    OBVIOUS
  <2> QED BY <2>1, <2>2, FS_AddElement
<1>3. sessions = K \X {"in", "out"}
  <2>1. ASSUME NEW l \in sessions PROVE l \in K \X {"in", "out"}
    BY DEF TypeOK, Leg
  <2>2. ASSUME NEW l \in K \X {"in", "out"} PROVE l \in sessions
    <3>1. l = <<l[1], l[2]>> /\ l[1] \in K /\ l[2] \in {"in", "out"}
      BY <2>2
    <3>2. <<l[1], "in">> \in sessions /\ <<l[1], "out">> \in sessions
      BY <3>1 DEF TypeOK
    <3> QED BY <3>1, <3>2
  <2> QED BY <2>1, <2>2
<1>4. IsFiniteSet(K \X {"in", "out"}) /\ Cardinality(K \X {"in", "out"}) = Cardinality(K) * 2
  BY <1>1, <1>2, FS_Product
<1>5. Cardinality(K) \in Nat
  BY <1>1, FS_CardinalityType
<1>6. SessionCount = Cardinality(K)
  BY DEF SessionCount
<1> HIDE DEF K
<1> QED BY <1>3, <1>4, <1>5, <1>6

\* One more key makes a table larger by one at most.
LEMMA OneMoreKey ==
    ASSUME NEW S, IsFiniteSet(S), NEW x
    PROVE  IsFiniteSet(S \cup {x}) /\ Cardinality(S \cup {x}) <= Cardinality(S) + 1
<1>1. Cardinality(S) \in Nat
  BY FS_CardinalityType
<1>2. IsFiniteSet(S \cup {x})
  BY FS_AddElement
<1>3. Cardinality(S \cup {x}) = IF x \in S THEN Cardinality(S) ELSE Cardinality(S) + 1
  BY FS_AddElement
<1>4. CASE x \in S
  <2>1. Cardinality(S \cup {x}) = Cardinality(S)
    BY <1>3, <1>4
  <2> QED BY <1>1, <1>2, <2>1
<1>5. CASE x \notin S
  <2>1. Cardinality(S \cup {x}) = Cardinality(S) + 1
    BY <1>3, <1>5
  <2> QED BY <1>1, <1>2, <2>1
<1> QED BY <1>4, <1>5

\* A table without some keys is no larger, one with the keys of one more call
\* has at most two more.
LEMMA TableGrowth ==
    ASSUME NEW S, IsFiniteSet(S), NEW x, NEW y
    PROVE  /\ Cardinality(S) \in Nat
           /\ Cardinality(S \ {x, y}) \in Nat
           /\ Cardinality(S \ {x, y}) <= Cardinality(S)
           /\ Cardinality(S \cup {x, y}) \in Nat
           /\ Cardinality(S \cup {x, y}) <= Cardinality(S) + 2
<1>1. IsFiniteSet(S \ {x, y}) /\ Cardinality(S \ {x, y}) <= Cardinality(S)
  BY FS_Subset
<1>2. IsFiniteSet(S \cup {x}) /\ Cardinality(S \cup {x}) <= Cardinality(S) + 1
  BY OneMoreKey
<1>3. S \cup {x, y} = (S \cup {x}) \cup {y}
  OBVIOUS
<1>4. /\ IsFiniteSet(S \cup {x, y})
      /\ Cardinality(S \cup {x, y}) <= Cardinality(S \cup {x}) + 1
  <2>1. /\ IsFiniteSet((S \cup {x}) \cup {y})
        /\ Cardinality((S \cup {x}) \cup {y}) <= Cardinality(S \cup {x}) + 1
    BY <1>2, OneMoreKey
  <2> QED BY <1>3, <2>1
<1>5. /\ Cardinality(S) \in Nat /\ Cardinality(S \ {x, y}) \in Nat
      /\ Cardinality(S \cup {x}) \in Nat /\ Cardinality(S \cup {x, y}) \in Nat
  BY <1>1, <1>2, <1>4, FS_CardinalityType
<1> QED BY <1>1, <1>2, <1>4, <1>5

\* At most MaxConcurrent calls are bridged at any time: the count the setup is
\* checked against is exact because every call is indexed twice or not at all.
THEOREM CapAlwaysHolds == Spec => []CapHolds
<1>1. Init => CapHolds
  BY ProxyConstants, FS_EmptySet DEF Init, CapHolds
<1>2. TypeOK /\ CapHolds /\ [Next]_vars => CapHolds'
  <2> SUFFICES ASSUME TypeOK, CapHolds, [Next]_vars PROVE CapHolds'
    OBVIOUS
  <2>0. /\ IsFiniteSet(sessions) /\ SessionCount \in Nat
        /\ Cardinality(sessions) = 2 * SessionCount
        /\ MaxConcurrent \in Nat /\ Cardinality(sessions) <= 2 * MaxConcurrent
    BY KeysAreTwiceCalls, ProxyConstants DEF CapHolds
  <2>1. ASSUME NEW k \in Call, SessionCount < MaxConcurrent,
               sessions' = sessions \cup {<<k, "in">>, <<k, "out">>}
        PROVE CapHolds'
    <3>1. /\ Cardinality(sessions') \in Nat
          /\ Cardinality(sessions') <= Cardinality(sessions) + 2
      BY <2>0, <2>1, TableGrowth
    <3> QED BY <2>0, <2>1, <3>1 DEF CapHolds
  <2>2. ASSUME NEW k \in Call, sessions' = sessions \ {<<k, "in">>, <<k, "out">>}
        PROVE CapHolds'
    <3>1. /\ Cardinality(sessions') \in Nat
          /\ Cardinality(sessions') <= Cardinality(sessions)
      BY <2>0, <2>2, TableGrowth
    <3> QED BY <2>0, <3>1 DEF CapHolds
  <2>3. ASSUME sessions' = sessions PROVE CapHolds'
    BY <2>3 DEF CapHolds
  <2>4. ASSUME NEW k \in Call, HandleInboundSetup(k) PROVE CapHolds'
    <3>1. OtherLeg(<<k, "in">>) = <<k, "out">>
      BY DEF OtherLeg
    <3>2. \/ sessions' = sessions
          \/ ~AtCapacity /\ sessions' = sessions \cup {<<k, "in">>, <<k, "out">>}
      BY <2>4, <3>1 DEF HandleInboundSetup, Ignore
    <3> QED BY <2>0, <2>1, <2>3, <3>2 DEF AtCapacity
  <2>5. ASSUME NEW k \in Call, NEW side \in {"in", "out"}, NEW w,
               HandleLegFailure(<<k, side>>, w)
        PROVE CapHolds'
    <3>1. <<k, side>> \in Leg
      BY DEF Leg
    <3>2. sessions' = sessions \/ sessions' = sessions \ {<<k, "in">>, <<k, "out">>}
      BY <2>5, <3>1, BothKeys DEF HandleLegFailure, Ignore
    <3> QED BY <2>2, <2>3, <3>2
  <2>6. ASSUME Handle PROVE CapHolds'
    <3>1. ASSUME NEW k \in Call, HandleOutboundAccept(k) \/ HandleOutboundConnect(k)
          PROVE sessions' = sessions
      BY <3>1 DEF HandleOutboundAccept, HandleOutboundConnect, Ignore
    <3> QED BY <2>3, <2>4, <2>5, <2>6, <3>1 DEF Handle
  <2>7. ASSUME NEW k \in Call, DialTimeout(k) \/ IdleTimeout(k) PROVE CapHolds'
    BY <2>2, <2>7 DEF DialTimeout, IdleTimeout, SweepOne
  <2>8. ASSUME Stop PROVE CapHolds'
    BY <2>2, <2>3, <2>8 DEF Stop
  <2>9. ASSUME NEW k \in Call,
               Dial(k) \/ CallerHangsUp(k) \/ Answer(k) \/ Refuse(k) \/ TargetHangsUp(k)
        PROVE sessions' = sessions
    BY <2>9 DEF Dial, CallerHangsUp, CallerSays, Answer, Refuse, TargetHangsUp, TargetSays,
                ToBridge, bridge
  <2>10. ASSUME \/ Deliver \/ Cancel \/ Flap \/ Reconnect \/ UNCHANGED vars
                \/ \E p \in Proc : Enqueue(p)
         PROVE sessions' = sessions
    BY <2>10 DEF Deliver, Cancel, Flap, Reconnect, vars, Enqueue
  <2> QED BY <2>3, <2>6, <2>7, <2>8, <2>9, <2>10 DEF Next
<1> QED BY <1>1, <1>2, ProxyTypeCorrect, PTL DEF Spec

-----------------------------------------------------------------------------
(* No orphan legs                                                          *)

\* The words that open a leg or take it further.
OpeningWord == {"setup", "accept", "connect", "confirm"}

\* A leg's failure is under way to the bridge only once the radio has left.
FailuresReal ==
    \A k \in Call :
        /\ <<<<k, "in">>, "reject">> \notin Elems(recv)
        /\ <<<<k, "in">>, "release">> \in Elems(recv) => caller[k] = "over"
        /\ <<<<k, "out">>, "reject">> \in Elems(recv) => target[k] \in {"refused", "over"}
        /\ <<<<k, "out">>, "release">> \in Elems(recv) => target[k] \in {"refused", "over"}

\* Only the read loop opens legs, and those of calls that are in the table.
OthersRelease == \A p \in {"watchdog", "stop"} : \A m \in Elems(todo[p]) : m[2] = "release"
LoopKnows ==
    \A m \in Elems(todo["loop"]) : m[2] \in OpeningWord => <<m[1][1], "in">> \in sessions

\* Message m comes after the first i of the queue, or is still to be enqueued.
After(i, m) ==
    \/ \E p \in Proc : m \in Elems(todo[p])
    \/ \E j \in DOMAIN send : j > i /\ send[j] = m

ReleaseIn(k) == <<<<k, "in">>, "release">>
ReleaseOut(k) == <<<<k, "out">>, "release">>

\* Of a call that is not in the table: every leg that is open, or that the queue
\* will still open, has its release behind it.
LetGo(k) ==
    /\ target[k] \in TargetActive => After(0, ReleaseOut(k))
    /\ target[k] \notin {"refused", "over"} =>
          \A i \in DOMAIN send : send[i] = <<<<k, "out">>, "setup">> => After(i, ReleaseOut(k))
    /\ caller[k] \in {"ringing", "talking"} => After(0, ReleaseIn(k))
    /\ caller[k] # "over" =>
          \A i \in DOMAIN send :
             send[i] \in {<<<<k, "in">>, "accept">>, <<<<k, "in">>, "connect">>}
                => After(i, ReleaseIn(k))

OrphanInv ==
    /\ FailuresReal /\ OthersRelease
    /\ Unbroken => /\ LoopKnows
                   /\ \A k \in Call : <<k, "in">> \notin sessions => LetGo(k)

\* Appending, concatenating and taking the head lose nothing else.
LEMMA NothingLost ==
    ASSUME NEW q \in Seq(Msg), NEW r \in Seq(Msg), NEW m \in Msg
    PROVE  /\ Elems(q) \subseteq Elems(Append(q, m)) /\ m \in Elems(Append(q, m))
           /\ Elems(q) \subseteq Elems(q \o r) /\ Elems(r) \subseteq Elems(q \o r)
           /\ q # <<>> => Elems(q) \subseteq Elems(Tail(q)) \cup {Head(q)}
<1>1. Elems(q) \subseteq Elems(Append(q, m)) /\ m \in Elems(Append(q, m))
  <2>1. ASSUME NEW i \in DOMAIN q PROVE q[i] \in Elems(Append(q, m))
    <3>1. i \in DOMAIN Append(q, m) /\ Append(q, m)[i] = q[i]
      OBVIOUS
    <3> QED BY <3>1 DEF Elems
  <2>2. Len(q) + 1 \in DOMAIN Append(q, m) /\ Append(q, m)[Len(q) + 1] = m
    OBVIOUS
  <2> QED BY <2>1, <2>2 DEF Elems
<1>2. Elems(q) \subseteq Elems(q \o r) /\ Elems(r) \subseteq Elems(q \o r)
  <2>1. ASSUME NEW i \in DOMAIN q PROVE q[i] \in Elems(q \o r)
    <3>1. i \in DOMAIN (q \o r) /\ (q \o r)[i] = q[i]
      OBVIOUS
    <3> QED BY <3>1 DEF Elems
  <2>2. ASSUME NEW i \in DOMAIN r PROVE r[i] \in Elems(q \o r)
    <3>1. Len(q) + i \in DOMAIN (q \o r) /\ (q \o r)[Len(q) + i] = r[i]
      OBVIOUS
    <3> QED BY <3>1 DEF Elems
  <2> QED BY <2>1, <2>2 DEF Elems
<1>3. ASSUME q # <<>> PROVE Elems(q) \subseteq Elems(Tail(q)) \cup {Head(q)}
  <2>1. ASSUME NEW i \in DOMAIN q PROVE q[i] \in Elems(Tail(q)) \cup {Head(q)}
    <3>1. CASE i = 1
      BY <1>3, <3>1
    <3>2. CASE i # 1
      <4>1. i - 1 \in DOMAIN Tail(q) /\ Tail(q)[i - 1] = q[i]
        BY <1>3, <3>2
      <4> QED BY <4>1 DEF Elems
    <3> QED BY <3>1, <3>2
  <2> QED BY <2>1 DEF Elems
<1> QED BY <1>1, <1>2, <1>3

\* A radio that has left its call does not come back.
LEMMA GoneStays ==
    ASSUME TypeOK, [Next]_vars, NEW k \in Call
    PROVE  /\ caller[k] = "over" => caller'[k] = "over"
           /\ target[k] \in {"refused", "over"} => target'[k] \in {"refused", "over"}
<1> DEFINE Goal == /\ caller[k] = "over" => caller'[k] = "over"
                   /\ target[k] \in {"refused", "over"} => target'[k] \in {"refused", "over"}
<1> USE DEF TargetActive, CallerActive
<1>1. ASSUME NEW j \in Call, \/ Dial(j) \/ CallerHangsUp(j)
                             \/ Answer(j) \/ Refuse(j) \/ TargetHangsUp(j)
      PROVE Goal
  BY <1>1 DEF Dial, CallerHangsUp, CallerSays, Answer, Refuse, TargetHangsUp, TargetSays, TypeOK
<1>2. ASSUME Deliver PROVE Goal
  BY <1>2 DEF Deliver, TypeOK
<1>3. ASSUME Flap PROVE Goal
  BY <1>3 DEF Flap, OnDisconnect
<1>4. ASSUME Handle PROVE Goal
  BY <1>4 DEF Handle, HandleInboundSetup, HandleOutboundAccept, HandleOutboundConnect,
              HandleLegFailure, Take
<1>5. ASSUME \/ \E j \in Call : DialTimeout(j) \/ IdleTimeout(j)
             \/ \E p \in Proc : Enqueue(p)
             \/ Cancel \/ Stop \/ Reconnect \/ UNCHANGED vars
      PROVE Goal
  BY <1>5 DEF DialTimeout, IdleTimeout, SweepOne, Enqueue, Cancel, Stop, Reconnect, vars
<1> QED BY <1>1, <1>2, <1>3, <1>4, <1>5 DEF Next

\* What the bridge is told of a leg's failure is true: by then the radio has left.
LEMMA FailuresStep ==
    ASSUME TypeOK, FailuresReal, [Next]_vars
    PROVE  FailuresReal'
<1> DEFINE Arrives(l, w) ==
        Elems(recv') \subseteq Elems(recv) \cup {<<l, w>>}
<1>1. ASSUME Elems(recv') \subseteq Elems(recv) PROVE FailuresReal'
  BY <1>1, GoneStays DEF FailuresReal
<1>2. ASSUME NEW j \in Call, Dial(j) PROVE FailuresReal'
  <2>1. Arrives(<<j, "in">>, "setup")
    BY <1>2, ToBridgeTypes DEF Dial, CallerSays, Word
  <2> QED BY <2>1, GoneStays DEF FailuresReal
<1>3. ASSUME NEW j \in Call, CallerHangsUp(j) PROVE FailuresReal'
  <2>1. Arrives(<<j, "in">>, "release") /\ caller'[j] = "over"
    BY <1>3, ToBridgeTypes DEF CallerHangsUp, CallerSays, Word, TypeOK
  <2> QED BY <2>1, GoneStays DEF FailuresReal
<1>4. ASSUME NEW j \in Call, Answer(j) PROVE FailuresReal'
  <2>1. Arrives(<<j, "out">>, "connect")
    BY <1>4, ToBridgeTypes DEF Answer, TargetSays, Word
  <2> QED BY <2>1, GoneStays DEF FailuresReal
<1>5. ASSUME NEW j \in Call, Refuse(j) \/ TargetHangsUp(j) PROVE FailuresReal'
  <2>1. /\ Arrives(<<j, "out">>, "reject") \/ Arrives(<<j, "out">>, "release")
        /\ target'[j] \in {"refused", "over"}
    BY <1>5, ToBridgeTypes DEF Refuse, TargetHangsUp, TargetSays, Word, TypeOK
  <2> QED BY <2>1, GoneStays DEF FailuresReal
<1>6. ASSUME Deliver PROVE FailuresReal'
  <2> DEFINE a == <<<<Head(send)[1][1], "out">>, "accept">>
  <2>1. recv' = recv \/ recv' = Append(recv, a)
    BY <1>6 DEF Deliver
  <2>2. send # <<>> /\ send \in Seq(Msg) /\ recv \in Seq(Msg)
    BY <1>6 DEF Deliver, TypeOK
  <2>3. a \in Msg
    BY <2>2, TailElems DEF Msg, Leg, Word
  <2>4. Elems(recv') \subseteq Elems(recv) \cup {a}
    <3> HIDE DEF a
    <3> QED BY <2>1, <2>2, <2>3, AppendElems
  <2> QED BY <2>4, GoneStays DEF FailuresReal
<1>7. ASSUME Handle PROVE FailuresReal'
  <2>1. PICK l \in Leg, w \in Word : Take(l, w)
    BY <1>7 DEF Handle, HandleInboundSetup, HandleOutboundAccept, HandleOutboundConnect,
                HandleLegFailure, Leg, Word
  <2> QED BY <1>1, <2>1, TakeTypes
<1>8. ASSUME Flap PROVE FailuresReal'
  BY <1>1, <1>8, ShortElems DEF Flap
<1>9. ASSUME \/ \E j \in Call : DialTimeout(j) \/ IdleTimeout(j)
             \/ \E p \in Proc : Enqueue(p)
             \/ Cancel \/ Stop \/ Reconnect \/ UNCHANGED vars
      PROVE FailuresReal'
  <2>1. recv' = recv
    BY <1>9 DEF DialTimeout, IdleTimeout, SweepOne, Enqueue, Cancel, Stop, Reconnect, vars
  <2> QED BY <1>1, <2>1
<1> QED BY <1>2, <1>3, <1>4, <1>5, <1>6, <1>7, <1>8, <1>9 DEF Next

\* What the goroutines have still to send, by the step that changes it.
LEMMA TodoAfterRelease ==
    ASSUME TypeOK, NEW x \in Proc, NEW j \in Call, Say(x, todo[x] \o Release(j))
    PROVE  /\ \A p \in Proc \ {x} : todo'[p] = todo[p]
           /\ Elems(todo[x]) \subseteq Elems(todo'[x])
           /\ ReleaseIn(j) \in Elems(todo'[x]) /\ ReleaseOut(j) \in Elems(todo'[x])
           /\ Elems(todo'[x]) \subseteq Elems(todo[x]) \cup {ReleaseIn(j), ReleaseOut(j)}
<1>1. todo[x] \in Seq(Msg) /\ Release(j) \in Seq(Msg) /\ <<<<j, "in">>, "release">> \in Msg
  BY MsgTypes DEF TypeOK, Word
<1>2. todo'[x] = todo[x] \o Release(j) /\ \A p \in Proc \ {x} : todo'[p] = todo[p]
  BY DEF Say, TypeOK
<1>3. Elems(Release(j)) = {ReleaseIn(j), ReleaseOut(j)}
  BY ShortElems DEF Release, ReleaseIn, ReleaseOut
<1>4. /\ Elems(todo[x] \o Release(j)) \subseteq Elems(todo[x]) \cup Elems(Release(j))
      /\ Elems(todo[x]) \subseteq Elems(todo[x] \o Release(j))
      /\ Elems(Release(j)) \subseteq Elems(todo[x] \o Release(j))
  BY <1>1, ConcatElems, NothingLost
<1> QED BY <1>2, <1>3, <1>4

\* The watchdog and Stop send releases only.
LEMMA OthersStep ==
    ASSUME TypeOK, OthersRelease, [Next]_vars
    PROVE  OthersRelease'
<1>1. ASSUME \A p \in {"watchdog", "stop"} : Elems(todo'[p]) \subseteq Elems(todo[p])
      PROVE OthersRelease'
  BY <1>1 DEF OthersRelease
<1>2. ASSUME NEW x \in {"watchdog", "stop"}, NEW j \in Call, Say(x, todo[x] \o Release(j))
      PROVE OthersRelease'
  <2>1. /\ \A p \in Proc \ {x} : todo'[p] = todo[p]
        /\ Elems(todo'[x]) \subseteq Elems(todo[x]) \cup {ReleaseIn(j), ReleaseOut(j)}
    BY <1>2, TodoAfterRelease DEF Proc
  <2> QED BY <2>1 DEF OthersRelease, ReleaseIn, ReleaseOut, Proc
<1>3. ASSUME \E j \in Call : DialTimeout(j) \/ IdleTimeout(j) PROVE OthersRelease'
  BY <1>2, <1>3 DEF DialTimeout, IdleTimeout, SweepOne
<1>4. ASSUME Stop PROVE OthersRelease'
  BY <1>1, <1>2, <1>4 DEF Stop
<1>5. ASSUME NEW x \in Proc, Enqueue(x) PROVE OthersRelease'
  <2>1. \A p \in Proc : Elems(todo'[p]) \subseteq Elems(todo[p])
    BY <1>5, TailElems DEF Enqueue, TypeOK
  <2> QED BY <1>1, <2>1 DEF Proc
<1>6. ASSUME Handle PROVE OthersRelease'
  <2>1. todo' = todo \/ \E q : Say("loop", q)
    BY <1>6 DEF Handle, HandleInboundSetup, HandleOutboundAccept, HandleOutboundConnect,
                HandleLegFailure, Ignore
  <2>2. \A p \in {"watchdog", "stop"} : todo'[p] = todo[p]
    BY <2>1 DEF Say, TypeOK, Proc
  <2> QED BY <1>1, <2>2
<1>7. ASSUME \/ \E j \in Call : \/ Dial(j) \/ CallerHangsUp(j)
                                \/ Answer(j) \/ Refuse(j) \/ TargetHangsUp(j)
             \/ Deliver \/ Cancel \/ Flap \/ Reconnect \/ UNCHANGED vars
      PROVE OthersRelease'
  <2>1. todo' = todo
    BY <1>7 DEF Dial, CallerHangsUp, CallerSays, Answer, Refuse, TargetHangsUp, TargetSays,
                ToBridge, bridge, Deliver, Cancel, Flap, Reconnect, vars
  <2> QED BY <1>1, <2>1
<1> QED BY <1>3, <1>4, <1>5, <1>6, <1>7 DEF Next

\* A release that is on the way stays on the way: it moves from what is still to
\* be sent to the end of the queue, and up the queue.
LEMMA AfterStays ==
    ASSUME TypeOK, NEW i \in Nat, NEW m, After(i, m)
    PROVE  /\ send' = send /\ (\A p \in Proc : Elems(todo[p]) \subseteq Elems(todo'[p]))
                 => After(i, m)'
           /\ \A p \in Proc : Enqueue(p) /\ i <= Len(send) => After(i, m)'
<1>1. ASSUME send' = send, \A p \in Proc : Elems(todo[p]) \subseteq Elems(todo'[p])
      PROVE After(i, m)'
  BY <1>1 DEF After
<1>2. ASSUME NEW p \in Proc, Enqueue(p), i <= Len(send) PROVE After(i, m)'
  <2>1. /\ todo[p] \in Seq(Msg) /\ todo[p] # <<>> /\ send \in Seq(Msg)
        /\ send' = Append(send, Head(todo[p])) /\ todo'[p] = Tail(todo[p])
        /\ \A x \in Proc \ {p} : todo'[x] = todo[x]
    BY <1>2 DEF Enqueue, TypeOK
  <2>2. Head(todo[p]) \in Msg /\ Elems(todo[p]) \subseteq Elems(todo'[p]) \cup {Head(todo[p])}
    BY <2>1, TailElems, NothingLost
  <2>3. /\ \A j \in DOMAIN send : j \in DOMAIN send' /\ send'[j] = send[j]
        /\ Len(send) + 1 \in DOMAIN send' /\ send'[Len(send) + 1] = Head(todo[p])
        /\ Len(send) + 1 > i
    BY <1>2, <2>1, <2>2
  <2> QED BY <2>1, <2>2, <2>3 DEF After
<1> QED BY <1>1, <1>2

LEMMA AfterMovesUp ==
    ASSUME TypeOK, NEW i \in Nat, NEW m, After(i + 1, m),
           send # <<>>, send' = Tail(send), todo' = todo
    PROVE  After(i, m)'
<1>1. CASE \E p \in Proc : m \in Elems(todo[p])
  BY <1>1 DEF After
<1>2. CASE \E j \in DOMAIN send : j > i + 1 /\ send[j] = m
  <2>1. PICK j \in DOMAIN send : j > i + 1 /\ send[j] = m
    BY <1>2
  <2>2. j - 1 \in DOMAIN send' /\ j - 1 > i /\ send'[j - 1] = m
    BY <2>1 DEF TypeOK
  <2> QED BY <2>2 DEF After
<1> QED BY <1>1, <1>2 DEF After

\* Calls that are let go stay so when nothing is taken from the queues and no leg
\* is opened.
LEMMA LetGoStays ==
    ASSUME TypeOK, NEW k \in Call, LetGo(k), send' = send,
           \A p \in Proc : Elems(todo[p]) \subseteq Elems(todo'[p]),
           target'[k] \in TargetActive => target[k] \in TargetActive,
           target'[k] \notin {"refused", "over"} => target[k] \notin {"refused", "over"},
           caller'[k] \in {"ringing", "talking"} => caller[k] \in {"ringing", "talking"},
           caller'[k] # "over" => caller[k] # "over"
    PROVE  LetGo(k)'
<1>1. \A i \in Nat : After(i, ReleaseIn(k)) => After(i, ReleaseIn(k))'
  BY AfterStays DEF ReleaseIn
<1>2. \A i \in Nat : After(i, ReleaseOut(k)) => After(i, ReleaseOut(k))'
  BY AfterStays DEF ReleaseOut
<1>3. \A i \in DOMAIN send : i \in Nat
  BY DEF TypeOK
<1> QED BY <1>1, <1>2, <1>3 DEF LetGo, ReleaseIn, ReleaseOut

\* Once both releases are among what is to be sent, the call is let go.
LEMMA LetGoByRelease ==
    ASSUME NEW k \in Call,
           target'[k] \in {"refused", "over"} \/ \E p \in Proc : ReleaseOut(k) \in Elems(todo'[p]),
           caller'[k] = "over" \/ \E p \in Proc : ReleaseIn(k) \in Elems(todo'[p])
    PROVE  LetGo(k)'
<1>1. (\E p \in Proc : ReleaseOut(k) \in Elems(todo'[p])) => \A i : After(i, ReleaseOut(k))'
  BY DEF After, ReleaseOut
<1>2. (\E p \in Proc : ReleaseIn(k) \in Elems(todo'[p])) => \A i : After(i, ReleaseIn(k))'
  BY DEF After, ReleaseIn
<1> QED BY <1>1, <1>2 DEF LetGo, TargetActive, ReleaseIn, ReleaseOut

\* The keys of two calls are apart.
LEMMA KeysApart ==
    ASSUME NEW j \in Call, NEW k \in Call, j # k
    PROVE  {<<k, "in">>, <<k, "out">>} \cap {<<j, "in">>, <<j, "out">>} = {}
OBVIOUS

OrphanFree == LoopKnows /\ \A k \in Call : <<k, "in">> \notin sessions => LetGo(k)

LEMMA DeliverLetGo ==
    ASSUME TypeOK, Deliver, NEW k \in Call, LetGo(k)
    PROVE  LetGo(k)'
<1>1. /\ send \in Seq(Msg) /\ send # <<>> /\ send' = Tail(send) /\ todo' = todo
      /\ Len(send) \in Nat \ {0} /\ 1 \in DOMAIN send /\ Head(send) = send[1]
      /\ \A i \in DOMAIN send' : i \in Nat /\ i + 1 \in DOMAIN send /\ send'[i] = send[i + 1]
  BY DEF Deliver, TypeOK
<1>2. \A i \in Nat : After(i + 1, ReleaseIn(k)) => After(i, ReleaseIn(k))'
  BY <1>1, AfterMovesUp DEF ReleaseIn
<1>3. \A i \in Nat : After(i + 1, ReleaseOut(k)) => After(i, ReleaseOut(k))'
  BY <1>1, AfterMovesUp DEF ReleaseOut
<1> DEFINE h == Head(send)
<1>4. h \in Msg /\ h = <<<<h[1][1], h[1][2]>>, h[2]>> /\ h[1][1] \in Call /\ h[1][2] \in {"in", "out"}
  BY <1>1, TailElems DEF Msg, Leg
<1>5. /\ caller'[k] = IF h[1][1] # k \/ h[1][2] = "out" \/ caller[k] \notin CallerActive
                      THEN caller[k]
                      ELSE IF h[2] = "accept"
                           THEN IF caller[k] = "calling" THEN "ringing" ELSE caller[k]
                      ELSE IF h[2] = "connect" THEN "talking" ELSE "over"
      /\ target'[k] = IF h[1][1] # k \/ h[1][2] = "in" THEN target[k]
                      ELSE IF h[2] = "setup" THEN IF target[k] = "idle" THEN "ringing" ELSE target[k]
                      ELSE IF h[2] = "confirm"
                           THEN IF target[k] = "answered" THEN "talking" ELSE target[k]
                      ELSE IF target[k] = "ringing" THEN "refused"
                      ELSE IF target[k] \in TargetActive THEN "over" ELSE target[k]
  BY <1>4 DEF Deliver, TypeOK
<1>6. caller[k] \in CallerActive \cup {"idle", "over"} /\ target[k] \in TargetActive \cup {"idle", "refused", "over"}
  BY DEF TypeOK
<1> HIDE DEF h
<1>7. h = send[1]
  BY <1>1 DEF h
<1>8. ASSUME target'[k] \in TargetActive PROVE After(0, ReleaseOut(k))'
  <2>1. CASE h = <<<<k, "out">>, "setup">>
    <3>1. target[k] \notin {"refused", "over"}
      BY <1>5, <1>6, <1>8 DEF TargetActive
    <3>2. After(1, ReleaseOut(k))
      BY <1>1, <1>7, <2>1, <3>1 DEF LetGo
    <3> QED BY <1>3, <3>2
  <2>2. CASE h # <<<<k, "out">>, "setup">>
    <3>1. target[k] \in TargetActive /\ h # ReleaseOut(k)
      BY <1>4, <1>5, <1>6, <1>8, <2>2 DEF TargetActive, ReleaseOut
    <3>2. After(0, ReleaseOut(k))
      BY <3>1 DEF LetGo
    <3>3. After(1, ReleaseOut(k))
      BY <1>1, <1>7, <3>1, <3>2 DEF After
    <3> QED BY <1>3, <3>3
  <2> QED BY <2>1, <2>2
<1>9. ASSUME caller'[k] \in {"ringing", "talking"} PROVE After(0, ReleaseIn(k))'
  <2>1. CASE h \in {<<<<k, "in">>, "accept">>, <<<<k, "in">>, "connect">>}
    <3>1. caller[k] # "over"
      BY <1>5, <1>6, <1>9 DEF CallerActive
    <3>2. After(1, ReleaseIn(k))
      BY <1>1, <1>7, <2>1, <3>1 DEF LetGo
    <3> QED BY <1>2, <3>2
  <2>2. CASE h \notin {<<<<k, "in">>, "accept">>, <<<<k, "in">>, "connect">>}
    <3>1. caller[k] \in {"ringing", "talking"} /\ h # ReleaseIn(k)
      BY <1>4, <1>5, <1>6, <1>9, <2>2 DEF CallerActive, ReleaseIn
    <3>2. After(0, ReleaseIn(k))
      BY <3>1 DEF LetGo
    <3>3. After(1, ReleaseIn(k))
      BY <1>1, <1>7, <3>1, <3>2 DEF After
    <3> QED BY <1>2, <3>3
  <2> QED BY <2>1, <2>2
<1>10. ASSUME target'[k] \notin {"refused", "over"}, NEW i \in DOMAIN send',
              send'[i] = <<<<k, "out">>, "setup">>
       PROVE  After(i, ReleaseOut(k))'
  <2>1. target[k] \notin {"refused", "over"}
    BY <1>5, <1>10 DEF TargetActive
  <2>2. After(i + 1, ReleaseOut(k))
    BY <1>1, <1>10, <2>1 DEF LetGo
  <2> QED BY <1>1, <1>3, <2>2
<1>11. ASSUME caller'[k] # "over", NEW i \in DOMAIN send',
              send'[i] \in {<<<<k, "in">>, "accept">>, <<<<k, "in">>, "connect">>}
       PROVE  After(i, ReleaseIn(k))'
  <2>1. caller[k] # "over"
    BY <1>5, <1>11 DEF CallerActive
  <2>2. After(i + 1, ReleaseIn(k))
    BY <1>1, <1>11, <2>1 DEF LetGo
  <2> QED BY <1>1, <1>2, <2>2
<1> QED BY <1>8, <1>9, <1>10, <1>11 DEF LetGo, ReleaseIn, ReleaseOut

LEMMA EnqueueLetGo ==
    ASSUME TypeOK, OthersRelease, LoopKnows, NEW p \in Proc, Enqueue(p),
           NEW k \in Call, <<k, "in">> \notin sessions, LetGo(k)
    PROVE  LetGo(k)'
<1>1. /\ todo[p] \in Seq(Msg) /\ todo[p] # <<>> /\ send \in Seq(Msg)
      /\ send' = Append(send, Head(todo[p])) /\ caller' = caller /\ target' = target
  BY DEF Enqueue, TypeOK
<1>2. Head(todo[p]) \in Elems(todo[p]) /\ Head(todo[p]) \in Msg
  BY <1>1, TailElems
<1>3. /\ Head(todo[p]) # <<<<k, "out">>, "setup">>
      /\ Head(todo[p]) # <<<<k, "in">>, "accept">> /\ Head(todo[p]) # <<<<k, "in">>, "connect">>
  <2>1. CASE p = "loop"
    BY <1>2, <2>1 DEF LoopKnows, OpeningWord
  <2>2. CASE p # "loop"
    BY <1>2, <2>2 DEF OthersRelease, Proc
  <2> QED BY <2>1, <2>2
<1>4. /\ Len(send) \in Nat /\ DOMAIN send' = 1..Len(send) + 1 /\ DOMAIN send = 1..Len(send)
      /\ \A i \in DOMAIN send : send'[i] = send[i]
      /\ send'[Len(send) + 1] = Head(todo[p])
  BY <1>1, <1>2
<1>5. \A i \in 0..Len(send) :
         /\ After(i, ReleaseIn(k)) => After(i, ReleaseIn(k))'
         /\ After(i, ReleaseOut(k)) => After(i, ReleaseOut(k))'
  BY <1>4, AfterStays DEF ReleaseIn, ReleaseOut
<1>6. /\ \A i \in DOMAIN send' : send'[i] = <<<<k, "out">>, "setup">> =>
            i \in DOMAIN send /\ send[i] = <<<<k, "out">>, "setup">>
      /\ \A i \in DOMAIN send' : send'[i] = <<<<k, "in">>, "accept">> =>
            i \in DOMAIN send /\ send[i] = <<<<k, "in">>, "accept">>
      /\ \A i \in DOMAIN send' : send'[i] = <<<<k, "in">>, "connect">> =>
            i \in DOMAIN send /\ send[i] = <<<<k, "in">>, "connect">>
  BY <1>3, <1>4
<1>7. \A i \in DOMAIN send : i \in 0..Len(send) /\ 0 \in 0..Len(send)
  BY <1>4
<1>8. /\ target[k] \in TargetActive => After(0, ReleaseOut(k))'
      /\ caller[k] \in {"ringing", "talking"} => After(0, ReleaseIn(k))'
  BY <1>4, <1>5 DEF LetGo
<1>9. ASSUME target[k] \notin {"refused", "over"}, NEW i \in DOMAIN send',
             send'[i] = <<<<k, "out">>, "setup">>
      PROVE  After(i, ReleaseOut(k))'
  <2>1. i \in DOMAIN send /\ After(i, ReleaseOut(k))
    BY <1>6, <1>9 DEF LetGo
  <2> QED BY <1>5, <1>7, <2>1
<1>10. ASSUME caller[k] # "over", NEW i \in DOMAIN send',
              send'[i] \in {<<<<k, "in">>, "accept">>, <<<<k, "in">>, "connect">>}
       PROVE  After(i, ReleaseIn(k))'
  <2>1. i \in DOMAIN send /\ After(i, ReleaseIn(k))
    BY <1>6, <1>10 DEF LetGo
  <2> QED BY <1>5, <1>7, <2>1
<1> QED BY <1>1, <1>8, <1>9, <1>10 DEF LetGo, ReleaseIn, ReleaseOut

\* The handlers, while nothing has been lost: each starts with nothing to send.
LEMMA HandleFree ==
    ASSUME TypeOK, FailuresReal, OrphanFree, Handle
    PROVE  OrphanFree'
<1>0. "loop" \in Proc /\ todo \in [Proc -> Seq(Msg)]
  BY DEF Proc, TypeOK
<1>1. ASSUME NEW j \in Call, NEW l \in Leg, NEW w \in Word, Take(l, w),
             NEW q \in Seq(Msg), todo' = todo \/ Say("loop", q),
             \A m \in Elems(q) : m[2] \in OpeningWord => <<m[1][1], "in">> \in sessions',
             sessions \subseteq sessions'
      PROVE  OrphanFree'
  <2>1. /\ caller' = caller /\ target' = target /\ send' = send
        /\ todo["loop"] = <<>> /\ \A p \in Proc \ {"loop"} : todo'[p] = todo[p]
        /\ todo'["loop"] \in {<<>>, q}
    BY <1>0, <1>1 DEF Take, Say
  <2>2. /\ Elems(todo["loop"]) = {} /\ Elems(todo'["loop"]) \subseteq Elems(q)
        /\ \A p \in Proc : Elems(todo[p]) \subseteq Elems(todo'[p])
    BY <2>1, ShortElems
  <2>3. LoopKnows'
    BY <1>1, <2>2 DEF LoopKnows
  <2>4. ASSUME NEW k \in Call, <<k, "in">> \notin sessions' PROVE LetGo(k)'
    BY <1>1, <2>1, <2>2, <2>4, LetGoStays DEF OrphanFree
  <2> QED BY <2>3, <2>4 DEF OrphanFree
<1>2. ASSUME NEW j \in Call, HandleInboundSetup(j) PROVE OrphanFree'
  <2> DEFINE q0 == <<>>
             q1 == << <<<<j, "in">>, "reject">> >>
             q2 == << <<<<j, "in">>, "accept">>, <<<<j, "out">>, "setup">> >>
  <2>1. /\ Take(<<j, "in">>, "setup") /\ <<j, "in">> \in Leg /\ "setup" \in Word
        /\ q0 \in Seq(Msg) /\ q1 \in Seq(Msg) /\ q2 \in Seq(Msg)
    BY <1>2 DEF HandleInboundSetup, Msg, Leg, Word
  <2>2. /\ Elems(q0) = {} /\ Elems(q1) = {<<<<j, "in">>, "reject">>}
        /\ Elems(q2) = {<<<<j, "in">>, "accept">>, <<<<j, "out">>, "setup">>}
    BY ShortElems
  <2>3. OtherLeg(<<j, "in">>) = <<j, "out">>
    BY DEF OtherLeg
  <2>4. \/ todo' = todo /\ sessions' = sessions
        \/ Say("loop", q1) /\ sessions' = sessions
        \/ Say("loop", q2) /\ sessions' = sessions \cup {<<j, "in">>, <<j, "out">>}
    BY <1>2, <2>3 DEF HandleInboundSetup, Ignore
  <2> HIDE DEF q0, q1, q2
  <2>5. CASE todo' = todo /\ sessions' = sessions
    BY <1>1, <2>1, <2>2, <2>5
  <2>6. CASE Say("loop", q1) /\ sessions' = sessions
    <3>1. \A m \in Elems(q1) : m[2] \in OpeningWord => <<m[1][1], "in">> \in sessions'
      BY <2>2 DEF OpeningWord
    <3> QED BY <1>1, <2>1, <2>6, <3>1
  <2>7. CASE Say("loop", q2) /\ sessions' = sessions \cup {<<j, "in">>, <<j, "out">>}
    <3>1. \A m \in Elems(q2) : m[2] \in OpeningWord => <<m[1][1], "in">> \in sessions'
      BY <2>2, <2>7
    <3> QED BY <1>1, <2>1, <2>7, <3>1
  <2> QED BY <2>4, <2>5, <2>6, <2>7
<1>3. ASSUME NEW j \in Call, HandleOutboundAccept(j) PROVE OrphanFree'
  <2>1. /\ Take(<<j, "out">>, "accept") /\ todo' = todo /\ sessions' = sessions
        /\ <<j, "out">> \in Leg /\ "accept" \in Word /\ <<>> \in Seq(Msg)
    BY <1>3 DEF HandleOutboundAccept, Ignore, Leg, Word
  <2> QED BY <1>1, <2>1, ShortElems
<1>4. ASSUME NEW j \in Call, HandleOutboundConnect(j) PROVE OrphanFree'
  <2> DEFINE q == << <<<<j, "in">>, "connect">>, <<<<j, "out">>, "confirm">> >>
  <2>1. /\ Take(<<j, "out">>, "connect") /\ <<j, "out">> \in Leg /\ "connect" \in Word
        /\ q \in Seq(Msg) /\ <<>> \in Seq(Msg)
    BY <1>4 DEF HandleOutboundConnect, Msg, Leg, Word
  <2>2. Elems(q) = {<<<<j, "in">>, "connect">>, <<<<j, "out">>, "confirm">>} /\ Elems(<<>>) = {}
    BY ShortElems
  <2>3. /\ sessions' = sessions
        /\ todo' = todo \/ (Say("loop", q) /\ <<j, "out">> \in sessions)
    BY <1>4 DEF HandleOutboundConnect, AnswerWords, Ignore
  <2>4. <<j, "out">> \in sessions => <<j, "in">> \in sessions
    BY DEF TypeOK
  <2> HIDE DEF q
  <2>5. CASE todo' = todo
    BY <1>1, <2>1, <2>2, <2>3, <2>5
  <2>6. CASE Say("loop", q) /\ <<j, "out">> \in sessions
    <3>1. \A m \in Elems(q) : m[2] \in OpeningWord => <<m[1][1], "in">> \in sessions'
      BY <2>2, <2>3, <2>4, <2>6
    <3> QED BY <1>1, <2>1, <2>3, <2>6, <3>1
  <2> QED BY <2>3, <2>5, <2>6
<1>5. ASSUME NEW j \in Call, NEW side \in {"in", "out"}, NEW w \in {"reject", "release"},
             HandleLegFailure(<<j, side>>, w)
      PROVE OrphanFree'
  <2> DEFINE l == <<j, side>>
             q == << <<OtherLeg(l), "release">> >>
  <2>1. Take(l, w) /\ l \in Leg /\ w \in Word /\ q \in Seq(Msg) /\ <<>> \in Seq(Msg)
    BY <1>5 DEF HandleLegFailure, Msg, Leg, Word, OtherLeg
  <2>2. CASE l \notin sessions
    <3>1. todo' = todo /\ sessions' = sessions
      BY <1>5, <2>2 DEF HandleLegFailure, Ignore
    <3> QED BY <1>1, <2>1, <3>1, ShortElems
  <2>3. CASE l \in sessions
    <3>1. /\ sessions' = sessions \ {<<j, "in">>, <<j, "out">>} /\ Say("loop", q)
          /\ caller' = caller /\ target' = target /\ send' = send /\ todo["loop"] = <<>>
      BY <1>5, <2>1, <2>3, BothKeys DEF HandleLegFailure, Take
    <3>2. /\ todo'["loop"] = q /\ \A p \in Proc \ {"loop"} : todo'[p] = todo[p]
          /\ Elems(q) = {<<OtherLeg(l), "release">>}
          /\ \A p \in Proc : Elems(todo[p]) \subseteq Elems(todo'[p])
      BY <1>0, <3>1, ShortElems DEF Say
    <3>3. LoopKnows'
      BY <3>2 DEF LoopKnows, OpeningWord
    <3>4. <<l, w>> \in Elems(recv)
      BY <2>1, TakeTypes
    <3>5. LetGo(j)'
      <4>1. CASE side = "in"
        <5>1. caller'[j] = "over"
          BY <3>1, <3>4, <4>1 DEF FailuresReal
        <5>2. ReleaseOut(j) \in Elems(todo'["loop"])
          BY <3>2, <4>1 DEF ReleaseOut, OtherLeg
        <5> QED BY <1>0, <5>1, <5>2, LetGoByRelease
      <4>2. CASE side = "out"
        <5>1. target'[j] \in {"refused", "over"}
          BY <3>1, <3>4, <4>2 DEF FailuresReal
        <5>2. ReleaseIn(j) \in Elems(todo'["loop"])
          BY <3>2, <4>2 DEF ReleaseIn, OtherLeg
        <5> QED BY <1>0, <5>1, <5>2, LetGoByRelease
      <4> QED BY <4>1, <4>2
    <3>6. ASSUME NEW k \in Call, k # j, <<k, "in">> \notin sessions' PROVE LetGo(k)'
      <4>1. <<k, "in">> \notin sessions
        BY <3>1, <3>6, KeysApart
      <4> QED BY <3>1, <3>2, <4>1, LetGoStays DEF OrphanFree
    <3> QED BY <3>3, <3>5, <3>6 DEF OrphanFree
  <2> QED BY <2>2, <2>3
<1> QED BY <1>2, <1>3, <1>4, <1>5 DEF Handle

\* Every step that loses nothing keeps the calls outside the table let go.
LEMMA OrphanFreeStep ==
    ASSUME TypeOK, OrphanInv, [Next]_vars, Unbroken'
    PROVE  OrphanFree'
<1>1. Unbroken /\ OrphanFree
  <2>1. Unbroken
    <3>1. ASSUME Handle PROVE flaps' = flaps /\ life' = life
      BY <3>1 DEF Handle, HandleInboundSetup, HandleOutboundAccept, HandleOutboundConnect,
                  HandleLegFailure, Take
    <3>2. ASSUME Flap PROVE FALSE
      BY <3>2 DEF Flap, Unbroken, TypeOK
    <3>3. ASSUME Cancel \/ Stop PROVE FALSE
      BY <3>3 DEF Cancel, Stop, Unbroken
    <3>4. ASSUME \/ \E j \in Call : \/ Dial(j) \/ CallerHangsUp(j)
                                    \/ Answer(j) \/ Refuse(j) \/ TargetHangsUp(j)
                                    \/ DialTimeout(j) \/ IdleTimeout(j)
                 \/ \E p \in Proc : Enqueue(p)
                 \/ Deliver \/ Reconnect \/ UNCHANGED vars
          PROVE flaps' = flaps /\ life' = life
      BY <3>4 DEF Dial, CallerHangsUp, CallerSays, Answer, Refuse, TargetHangsUp, TargetSays,
                  ToBridge, bridge, DialTimeout, IdleTimeout, SweepOne, Enqueue, Deliver,
                  Reconnect, vars
    <3> QED BY <3>1, <3>2, <3>3, <3>4 DEF Next, Unbroken
  <2> QED BY <2>1 DEF OrphanInv, OrphanFree
<1> USE DEF TargetActive, CallerActive
<1>2. ASSUME NEW j \in Call, Dial(j) \/ CallerHangsUp(j) PROVE OrphanFree'
  <2>1. /\ send' = send /\ todo' = todo /\ sessions' = sessions /\ target' = target
        /\ \A k \in Call : caller'[k] \in {"ringing", "talking"} => caller[k] \in {"ringing", "talking"}
        /\ \A k \in Call : caller'[k] # "over" => caller[k] # "over"
    BY <1>2 DEF Dial, CallerHangsUp, CallerSays, ToBridge, bridge, TypeOK
  <2> QED BY <1>1, <2>1, LetGoStays DEF OrphanFree, LoopKnows
<1>3. ASSUME NEW j \in Call, Answer(j) \/ Refuse(j) \/ TargetHangsUp(j) PROVE OrphanFree'
  <2>1. /\ send' = send /\ todo' = todo /\ sessions' = sessions /\ caller' = caller
        /\ \A k \in Call : target'[k] \in TargetActive => target[k] \in TargetActive
        /\ \A k \in Call : target'[k] \notin {"refused", "over"} =>
                              target[k] \notin {"refused", "over"}
    BY <1>3 DEF Answer, Refuse, TargetHangsUp, TargetSays, ToBridge, bridge, TypeOK
  <2> QED BY <1>1, <2>1, LetGoStays DEF OrphanFree, LoopKnows
<1>4. ASSUME Deliver PROVE OrphanFree'
  <2>1. todo' = todo /\ sessions' = sessions
    BY <1>4 DEF Deliver
  <2> QED BY <1>1, <1>4, <2>1, DeliverLetGo DEF OrphanFree, LoopKnows
<1>5. ASSUME Handle PROVE OrphanFree'
  BY <1>1, <1>5, HandleFree DEF OrphanInv
<1>6. ASSUME NEW j \in Call, DialTimeout(j) \/ IdleTimeout(j) PROVE OrphanFree'
  <2>1. /\ send' = send /\ caller' = caller /\ target' = target /\ Sent(j)
        /\ sessions' = sessions \ {<<j, "in">>, <<j, "out">>}
        /\ Say("watchdog", todo["watchdog"] \o Release(j)) /\ "watchdog" \in Proc
    BY <1>6 DEF DialTimeout, IdleTimeout, SweepOne, Proc
  <2>2. /\ \A p \in Proc \ {"watchdog"} : todo'[p] = todo[p]
        /\ Elems(todo["watchdog"]) \subseteq Elems(todo'["watchdog"])
        /\ ReleaseIn(j) \in Elems(todo'["watchdog"]) /\ ReleaseOut(j) \in Elems(todo'["watchdog"])
    BY <2>1, TodoAfterRelease
  <2>3. LoopKnows'
    <3>1. todo'["loop"] = todo["loop"] /\ todo["loop"] \in Seq(Msg)
      BY <2>2 DEF Proc, TypeOK
    <3>2. ASSUME NEW m \in Elems(todo["loop"]) PROVE m[1][1] # j /\ m[1][1] \in Call
      BY <2>1, <3>1 DEF Sent, Elems, Msg, Leg
    <3>3. ASSUME NEW m \in Elems(todo["loop"]), m[2] \in OpeningWord
          PROVE <<m[1][1], "in">> \in sessions'
      <4>1. <<m[1][1], "in">> \in sessions
        BY <1>1, <3>3 DEF OrphanFree, LoopKnows
      <4>2. <<m[1][1], "in">> \notin {<<j, "in">>, <<j, "out">>}
        BY <3>2, KeysApart
      <4> QED BY <2>1, <4>1, <4>2
    <3> QED BY <3>1, <3>3 DEF LoopKnows
  <2>4. LetGo(j)'
    BY <2>1, <2>2, LetGoByRelease
  <2>5. ASSUME NEW k \in Call, k # j, <<k, "in">> \notin sessions' PROVE LetGo(k)'
    <3>1. <<k, "in">> \notin sessions
      BY <2>1, <2>5, KeysApart
    <3>2. \A p \in Proc : Elems(todo[p]) \subseteq Elems(todo'[p])
      BY <2>2
    <3> QED BY <1>1, <2>1, <3>1, <3>2, LetGoStays DEF OrphanFree
  <2> QED BY <2>3, <2>4, <2>5 DEF OrphanFree
<1>7. ASSUME NEW p \in Proc, Enqueue(p) PROVE OrphanFree'
  <2>1. sessions' = sessions /\ \A x \in Proc : Elems(todo'[x]) \subseteq Elems(todo[x])
    BY <1>7, TailElems DEF Enqueue, TypeOK
  <2>2. LoopKnows'
    BY <1>1, <2>1 DEF OrphanFree, LoopKnows, Proc
  <2>3. ASSUME NEW k \in Call, <<k, "in">> \notin sessions PROVE LetGo(k)'
    BY <1>1, <1>7, <2>3, EnqueueLetGo DEF OrphanFree, OrphanInv
  <2> QED BY <2>1, <2>2, <2>3 DEF OrphanFree
<1>8. ASSUME Reconnect \/ UNCHANGED vars PROVE OrphanFree'
  <2>1. send' = send /\ todo' = todo /\ sessions' = sessions /\ caller' = caller /\ target' = target
    BY <1>8 DEF Reconnect, vars
  <2> QED BY <1>1, <2>1, LetGoStays DEF OrphanFree, LoopKnows
<1>9. ASSUME Cancel \/ Stop \/ Flap PROVE FALSE
  BY <1>9 DEF Cancel, Stop, Flap, Unbroken, TypeOK
<1> QED BY <1>2, <1>3, <1>4, <1>5, <1>6, <1>7, <1>8, <1>9 DEF Next

\* While no connection is lost and the bridge runs, a leg it has opened and no
\* longer has in its table has its release on the way: hang-ups, refusals and
\* time-outs in any order (handleLegFailure, sweep).
THEOREM NoOrphanLegs == Spec => []NoOrphan
<1>1. Init => OrphanInv
  <2> SUFFICES ASSUME Init PROVE OrphanInv
    OBVIOUS
  <2>1. /\ Elems(recv) = {} /\ \A p \in Proc : Elems(todo[p]) = {}
        /\ \A i \in DOMAIN send : FALSE
    BY ShortElems DEF Init
  <2>2. FailuresReal /\ OthersRelease /\ LoopKnows
    BY <2>1 DEF FailuresReal, OthersRelease, LoopKnows, Proc
  <2>3. \A k \in Call : LetGo(k)
    BY <2>1 DEF Init, LetGo, TargetActive
  <2> QED BY <2>2, <2>3 DEF OrphanInv
<1>2. TypeOK /\ OrphanInv /\ [Next]_vars => OrphanInv'
  BY FailuresStep, OthersStep, OrphanFreeStep DEF OrphanInv, OrphanFree
<1>3. TypeOK /\ OrphanInv => NoOrphan
  <2> SUFFICES ASSUME TypeOK, OrphanInv, Unbroken, NEW k \in Call, <<k, "in">> \notin sessions
               PROVE  /\ target[k] \in TargetActive => Pending(<<<<k, "out">>, "release">>)
                      /\ caller[k] \in {"ringing", "talking"} => Pending(<<<<k, "in">>, "release">>)
    BY DEF NoOrphan
  <2>1. LetGo(k)
    BY DEF OrphanInv
  <2>2. ASSUME NEW m, After(0, m) PROVE Pending(m)
    <3>1. /\ \A p \in Proc : todo[p] \in Seq(Msg) /\ DOMAIN todo[p] = 1..Len(todo[p])
          /\ DOMAIN send = 1..Len(send)
      BY DEF TypeOK
    <3> QED BY <2>2, <3>1 DEF After, Pending, Elems
  <2> QED BY <2>1, <2>2 DEF LetGo, ReleaseIn, ReleaseOut
<1> QED BY <1>1, <1>2, <1>3, ProxyTypeCorrect, PTL DEF Spec

-----------------------------------------------------------------------------
(* The promise to the two radios                                           *)

SetupIn(k) == <<<<k, "in">>, "setup">>
AcceptIn(k) == <<<<k, "in">>, "accept">>
SetupOut(k) == <<<<k, "out">>, "setup">>
ConnectOut(k) == <<<<k, "out">>, "connect">>
ConnectIn(k) == <<<<k, "in">>, "connect">>
ConfirmOut(k) == <<<<k, "out">>, "confirm">>

\* What the read loop has said and no radio has heard.
Sending == Elems(send) \cup Elems(todo["loop"])

\* A call that was taken was dialled, and nobody is rung or told of a call that
\* was not taken.
OnlyTaken ==
    \A k \in Call :
        /\ state[k] # "none" => caller[k] # "idle"
        /\ target[k] # "idle" => state[k] # "none"
        /\ AcceptIn(k) \in Sending => state[k] # "none"
        /\ SetupOut(k) \in Sending => state[k] # "none"

\* A call is set up once, and its setup is under way only before it is taken.
SetUpOnce ==
    \A k \in Call :
        /\ SetupIn(k) \in Elems(recv) => state[k] = "none" /\ caller[k] # "idle"
        /\ \A i, j \in DOMAIN recv : recv[i] = SetupIn(k) /\ recv[j] = SetupIn(k) => i = j

\* The caller has been told, or there is no target any more.
Told(k) == caller[k] \in {"talking", "over"} \/ target[k] = "over"

\* The target's word stands behind the caller's, wherever they are.
CallerFirst(k) ==
    /\ ConfirmOut(k) \in Sending => Picked(k)
    /\ ConfirmOut(k) \in Elems(todo["loop"]) =>
          \/ Told(k) \/ ConnectIn(k) \in Elems(send)
          \/ todo["loop"] = <<ConnectIn(k), ConfirmOut(k)>>
    /\ \A i \in DOMAIN send : send[i] = ConfirmOut(k) =>
          \/ Told(k)
          \/ \E j \in DOMAIN send : j < i /\ send[j] = ConnectIn(k)

PromiseInv ==
    /\ OthersRelease /\ NoEarlyWord /\ OnlyTaken /\ SetUpOnce
    /\ \A k \in Call : CallerFirst(k)

\* The words of a call are messages.
LEMMA PairWords ==
    ASSUME NEW k \in Call
    PROVE  /\ SetupIn(k) \in Msg /\ AcceptIn(k) \in Msg /\ SetupOut(k) \in Msg
           /\ ConnectOut(k) \in Msg /\ ConnectIn(k) \in Msg /\ ConfirmOut(k) \in Msg
BY MsgTypes DEF Word, SetupIn, AcceptIn, SetupOut, ConnectOut, ConnectIn, ConfirmOut

\* Where an opening word comes from: it was there, or the read loop says it of a
\* call it has just taken or whose answer it has just read.
LEMMA NewWords ==
    ASSUME TypeOK, OthersRelease, [Next]_vars, NEW m \in Msg,
           m[2] \notin {"reject", "release"}, m \in Sending'
    PROVE  \/ m \in Sending
           \/ \E k \in Call : m \in {AcceptIn(k), SetupOut(k)} /\ state'[k] # "none"
           \/ \E k \in Call : m \in {ConnectIn(k), ConfirmOut(k)} /\ ConnectOut(k) \in Elems(recv)
<1> DEFINE Goal == \/ m \in Sending
                   \/ \E k \in Call : m \in {AcceptIn(k), SetupOut(k)} /\ state'[k] # "none"
                   \/ \E k \in Call : m \in {ConnectIn(k), ConfirmOut(k)} /\ ConnectOut(k) \in Elems(recv)
<1>0. /\ send \in Seq(Msg) /\ \A p \in Proc : todo[p] \in Seq(Msg)
      /\ m \in Elems(send') \/ m \in Elems(todo'["loop"])
      /\ "loop" \in Proc
  BY DEF TypeOK, Sending, Proc
<1>1. ASSUME Elems(send') \subseteq Elems(send), Elems(todo'["loop"]) \subseteq Elems(todo["loop"])
      PROVE Goal
  BY <1>0, <1>1 DEF Sending
<1>2. ASSUME NEW q \in Seq(Msg), Say("loop", q), send' = send,
             m \in Elems(q) => \/ \E k \in Call : m \in {AcceptIn(k), SetupOut(k)} /\ state'[k] # "none"
                               \/ \E k \in Call : m \in {ConnectIn(k), ConfirmOut(k)} /\ ConnectOut(k) \in Elems(recv)
      PROVE Goal
  <2>1. todo'["loop"] = q
    BY <1>2 DEF Say, TypeOK, Proc
  <2> QED BY <1>0, <1>2, <2>1 DEF Sending
<1> HIDE DEF Goal
<1>3. ASSUME \/ \E j \in Call : \/ Dial(j) \/ CallerHangsUp(j)
                                \/ Answer(j) \/ Refuse(j) \/ TargetHangsUp(j)
             \/ Cancel \/ Reconnect \/ UNCHANGED vars
      PROVE Goal
  <2>1. send' = send /\ todo' = todo
    BY <1>3 DEF Dial, CallerHangsUp, CallerSays, Answer, Refuse, TargetHangsUp, TargetSays,
                ToBridge, bridge, Cancel, Reconnect, vars
  <2> QED BY <1>1, <2>1
<1>4. ASSUME Deliver \/ Flap PROVE Goal
  <2>1. todo' = todo /\ (send' = send \/ (send # <<>> /\ send' = Tail(send)))
    BY <1>4 DEF Deliver, Flap
  <2>2. Elems(send') \subseteq Elems(send)
    BY <1>0, <2>1, TailElems
  <2> QED BY <1>1, <2>1, <2>2
<1>5. ASSUME NEW x \in Proc, Enqueue(x) PROVE Goal
  <2>1. /\ todo[x] \in Seq(Msg) /\ todo[x] # <<>>
        /\ send' = Append(send, Head(todo[x]))
        /\ todo' = [todo EXCEPT ![x] = Tail(@)]
    BY <1>0, <1>5 DEF Enqueue
  <2>2. /\ Head(todo[x]) \in Msg /\ Head(todo[x]) \in Elems(todo[x])
        /\ Elems(Tail(todo[x])) \subseteq Elems(todo[x])
    BY <2>1, TailElems
  <2>3. Elems(send') \subseteq Elems(send) \cup {Head(todo[x])}
    BY <1>0, <2>1, <2>2, AppendElems
  <2>4. Elems(todo'["loop"]) \subseteq Elems(todo["loop"])
    BY <2>1, <2>2 DEF TypeOK, Proc
  <2>5. x # "loop" => Head(todo[x])[2] = "release"
    BY <2>2 DEF OthersRelease, Proc
  <2>6. m \in Sending
    BY <1>0, <2>2, <2>3, <2>4, <2>5 DEF Sending
  <2> QED BY <2>6 DEF Goal
<1>6. ASSUME \/ \E j \in Call : DialTimeout(j) \/ IdleTimeout(j)
             \/ Stop
      PROVE Goal
  <2>1. send' = send /\ (todo' = todo \/ \E x \in {"watchdog", "stop"} : \E q : Say(x, q))
    BY <1>6 DEF DialTimeout, IdleTimeout, SweepOne, Stop
  <2>2. todo'["loop"] = todo["loop"]
    BY <2>1 DEF Say, TypeOK, Proc
  <2> QED BY <1>1, <2>1, <2>2
<1>7. ASSUME NEW j \in Call, HandleInboundSetup(j) PROVE Goal
  <2> DEFINE q1 == << <<<<j, "in">>, "reject">> >>
             q2 == <<AcceptIn(j), SetupOut(j)>>
  <2>1. /\ q1 \in Seq(Msg) /\ q2 \in Seq(Msg)
        /\ Elems(q1) = {<<<<j, "in">>, "reject">>} /\ Elems(q2) = {AcceptIn(j), SetupOut(j)}
    BY PairWords, ShortElems DEF Msg, Leg, Word
  <2>2. OtherLeg(<<j, "in">>) = <<j, "out">>
    BY DEF OtherLeg
  <2>3. /\ send' = send
        /\ \/ todo' = todo
           \/ Say("loop", q1)
           \/ Say("loop", q2) /\ state' = [state EXCEPT ![j] = "dialing"]
    BY <1>7, <2>2 DEF HandleInboundSetup, Take, Ignore, AcceptIn, SetupOut
  <2> HIDE DEF q1, q2
  <2>4. CASE todo' = todo
    BY <1>1, <2>3, <2>4
  <2>5. CASE Say("loop", q1)
    <3>1. m \notin Elems(q1)
      BY <2>1
    <3> QED BY <1>2, <2>1, <2>3, <2>5, <3>1
  <2>6. CASE Say("loop", q2) /\ state' = [state EXCEPT ![j] = "dialing"]
    <3>1. state'[j] # "none"
      BY <2>6 DEF TypeOK
    <3> QED BY <1>2, <2>1, <2>3, <2>6, <3>1
  <2> QED BY <2>3, <2>4, <2>5, <2>6
<1>8. ASSUME NEW j \in Call, HandleOutboundAccept(j) PROVE Goal
  <2>1. send' = send /\ todo' = todo
    BY <1>8 DEF HandleOutboundAccept, Take, Ignore
  <2> QED BY <1>1, <2>1
<1>9. ASSUME NEW j \in Call, HandleOutboundConnect(j) PROVE Goal
  <2> DEFINE q == <<ConnectIn(j), ConfirmOut(j)>>
  <2>1. q \in Seq(Msg) /\ Elems(q) = {ConnectIn(j), ConfirmOut(j)}
    BY PairWords, ShortElems
  <2>2. Take(<<j, "out">>, "connect") /\ (todo' = todo \/ Say("loop", q))
    BY <1>9 DEF HandleOutboundConnect, AnswerWords, Ignore, ConnectIn, ConfirmOut
  <2>3. send' = send /\ ConnectOut(j) \in Elems(recv)
    BY <2>2, TakeTypes, MsgTypes DEF ConnectOut, Word
  <2> HIDE DEF q
  <2> QED BY <1>1, <1>2, <2>1, <2>2, <2>3
<1>10. ASSUME NEW j \in Call, NEW side \in {"in", "out"}, NEW w \in {"reject", "release"},
              HandleLegFailure(<<j, side>>, w)
       PROVE Goal
  <2> DEFINE q == << <<OtherLeg(<<j, side>>), "release">> >>
  <2>1. q \in Seq(Msg) /\ Elems(q) = {<<OtherLeg(<<j, side>>), "release">>}
    BY ShortElems DEF Msg, Leg, Word, OtherLeg
  <2>2. send' = send /\ (todo' = todo \/ Say("loop", q))
    BY <1>10 DEF HandleLegFailure, Take, Ignore
  <2>3. m \notin Elems(q)
    BY <2>1
  <2> HIDE DEF q
  <2> QED BY <1>1, <1>2, <2>1, <2>2, <2>3
<1> QED BY <1>3, <1>4, <1>5, <1>6, <1>7, <1>8, <1>9, <1>10 DEF Next, Handle, Goal

\* What the radios have done and what was taken stays so.
LEMMA PromiseForward ==
    ASSUME TypeOK, [Next]_vars, NEW k \in Call
    PROVE  /\ state[k] # "none" => state'[k] # "none"
           /\ caller[k] # "idle" => caller'[k] # "idle"
           /\ Told(k) => Told(k)'
<1> DEFINE Goal == /\ state[k] # "none" => state'[k] # "none"
                   /\ caller[k] # "idle" => caller'[k] # "idle"
                   /\ Told(k) => Told(k)'
<1> USE DEF TargetActive, CallerActive, Told
<1>1. ASSUME NEW j \in Call, \/ Dial(j) \/ CallerHangsUp(j)
                             \/ Answer(j) \/ Refuse(j) \/ TargetHangsUp(j)
      PROVE Goal
  BY <1>1 DEF Dial, CallerHangsUp, CallerSays, Answer, Refuse, TargetHangsUp, TargetSays,
              ToBridge, bridge, TypeOK
<1>2. ASSUME Deliver PROVE Goal
  BY <1>2 DEF Deliver, TypeOK
<1>3. ASSUME Flap PROVE Goal
  BY <1>3 DEF Flap, OnDisconnect
<1>4. ASSUME Handle PROVE Goal
  BY <1>4 DEF Handle, HandleInboundSetup, HandleOutboundAccept, HandleOutboundConnect,
              HandleLegFailure, Take, Ignore, TypeOK
<1>5. ASSUME \/ \E j \in Call : DialTimeout(j) \/ IdleTimeout(j)
             \/ \E p \in Proc : Enqueue(p)
             \/ Cancel \/ Stop \/ Reconnect \/ UNCHANGED vars
      PROVE Goal
  BY <1>5 DEF DialTimeout, IdleTimeout, SweepOne, Enqueue, Cancel, Stop, Reconnect, vars
<1> QED BY <1>1, <1>2, <1>3, <1>4, <1>5 DEF Next

\* A call is taken by its setup, when there is room.
LEMMA StateMoves ==
    ASSUME TypeOK, [Next]_vars, NEW k \in Call, state[k] = "none", state'[k] # "none"
    PROVE  HandleInboundSetup(k)
<1>1. ASSUME NEW j \in Call, HandleInboundSetup(j) PROVE HandleInboundSetup(k)
  <2>1. state' = state \/ state' = [state EXCEPT ![j] = "dialing"]
    BY <1>1 DEF HandleInboundSetup, Ignore
  <2>2. j = k
    BY <2>1 DEF TypeOK
  <2> QED BY <1>1, <2>2
<1>2. ASSUME NEW j \in Call, HandleOutboundConnect(j) PROVE FALSE
  <2>1. \/ state' = state
        \/ <<j, "out">> \in sessions /\ state' = [state EXCEPT ![j] = "connected"]
    BY <1>2 DEF HandleOutboundConnect, Ignore
  <2> QED BY <2>1 DEF TypeOK
<1>3. ASSUME \/ \E j \in Call : \/ Dial(j) \/ CallerHangsUp(j)
                                \/ Answer(j) \/ Refuse(j) \/ TargetHangsUp(j)
                                \/ DialTimeout(j) \/ IdleTimeout(j) \/ HandleOutboundAccept(j)
             \/ \E p \in Proc : Enqueue(p)
             \/ Deliver \/ Cancel \/ Stop \/ Flap \/ Reconnect \/ UNCHANGED vars
      PROVE FALSE
  <2>1. state' = state
    BY <1>3 DEF Dial, CallerHangsUp, CallerSays, Answer, Refuse, TargetHangsUp, TargetSays,
                ToBridge, bridge, DialTimeout, IdleTimeout, SweepOne, HandleOutboundAccept,
                Ignore, Enqueue, Deliver, Cancel, Stop, Flap, Reconnect, vars
  <2> QED BY <2>1
<1>4. ASSUME NEW l, NEW w, HandleLegFailure(l, w) PROVE FALSE
  BY <1>4 DEF HandleLegFailure, Ignore
<1> QED BY <1>1, <1>2, <1>3, <1>4 DEF Next, Handle

\* A target starts to ring when its setup is delivered.
LEMMA TargetMoves ==
    ASSUME TypeOK, [Next]_vars, NEW k \in Call, target[k] = "idle", target'[k] # "idle"
    PROVE  SetupOut(k) \in Elems(send)
<1> USE DEF TargetActive
<1>1. ASSUME Deliver PROVE SetupOut(k) \in Elems(send)
  <2>1. send \in Seq(Msg) /\ send # <<>>
    BY <1>1 DEF Deliver, TypeOK
  <2>2. Head(send) \in Msg /\ Head(send) \in Elems(send)
    BY <2>1, TailElems
  <2>3. Head(send)[1][1] = k /\ Head(send)[1][2] # "in" /\ Head(send)[2] = "setup"
    BY <1>1 DEF Deliver, TypeOK
  <2>4. Head(send) = SetupOut(k)
    BY <2>2, <2>3 DEF Msg, Leg, SetupOut
  <2> QED BY <2>2, <2>4
<1>2. ASSUME \/ \E j \in Call : Answer(j) \/ Refuse(j) \/ TargetHangsUp(j)
             \/ Flap
      PROVE FALSE
  BY <1>2 DEF Answer, Refuse, TargetHangsUp, TargetSays, Flap, OnDisconnect, TypeOK
<1>3. ASSUME \/ \E j \in Call : \/ Dial(j) \/ CallerHangsUp(j)
                                \/ DialTimeout(j) \/ IdleTimeout(j)
             \/ Handle
             \/ \E p \in Proc : Enqueue(p)
             \/ Cancel \/ Stop \/ Reconnect \/ UNCHANGED vars
      PROVE FALSE
  <2>1. ASSUME Handle PROVE target' = target
    BY <2>1 DEF Handle, HandleInboundSetup, HandleOutboundAccept, HandleOutboundConnect,
                HandleLegFailure, Take
  <2>2. target' = target
    BY <1>3, <2>1 DEF Dial, CallerHangsUp, CallerSays, DialTimeout, IdleTimeout,
                SweepOne, Enqueue, Cancel, Stop, Reconnect, vars
  <2> QED BY <2>2
<1> QED BY <1>1, <1>2, <1>3 DEF Next

\* What happens to the messages on their way to the bridge: they stay, they are
\* lost, one is taken, or one arrives, a setup only with its dialling.
LEMMA RecvMoves ==
    ASSUME TypeOK, [Next]_vars, NEW k \in Call
    PROVE  \/ recv' = recv \/ recv' = <<>>
           \/ recv # <<>> /\ recv' = Tail(recv)
           \/ \E m \in Msg : /\ recv' = Append(recv, m)
                             /\ m = SetupIn(k) => caller[k] = "idle" /\ caller'[k] # "idle"
<1> DEFINE Goal == \/ recv' = recv \/ recv' = <<>>
                   \/ recv # <<>> /\ recv' = Tail(recv)
                   \/ \E m \in Msg : /\ recv' = Append(recv, m)
                                     /\ m = SetupIn(k) => caller[k] = "idle" /\ caller'[k] # "idle"
<1>1. ASSUME NEW j \in Call, Dial(j) PROVE Goal
  <2>1. /\ SetupIn(j) \in Msg
        /\ recv' = recv \/ recv' = Append(recv, SetupIn(j))
        /\ caller[j] = "idle" /\ caller'[j] = "calling"
    BY <1>1, PairWords DEF Dial, CallerSays, ToBridge, SetupIn, TypeOK
  <2>2. SetupIn(j) = SetupIn(k) => j = k
    BY DEF SetupIn
  <2> QED BY <2>1, <2>2
<1>2. ASSUME NEW j \in Call, \/ CallerHangsUp(j) \/ Answer(j) \/ Refuse(j) \/ TargetHangsUp(j)
      PROVE Goal
  <2>1. PICK side \in {"in", "out"}, w \in {"release", "connect", "reject"} : ToBridge(j, side, w)
    BY <1>2 DEF CallerHangsUp, CallerSays, Answer, Refuse, TargetHangsUp, TargetSays
  <2> DEFINE m == <<<<j, side>>, w>>
  <2>2. m \in Msg /\ m # SetupIn(k) /\ (recv' = recv \/ recv' = Append(recv, m))
    BY <2>1 DEF ToBridge, SetupIn, Msg, Leg, Word
  <2> HIDE DEF m
  <2> QED BY <2>2
<1>3. ASSUME Deliver PROVE Goal
  <2> DEFINE m == <<<<Head(send)[1][1], "out">>, "accept">>
  <2>1. Head(send) \in Msg
    BY <1>3, TailElems DEF Deliver, TypeOK
  <2>2. m \in Msg /\ m # SetupIn(k) /\ (recv' = recv \/ recv' = Append(recv, m))
    BY <1>3, <2>1 DEF Deliver, SetupIn, Msg, Leg, Word
  <2> HIDE DEF m
  <2> QED BY <2>2
<1>4. ASSUME Handle PROVE Goal
  BY <1>4 DEF Handle, HandleInboundSetup, HandleOutboundAccept, HandleOutboundConnect,
              HandleLegFailure, Take
<1>5. ASSUME Flap PROVE Goal
  BY <1>5 DEF Flap
<1>6. ASSUME \/ \E j \in Call : DialTimeout(j) \/ IdleTimeout(j)
             \/ \E p \in Proc : Enqueue(p)
             \/ Cancel \/ Stop \/ Reconnect \/ UNCHANGED vars
      PROVE Goal
  BY <1>6 DEF DialTimeout, IdleTimeout, SweepOne, Enqueue, Cancel, Stop, Reconnect, vars
<1> QED BY <1>1, <1>2, <1>3, <1>4, <1>5, <1>6 DEF Next

\* Setups and rings stay those of calls that were dialled and taken.
LEMMA OnlyTakenStep ==
    ASSUME TypeOK, PromiseInv, [Next]_vars
    PROVE  OnlyTaken'
<1> SUFFICES ASSUME NEW k \in Call
             PROVE  /\ state'[k] # "none" => caller'[k] # "idle"
                    /\ target'[k] # "idle" => state'[k] # "none"
                    /\ AcceptIn(k) \in Sending' => state'[k] # "none"
                    /\ SetupOut(k) \in Sending' => state'[k] # "none"
  BY DEF OnlyTaken, AcceptIn, SetupOut
<1>0. /\ state[k] # "none" => state'[k] # "none"
      /\ caller[k] # "idle" => caller'[k] # "idle"
  BY PromiseForward
<1>1. ASSUME state'[k] # "none" PROVE caller'[k] # "idle"
  <2>1. CASE state[k] # "none"
    BY <1>0, <2>1 DEF PromiseInv, OnlyTaken
  <2>2. CASE state[k] = "none"
    <3>1. Take(<<k, "in">>, "setup")
      BY <1>1, <2>2, StateMoves DEF HandleInboundSetup
    <3>2. SetupIn(k) \in Elems(recv)
      BY <3>1, TakeTypes, MsgTypes DEF SetupIn, Word
    <3> QED BY <1>0, <3>2 DEF PromiseInv, SetUpOnce
  <2> QED BY <2>1, <2>2
<1>2. ASSUME target'[k] # "idle" PROVE state'[k] # "none"
  <2>1. CASE target[k] # "idle"
    BY <1>0, <2>1 DEF PromiseInv, OnlyTaken
  <2>2. CASE target[k] = "idle"
    BY <1>0, <1>2, <2>2, TargetMoves DEF PromiseInv, OnlyTaken, Sending
  <2> QED BY <2>1, <2>2
<1>3. ASSUME NEW m \in {AcceptIn(k), SetupOut(k)}, m \in Sending' PROVE state'[k] # "none"
  <2>1. m \in Msg
    BY PairWords
  <2>2. m[2] \notin {"reject", "release"}
    BY DEF AcceptIn, SetupOut
  <2>3. \/ m \in Sending
        \/ \E j \in Call : m \in {AcceptIn(j), SetupOut(j)} /\ state'[j] # "none"
        \/ \E j \in Call : m \in {ConnectIn(j), ConfirmOut(j)}
    BY <1>3, <2>1, <2>2, NewWords DEF PromiseInv
  <2>4. CASE m \in Sending
    BY <1>0, <2>4 DEF PromiseInv, OnlyTaken
  <2>5. ASSUME NEW j \in Call, m \in {AcceptIn(j), SetupOut(j)}, state'[j] # "none"
        PROVE state'[k] # "none"
    BY <2>5 DEF AcceptIn, SetupOut
  <2>6. ASSUME NEW j \in Call, m \in {ConnectIn(j), ConfirmOut(j)} PROVE FALSE
    BY <2>6 DEF AcceptIn, SetupOut, ConnectIn, ConfirmOut
  <2> QED BY <2>3, <2>4, <2>5, <2>6
<1> QED BY <1>1, <1>2, <1>3

\* A call's setup is on its way once at most, and never after it was taken.
LEMMA SetUpOnceStep ==
    ASSUME TypeOK, PromiseInv, [Next]_vars
    PROVE  SetUpOnce'
<1> SUFFICES ASSUME NEW k \in Call
             PROVE  /\ SetupIn(k) \in Elems(recv') => state'[k] = "none" /\ caller'[k] # "idle"
                    /\ \A i, j \in DOMAIN recv' :
                          recv'[i] = SetupIn(k) /\ recv'[j] = SetupIn(k) => i = j
  BY DEF SetUpOnce, SetupIn, Elems
<1> DEFINE s == SetupIn(k)
           Once(q) == \A i, j \in DOMAIN q : q[i] = s /\ q[j] = s => i = j
<1>0. /\ recv \in Seq(Msg) /\ s \in Msg
      /\ s \in Elems(recv) => state[k] = "none" /\ caller[k] # "idle"
      /\ Once(recv)
      /\ caller[k] # "idle" => caller'[k] # "idle"
      /\ state[k] # "none" => caller[k] # "idle"
  BY PairWords, PromiseForward DEF TypeOK, PromiseInv, SetUpOnce, OnlyTaken
<1> HIDE DEF s
<1>1. ASSUME state[k] = "none", state'[k] # "none"
      PROVE  recv # <<>> /\ Head(recv) = s /\ recv' = Tail(recv)
  BY <1>1, StateMoves DEF HandleInboundSetup, Take, SetupIn, s
<1>2. ASSUME recv # <<>>, recv' = Tail(recv)
      PROVE  /\ s \in Elems(recv') => s \in Elems(recv) /\ (Head(recv) = s => FALSE)
             /\ Once(recv')
  <2>1. /\ Len(recv) \in Nat \ {0} /\ DOMAIN recv = 1..Len(recv) /\ Head(recv) = recv[1]
        /\ DOMAIN recv' = 1..(Len(recv) - 1)
        /\ \A i \in DOMAIN recv' : i + 1 \in DOMAIN recv /\ recv'[i] = recv[i + 1]
    BY <1>0, <1>2
  <2>2. ASSUME NEW i \in DOMAIN recv', recv'[i] = s
        PROVE  s \in Elems(recv) /\ Head(recv) # s
    <3>1. /\ i + 1 \in DOMAIN recv /\ recv[i + 1] = s /\ 1 \in DOMAIN recv /\ i + 1 # 1
      BY <2>1, <2>2
    <3> QED BY <1>0, <2>1, <3>1 DEF Elems
  <2>3. ASSUME NEW i \in DOMAIN recv', NEW j \in DOMAIN recv', recv'[i] = s, recv'[j] = s
        PROVE  i = j
    <3>1. i + 1 \in DOMAIN recv /\ j + 1 \in DOMAIN recv /\ recv[i + 1] = s /\ recv[j + 1] = s
      BY <2>1, <2>3
    <3>2. i + 1 = j + 1
      BY <1>0, <3>1
    <3> QED BY <2>1, <3>2
  <2> QED BY <2>2, <2>3 DEF Elems
<1>3. ASSUME NEW m \in Msg, recv' = Append(recv, m),
             m = s => caller[k] = "idle" /\ caller'[k] # "idle"
      PROVE  /\ s \in Elems(recv') => s \in Elems(recv) \/ m = s
             /\ Once(recv')
  <2>1. Elems(recv') \subseteq Elems(recv) \cup {m}
    BY <1>0, <1>3, AppendElems
  <2>2. /\ Len(recv) \in Nat /\ DOMAIN recv = 1..Len(recv)
        /\ DOMAIN recv' = 1..(Len(recv) + 1)
        /\ \A i \in DOMAIN recv : recv'[i] = recv[i]
        /\ recv'[Len(recv) + 1] = m
    BY <1>0, <1>3
  <2>3. Once(recv')
    <3>1. CASE m # s
      BY <1>0, <2>2, <3>1
    <3>2. CASE m = s
      <4>1. \A i \in DOMAIN recv : recv[i] # s
        BY <1>0, <1>3, <3>2 DEF Elems
      <4> QED BY <2>2, <4>1
    <3> QED BY <3>1, <3>2
  <2> QED BY <2>1, <2>3
<1>4. \/ recv' = recv \/ recv' = <<>>
      \/ recv # <<>> /\ recv' = Tail(recv)
      \/ \E m \in Msg : /\ recv' = Append(recv, m)
                        /\ m = s => caller[k] = "idle" /\ caller'[k] # "idle"
  BY RecvMoves DEF s
<1>5. CASE recv' = recv \/ (\E m \in Msg : /\ recv' = Append(recv, m)
                                           /\ m = s => caller[k] = "idle" /\ caller'[k] # "idle")
  <2>1. state[k] = "none" => state'[k] = "none"
    <3>1. ASSUME recv # <<>> PROVE recv' # Tail(recv)
      <4>1. Len(Tail(recv)) = Len(recv) - 1 /\ Len(recv) \in Nat
        BY <1>0, <3>1
      <4>2. Len(recv') \in {Len(recv), Len(recv) + 1}
        BY <1>0, <1>5
      <4> QED BY <4>1, <4>2
    <3> QED BY <1>1, <3>1
  <2>2. CASE recv' = recv
    BY <1>0, <2>1, <2>2 DEF s
  <2>3. ASSUME NEW m \in Msg, recv' = Append(recv, m),
               m = s => caller[k] = "idle" /\ caller'[k] # "idle"
        PROVE  /\ s \in Elems(recv') => state'[k] = "none" /\ caller'[k] # "idle"
               /\ Once(recv')
    BY <1>0, <1>3, <2>1, <2>3
  <2> QED BY <1>5, <2>2, <2>3 DEF s
<1>6. CASE recv' = <<>>
  BY <1>6 DEF Elems
<1>7. CASE recv # <<>> /\ recv' = Tail(recv)
  <2>1. s \in Elems(recv') => state'[k] = "none" /\ caller'[k] # "idle"
    BY <1>0, <1>1, <1>2, <1>7
  <2> QED BY <1>2, <1>7, <2>1 DEF s
<1> QED BY <1>4, <1>5, <1>6, <1>7

\* Where the target's word of a call can stand after the read loop has handled a
\* message: it has been said just now, behind the caller's.
LEMMA LoopWords ==
    ASSUME TypeOK, Handle, NEW k \in Call
    PROVE  /\ send' = send
           /\ ConfirmOut(k) \in Elems(todo'["loop"]) => todo'["loop"] = <<ConnectIn(k), ConfirmOut(k)>>
<1> DEFINE Goal == /\ send' = send
                   /\ ConfirmOut(k) \in Elems(todo'["loop"]) =>
                         todo'["loop"] = <<ConnectIn(k), ConfirmOut(k)>>
<1>0. "loop" \in Proc
  BY DEF Proc
<1>1. ASSUME NEW l, NEW w, Take(l, w),
             \/ todo' = todo
             \/ \E q : /\ Say("loop", q)
                       /\ ConfirmOut(k) \in Elems(q) => q = <<ConnectIn(k), ConfirmOut(k)>>
      PROVE Goal
  BY <1>0, <1>1, ShortElems DEF Take, Say, TypeOK
<1>2. ASSUME NEW j \in Call, HandleInboundSetup(j) PROVE Goal
  <2> DEFINE q1 == << <<<<j, "in">>, "reject">> >>
             q2 == << <<<<j, "in">>, "accept">>, <<OtherLeg(<<j, "in">>), "setup">> >>
  <2>1. Take(<<j, "in">>, "setup") /\ (todo' = todo \/ Say("loop", q1) \/ Say("loop", q2))
    BY <1>2 DEF HandleInboundSetup, Ignore
  <2>2. ConfirmOut(k) \notin Elems(q1) /\ ConfirmOut(k) \notin Elems(q2)
    BY ShortElems DEF ConfirmOut
  <2> HIDE DEF q1, q2, Goal
  <2> QED BY <1>1, <2>1, <2>2
<1>3. ASSUME NEW j \in Call, HandleOutboundAccept(j) PROVE Goal
  <2>1. Take(<<j, "out">>, "accept") /\ todo' = todo
    BY <1>3 DEF HandleOutboundAccept, Ignore
  <2> HIDE DEF Goal
  <2> QED BY <1>1, <2>1
<1>4. ASSUME NEW j \in Call, HandleOutboundConnect(j) PROVE Goal
  <2> DEFINE q == <<ConnectIn(j), ConfirmOut(j)>>
  <2>1. Take(<<j, "out">>, "connect") /\ (todo' = todo \/ Say("loop", q))
    BY <1>4 DEF HandleOutboundConnect, AnswerWords, Ignore, ConnectIn, ConfirmOut
  <2>2. Elems(q) = {ConnectIn(j), ConfirmOut(j)}
    BY ShortElems
  <2>3. ConfirmOut(k) \in Elems(q) => j = k
    BY <2>2 DEF ConfirmOut, ConnectIn
  <2>4. ConfirmOut(k) \in Elems(q) => q = <<ConnectIn(k), ConfirmOut(k)>>
    BY <2>3
  <2> HIDE DEF q, Goal
  <2> QED BY <1>1, <2>1, <2>4
<1>5. ASSUME NEW j \in Call, NEW side \in {"in", "out"}, NEW w \in {"reject", "release"},
             HandleLegFailure(<<j, side>>, w)
      PROVE Goal
  <2> DEFINE q == << <<OtherLeg(<<j, side>>), "release">> >>
  <2>1. Take(<<j, side>>, w) /\ (todo' = todo \/ Say("loop", q))
    BY <1>5 DEF HandleLegFailure, Ignore
  <2>2. ConfirmOut(k) \notin Elems(q)
    BY ShortElems DEF ConfirmOut
  <2> HIDE DEF q, Goal
  <2> QED BY <1>1, <2>1, <2>2
<1> QED BY <1>2, <1>3, <1>4, <1>5 DEF Handle

\* When the caller's word is delivered, the caller has been told.
LEMMA CallerTold ==
    ASSUME TypeOK, PromiseInv, Deliver, NEW k \in Call, Head(send) = ConnectIn(k)
    PROVE  Told(k)'
<1>1. send \in Seq(Msg) /\ send # <<>>
  BY DEF Deliver, TypeOK
<1>2. ConnectIn(k) \in Elems(send)
  BY <1>1, TailElems
<1>3. Picked(k)
  BY <1>2 DEF ConnectIn, PromiseInv, NoEarlyWord
<1>4. caller[k] # "idle"
  BY <1>3 DEF Picked, PromiseInv, OnlyTaken
<1>5. caller'[k] \in {"talking", "over"}
  <2>1. /\ Head(send)[1][1] = k /\ Head(send)[1][2] = "in" /\ Head(send)[2] = "connect"
    BY DEF ConnectIn
  <2>2. caller'[k] = IF caller[k] \notin CallerActive THEN caller[k] ELSE "talking"
    BY <2>1 DEF Deliver, TypeOK
  <2> QED BY <1>4, <2>2 DEF TypeOK, CallerActive
<1> QED BY <1>5 DEF Told

\* The target's word stays behind the caller's on the way through the queues.
LEMMA CallerFirstStep ==
    ASSUME TypeOK, PromiseInv, [Next]_vars, NEW k \in Call
    PROVE  CallerFirst(k)'
<1> DEFINE c == ConfirmOut(k)
           n == ConnectIn(k)
           InTodo == c \in Elems(todo'["loop"]) =>
                        Told(k)' \/ n \in Elems(send') \/ todo'["loop"] = <<n, c>>
           InSend == \A i \in DOMAIN send' : send'[i] = c =>
                        Told(k)' \/ \E j \in DOMAIN send' : j < i /\ send'[j] = n
<1>0. /\ send \in Seq(Msg) /\ todo["loop"] \in Seq(Msg) /\ c \in Msg /\ n \in Msg
      /\ Len(send) \in Nat /\ DOMAIN send = 1..Len(send) /\ c # n
      /\ "loop" \in Proc
      /\ c \in Sending => Picked(k)
      /\ c \in Elems(todo["loop"]) => Told(k) \/ n \in Elems(send) \/ todo["loop"] = <<n, c>>
      /\ \A i \in DOMAIN send : send[i] = c => Told(k) \/ \E j \in DOMAIN send : j < i /\ send[j] = n
      /\ Told(k) => Told(k)'
      /\ Picked(k) => Picked(k)'
  <2>1. c # n
    BY DEF ConfirmOut, ConnectIn
  <2>2. CallerFirst(k)
    BY DEF PromiseInv
  <2>3. c \in Msg /\ n \in Msg
    BY PairWords
  <2>4. send \in Seq(Msg) /\ todo["loop"] \in Seq(Msg) /\ "loop" \in Proc
    BY DEF TypeOK, Proc
  <2>5. (Told(k) => Told(k)') /\ (Picked(k) => Picked(k)')
    BY PromiseForward, PickedStays
  <2> HIDE DEF c, n
  <2>6. Len(send) \in Nat /\ DOMAIN send = 1..Len(send)
    BY <2>4
  <2> QED BY <2>1, <2>2, <2>3, <2>4, <2>5, <2>6 DEF CallerFirst, c, n
<1>1. ASSUME c \in Sending' PROVE Picked(k)'
  <2>1. c[2] \notin {"reject", "release"}
    BY DEF ConfirmOut
  <2>2. \/ c \in Sending
        \/ \E j \in Call : c \in {AcceptIn(j), SetupOut(j)}
        \/ \E j \in Call : c \in {ConnectIn(j), ConfirmOut(j)} /\ ConnectOut(j) \in Elems(recv)
    <3> HIDE DEF c
    <3> QED BY <1>0, <1>1, <2>1, NewWords DEF PromiseInv
  <2>3. ASSUME NEW j \in Call, c \in {AcceptIn(j), SetupOut(j)} PROVE FALSE
    BY <2>3 DEF AcceptIn, SetupOut, ConfirmOut
  <2>4. ASSUME NEW j \in Call, c \in {ConnectIn(j), ConfirmOut(j)}, ConnectOut(j) \in Elems(recv)
        PROVE Picked(k)
    <3>1. j = k
      BY <2>4 DEF ConnectIn, ConfirmOut
    <3> QED BY <2>4, <3>1 DEF ConnectOut, PromiseInv, NoEarlyWord
  <2> QED BY <1>0, <2>2, <2>3, <2>4
<1> HIDE DEF c, n
<1>2. ASSUME send' = send, todo'["loop"] = todo["loop"] PROVE InTodo /\ InSend
  BY <1>0, <1>2
<1>3. ASSUME Told(k)' PROVE InTodo /\ InSend
  BY <1>3
<1>4. ASSUME Deliver PROVE InTodo /\ InSend
  <2>1. send # <<>> /\ send' = Tail(send) /\ todo' = todo
    BY <1>4 DEF Deliver
  <2>2. CASE Head(send) = n
    BY <1>3, <1>4, <2>2, CallerTold DEF n
  <2>3. CASE Head(send) # n
    <3>1. /\ Len(send) \in Nat \ {0} /\ Head(send) = send[1]
          /\ DOMAIN send' = 1..(Len(send) - 1)
          /\ \A i \in DOMAIN send' : i + 1 \in DOMAIN send /\ send'[i] = send[i + 1]
      BY <1>0, <2>1
    <3>2. ASSUME NEW j \in DOMAIN send, send[j] = n
          PROVE  j - 1 \in DOMAIN send' /\ send'[j - 1] = n
      <4>1. j # 1 /\ j \in 1..Len(send)
        BY <1>0, <2>3, <3>1, <3>2
      <4>2. j - 1 \in DOMAIN send' /\ (j - 1) + 1 = j
        BY <3>1, <4>1
      <4> QED BY <3>1, <3>2, <4>2
    <3>3. InTodo
      BY <1>0, <2>1, <3>2 DEF Elems
    <3>4. ASSUME NEW i \in DOMAIN send', send'[i] = c, ~Told(k)'
          PROVE  \E j \in DOMAIN send' : j < i /\ send'[j] = n
      <4>1. i + 1 \in DOMAIN send /\ send[i + 1] = c /\ i \in Nat
        BY <3>1, <3>4
      <4>2. PICK j \in DOMAIN send : j < i + 1 /\ send[j] = n
        BY <1>0, <3>4, <4>1
      <4>3. j - 1 < i /\ j - 1 \in DOMAIN send' /\ send'[j - 1] = n
        BY <1>0, <3>2, <4>1, <4>2
      <4> QED BY <4>3
    <3> QED BY <3>3, <3>4
  <2> QED BY <2>2, <2>3
<1>5. ASSUME Flap PROVE InTodo /\ InSend
  <2>1. todo' = todo /\ (send' = send \/ (send # <<>> /\ send' = Tail(send)))
    BY <1>5 DEF Flap
  <2>2. Elems(send') \subseteq Elems(send)
    BY <1>0, <2>1, TailElems
  <2>3. ASSUME c \in Sending PROVE Told(k)'
    BY <1>0, <1>5, <2>3 DEF Flap, OnDisconnect, Picked, Told, TargetActive
  <2>4. ASSUME c \notin Sending PROVE InTodo /\ InSend
    <3>1. c \notin Elems(send') /\ c \notin Elems(todo'["loop"])
      BY <2>1, <2>2, <2>4 DEF Sending
    <3> QED BY <3>1 DEF Elems
  <2> QED BY <1>3, <2>3, <2>4
<1>6. ASSUME NEW p \in Proc, Enqueue(p) PROVE InTodo /\ InSend
  <2>1. /\ todo[p] \in Seq(Msg) /\ todo[p] # <<>>
        /\ send' = Append(send, Head(todo[p]))
        /\ p # "loop" => todo'["loop"] = todo["loop"]
        /\ p = "loop" => todo'["loop"] = Tail(todo["loop"])
    BY <1>0, <1>6 DEF Enqueue, TypeOK
  <2>2. /\ Head(todo[p]) \in Msg /\ Head(todo[p]) \in Elems(todo[p])
        /\ Elems(Tail(todo[p])) \subseteq Elems(todo[p])
    BY <2>1, TailElems
  <2>3. /\ DOMAIN send' = 1..(Len(send) + 1)
        /\ \A i \in DOMAIN send : send'[i] = send[i]
        /\ send'[Len(send) + 1] = Head(todo[p])
    BY <1>0, <2>1, <2>2
  <2>4. /\ Elems(send) \subseteq Elems(send') /\ Head(todo[p]) \in Elems(send')
    BY <1>0, <2>3 DEF Elems
  <2>5. Head(todo[p]) = c => p = "loop" /\ c \in Elems(todo["loop"])
    BY <2>2 DEF PromiseInv, OthersRelease, Proc, c, ConfirmOut
  <2>6. todo["loop"] = <<n, c>> => Head(todo["loop"]) = n
    OBVIOUS
  <2>7. InTodo
    BY <1>0, <2>1, <2>2, <2>4, <2>6
  <2>8. ASSUME NEW i \in DOMAIN send', send'[i] = c, ~Told(k)'
        PROVE  \E j \in DOMAIN send' : j < i /\ send'[j] = n
    <3>1. CASE i \in DOMAIN send
      BY <1>0, <2>3, <2>8, <3>1
    <3>2. CASE i \notin DOMAIN send
      <4>1. i = Len(send) + 1 /\ Head(todo[p]) = c
        BY <1>0, <2>3, <2>8, <3>2
      <4>2. n \in Elems(send)
        BY <1>0, <2>5, <2>6, <2>8, <4>1
      <4>3. PICK j \in DOMAIN send : send[j] = n
        BY <4>2 DEF Elems
      <4>4. j \in DOMAIN send' /\ j < i /\ send'[j] = n
        BY <1>0, <2>3, <4>1, <4>3
      <4> QED BY <4>4
    <3> QED BY <3>1, <3>2
  <2> QED BY <2>7, <2>8
<1>7. ASSUME Handle PROVE InTodo /\ InSend
  BY <1>0, <1>7, LoopWords DEF c, n
<1>8. ASSUME \/ \E j \in Call : \/ Dial(j) \/ CallerHangsUp(j)
                                \/ Answer(j) \/ Refuse(j) \/ TargetHangsUp(j)
             \/ Cancel \/ Reconnect \/ UNCHANGED vars
      PROVE InTodo /\ InSend
  <2>1. send' = send /\ todo' = todo
    BY <1>8 DEF Dial, CallerHangsUp, CallerSays, Answer, Refuse, TargetHangsUp, TargetSays,
                ToBridge, bridge, Cancel, Reconnect, vars
  <2> QED BY <1>2, <2>1
<1>9. ASSUME (\E j \in Call : DialTimeout(j) \/ IdleTimeout(j)) \/ Stop PROVE InTodo /\ InSend
  <2>1. send' = send /\ (todo' = todo \/ \E x \in {"watchdog", "stop"} : \E q : Say(x, q))
    BY <1>9 DEF DialTimeout, IdleTimeout, SweepOne, Stop
  <2>2. todo'["loop"] = todo["loop"]
    BY <2>1 DEF Say, TypeOK, Proc
  <2> QED BY <1>2, <2>1, <2>2
<1>10. InTodo /\ InSend
  <2> HIDE DEF InTodo, InSend
  <2> QED BY <1>4, <1>5, <1>6, <1>7, <1>8, <1>9 DEF Next
<1> QED BY <1>1, <1>10 DEF CallerFirst, c, n, ConfirmOut, ConnectIn, Elems

-----------------------------------------------------------------------------
(* Every step is one of the promise, or none                               *)

\* What the bridge has made of each call.
Made == [k \in Call |-> IF <<k, "in">> \in sessions THEN "open"
                        ELSE IF state[k] = "none" THEN "none" ELSE "closed"]

\* The calls that are open are the sessions that are counted.
LEMMA OpenCalls ==
    ASSUME TypeOK
    PROVE  SessionCount = Cardinality({k \in Call : Made[k] = "open"})
<1>1. \A k \in Call : (\E side \in {"in", "out"} : <<k, side>> \in sessions) <=> Made[k] = "open"
  BY DEF TypeOK, Made
<1>2. {k \in Call : \E side \in {"in", "out"} : <<k, side>> \in sessions}
        = {k \in Call : Made[k] = "open"}
  BY <1>1
<1> QED BY <1>2 DEF SessionCount

\* A step that leaves the radios and the table alone, and no state but that of a
\* call in the table, is none of the promise's.
LEMMA MadeStays ==
    ASSUME TypeOK, TypeOK', sessions' = sessions,
           \A k \in Call : state'[k] # state[k] => <<k, "in">> \in sessions
    PROVE  Made' = Made
BY DEF Made, TypeOK

\* A call that leaves the table is given up.
LEMMA GivenUp ==
    ASSUME TypeOK, NEW k \in Call, <<k, "in">> \in sessions,
           sessions' = sessions \ {<<k, "in">>, <<k, "out">>}, state' = state
    PROVE  Made[k] = "open" /\ Made' = [Made EXCEPT ![k] = "closed"]
<1>1. \A j \in Call : j # k => (<<j, "in">> \in sessions' <=> <<j, "in">> \in sessions)
  BY KeysApart
<1>2. <<k, "in">> \notin sessions' /\ state[k] # "none"
  BY DEF TypeOK
<1> QED BY <1>1, <1>2 DEF Made

\* A delivery is what the promise lets the radio do next.
LEMMA DeliverKept ==
    ASSUME TypeOK, PromiseInv, Deliver
    PROVE  \/ \E k \in Call : \/ Pair!Accept(k) \/ Pair!Connect(k) \/ Pair!CallerEnds(k)
                              \/ Pair!Ring(k) \/ Pair!NoAnswer(k) \/ Pair!Confirm(k)
                              \/ Pair!TargetEnds(k)
           \/ UNCHANGED <<caller, target, Made>>
<1> DEFINE k == Head(send)[1][1]
           side == Head(send)[1][2]
           w == Head(send)[2]
           Goal == \/ \E j \in Call : \/ Pair!Accept(j) \/ Pair!Connect(j) \/ Pair!CallerEnds(j)
                                      \/ Pair!Ring(j) \/ Pair!NoAnswer(j) \/ Pair!Confirm(j)
                                      \/ Pair!TargetEnds(j)
                   \/ UNCHANGED <<caller, target, Made>>
<1>1. send \in Seq(Msg) /\ send # <<>>
  BY DEF Deliver, TypeOK
<1>2. Head(send) \in Msg /\ Head(send) \in Elems(send) /\ 1 \in DOMAIN send /\ send[1] = Head(send)
  BY <1>1, TailElems
<1>3. /\ k \in Call /\ side \in {"in", "out"} /\ Head(send) = <<<<k, side>>, w>>
  BY <1>2 DEF Msg, Leg
<1>4. /\ caller' = [caller EXCEPT ![k] =
            IF side = "out" \/ @ \notin CallerActive THEN @
            ELSE IF w = "accept" THEN IF @ = "calling" THEN "ringing" ELSE @
            ELSE IF w = "connect" THEN "talking" ELSE "over"]
      /\ target' = [target EXCEPT ![k] =
            IF side = "in" THEN @
            ELSE IF w = "setup" THEN IF @ = "idle" THEN "ringing" ELSE @
            ELSE IF w = "confirm" THEN IF @ = "answered" THEN "talking" ELSE @
            ELSE IF @ = "ringing" THEN "refused"
            ELSE IF @ \in TargetActive THEN "over" ELSE @]
      /\ Made' = Made /\ sessions' = sessions /\ state' = state
  BY DEF Deliver, Made
<1>5. Head(send) \in Sending
  BY <1>2 DEF Sending
<1>6. caller \in [Call -> CallerActive \cup {"idle", "over"}]
  BY DEF TypeOK
<1>7. target \in [Call -> TargetActive \cup {"idle", "refused", "over"}]
  BY DEF TypeOK
<1> HIDE DEF k, side, w
<1> USE DEF CallerActive, TargetActive
<1>8. CASE side = "in"
  <2>1. target' = target
    BY <1>3, <1>4, <1>7, <1>8
  <2>2. CASE caller[k] \notin CallerActive
    <3>1. caller' = caller
      BY <1>3, <1>4, <1>6, <2>2
    <3> QED BY <1>4, <2>1, <3>1
  <2>3. CASE caller[k] \in CallerActive /\ w = "accept"
    <3>1. state[k] # "none"
      BY <1>3, <1>5, <1>8, <2>3 DEF PromiseInv, OnlyTaken, AcceptIn
    <3>2. CASE caller[k] = "calling"
      <4>1. caller' = [caller EXCEPT ![k] = "ringing"]
        BY <1>3, <1>4, <1>6, <1>8, <2>3, <3>2
      <4>2. Pair!Accept(k)
        BY <1>3, <1>4, <2>1, <3>1, <3>2, <4>1 DEF Pair!Accept, Pair!CallerGoes, Made
      <4> QED BY <1>3, <4>2
    <3>3. CASE caller[k] # "calling"
      <4>1. caller' = caller
        BY <1>3, <1>4, <1>6, <1>8, <2>3, <3>3
      <4> QED BY <1>4, <2>1, <4>1
    <3> QED BY <3>2, <3>3
  <2>4. CASE caller[k] \in CallerActive /\ w = "connect"
    <3>1. Picked(k)
      BY <1>2, <1>3, <1>8, <2>4 DEF PromiseInv, NoEarlyWord
    <3>2. caller' = [caller EXCEPT ![k] = "talking"]
      BY <1>3, <1>4, <1>6, <1>8, <2>4
    <3>3. CASE caller[k] = "talking"
      <4>1. caller' = caller
        BY <1>3, <1>6, <3>2, <3>3
      <4> QED BY <1>4, <2>1, <4>1
    <3>4. CASE caller[k] # "talking"
      <4>1. Pair!Connect(k)
        BY <1>3, <1>4, <2>1, <2>4, <3>1, <3>2, <3>4 DEF Pair!Connect, Pair!CallerGoes, Picked, Made
      <4> QED BY <1>3, <4>1
    <3> QED BY <3>3, <3>4
  <2>5. CASE caller[k] \in CallerActive /\ w \notin {"accept", "connect"}
    <3>1. caller' = [caller EXCEPT ![k] = "over"]
      BY <1>3, <1>4, <1>6, <1>8, <2>5
    <3>2. Pair!CallerEnds(k)
      BY <1>3, <1>4, <2>1, <2>5, <3>1 DEF Pair!CallerEnds, Pair!CallerGoes, Made
    <3> QED BY <1>3, <3>2
  <2> QED BY <2>2, <2>3, <2>4, <2>5
<1>9. CASE side = "out"
  <2>1. caller' = caller
    BY <1>3, <1>4, <1>6, <1>9
  <2>2. CASE w = "setup" /\ target[k] = "idle"
    <3>1. state[k] # "none"
      BY <1>3, <1>5, <1>9, <2>2 DEF PromiseInv, OnlyTaken, SetupOut
    <3>2. target' = [target EXCEPT ![k] = "ringing"]
      BY <1>3, <1>4, <1>7, <1>9, <2>2
    <3>3. Pair!Ring(k)
      BY <1>3, <1>4, <2>1, <2>2, <3>1, <3>2 DEF Pair!Ring, Pair!TargetGoes, Made
    <3> QED BY <1>3, <3>3
  <2>3. CASE w = "confirm" /\ target[k] = "answered"
    <3>1. Told(k)
      <4>1. send[1] = ConfirmOut(k)
        BY <1>2, <1>3, <1>9, <2>3 DEF ConfirmOut
      <4>2. Told(k) \/ \E j \in DOMAIN send : j < 1 /\ send[j] = ConnectIn(k)
        BY <1>2, <1>3, <4>1 DEF PromiseInv, CallerFirst
      <4>3. \A j \in DOMAIN send : j \in Nat /\ j >= 1
        BY <1>1
      <4> QED BY <4>2, <4>3
    <3>2. target' = [target EXCEPT ![k] = "talking"]
      BY <1>3, <1>4, <1>7, <1>9, <2>3
    <3>3. caller[k] \in {"talking", "over"}
      BY <2>3, <3>1 DEF Told
    <3>4. Pair!Confirm(k)
      BY <1>3, <1>4, <2>1, <2>3, <3>2, <3>3 DEF Pair!Confirm, Pair!TargetGoes, Made
    <3> QED BY <1>3, <3>4
  <2>4. CASE w \notin {"setup", "confirm"} /\ target[k] = "ringing"
    <3>1. target' = [target EXCEPT ![k] = "refused"]
      BY <1>3, <1>4, <1>7, <1>9, <2>4
    <3>2. Pair!NoAnswer(k)
      BY <1>3, <1>4, <2>1, <2>4, <3>1 DEF Pair!NoAnswer, Pair!TargetGoes, Made
    <3> QED BY <1>3, <3>2
  <2>5. CASE w \notin {"setup", "confirm"} /\ target[k] \in {"answered", "talking"}
    <3>1. target' = [target EXCEPT ![k] = "over"]
      BY <1>3, <1>4, <1>7, <1>9, <2>5
    <3>2. Pair!TargetEnds(k)
      BY <1>3, <1>4, <2>1, <2>5, <3>1 DEF Pair!TargetEnds, Pair!TargetGoes, Made
    <3> QED BY <1>3, <3>2
  <2>6. CASE \/ w = "setup" /\ target[k] # "idle"
             \/ w = "confirm" /\ target[k] # "answered"
             \/ w \notin {"setup", "confirm"} /\ target[k] \notin TargetActive
    <3>1. target' = target
      BY <1>3, <1>4, <1>7, <1>9, <2>6
    <3> QED BY <1>4, <2>1, <3>1
  <2> QED BY <2>2, <2>3, <2>4, <2>5, <2>6
<1> QED BY <1>3, <1>8, <1>9

\* The promise counts as the bridge does.
LEMMA SameCount == \A S : Pair!Cardinality(S) = Cardinality(S)
BY DEF Pair!Cardinality, Cardinality

\* Every step of the bridge is one of the promise's, or none of them.
LEMMA PromiseStep ==
    ASSUME TypeOK, TypeOK', PromiseInv, [Next]_vars
    PROVE  Pair!PairNext \/ UNCHANGED <<caller, target, Made>>
<1> DEFINE Goal == Pair!PairNext \/ UNCHANGED <<caller, target, Made>>
<1>0. /\ caller \in [Call -> CallerActive \cup {"idle", "over"}]
      /\ target \in [Call -> TargetActive \cup {"idle", "refused", "over"}]
  BY DEF TypeOK
<1>1. ASSUME NEW k \in Call,
             \/ Pair!Take(k) \/ Pair!GiveUp(k)
             \/ Pair!Dial(k) \/ Pair!Accept(k) \/ Pair!Connect(k) \/ Pair!CallerEnds(k)
             \/ Pair!Ring(k) \/ Pair!PickUp(k) \/ Pair!NoAnswer(k) \/ Pair!Confirm(k)
             \/ Pair!TargetEnds(k)
      PROVE Goal
  BY <1>1 DEF Pair!PairNext
<1>2. ASSUME NEW k \in Call, Dial(k) \/ CallerHangsUp(k) PROVE Goal
  <2>1. UNCHANGED <<sessions, state>> /\ target' = target
    BY <1>2 DEF Dial, CallerHangsUp, CallerSays, ToBridge, bridge
  <2>2. Made' = Made
    BY <2>1 DEF Made
  <2>3. CASE Dial(k)
    <3>1. Pair!Dial(k)
      BY <2>1, <2>2, <2>3 DEF Dial, CallerSays, Pair!Dial, Pair!CallerGoes, Made
    <3> QED BY <1>1, <3>1
  <2>4. CASE CallerHangsUp(k)
    <3>1. Pair!CallerEnds(k)
      BY <2>1, <2>2, <2>4 DEF CallerHangsUp, CallerSays, CallerActive, Pair!CallerEnds,
                              Pair!CallerGoes, Made
    <3> QED BY <1>1, <3>1
  <2> QED BY <1>2, <2>3, <2>4
<1>3. ASSUME NEW k \in Call, Answer(k) \/ Refuse(k) \/ TargetHangsUp(k) PROVE Goal
  <2>1. UNCHANGED <<sessions, state>> /\ caller' = caller
    BY <1>3 DEF Answer, Refuse, TargetHangsUp, TargetSays, ToBridge, bridge
  <2>2. Made' = Made
    BY <2>1 DEF Made
  <2>3. Pair!PickUp(k) \/ Pair!NoAnswer(k) \/ Pair!TargetEnds(k)
    BY <1>3, <2>1, <2>2 DEF Answer, Refuse, TargetHangsUp, TargetSays, Made,
          Pair!PickUp, Pair!NoAnswer, Pair!TargetEnds, Pair!TargetGoes
  <2> QED BY <1>1, <2>3
<1>4. ASSUME Deliver PROVE Goal
  <2> HIDE DEF Goal
  <2>1. UNCHANGED <<caller, target, Made>> => Goal
    BY DEF Goal
  <2> QED BY <1>1, <1>4, <2>1, DeliverKept
<1>5. ASSUME NEW k \in Call, <<k, "in">> \in sessions,
             sessions' = sessions \ {<<k, "in">>, <<k, "out">>},
             UNCHANGED <<caller, target, state>>
      PROVE Goal
  <2>1. Made[k] = "open" /\ Made' = [Made EXCEPT ![k] = "closed"]
    BY <1>5, GivenUp
  <2>2. Pair!GiveUp(k)
    BY <1>5, <2>1 DEF Pair!GiveUp, Made
  <2> QED BY <1>1, <2>2
<1>6. ASSUME NEW k \in Call, HandleInboundSetup(k) PROVE Goal
  <2> DEFINE l == <<k, "in">>
  <2>1. Take(l, "setup") /\ UNCHANGED <<caller, target>>
    BY <1>6 DEF HandleInboundSetup, Take
  <2>2. SetupIn(k) \in Elems(recv)
    BY <2>1, TakeTypes, MsgTypes DEF SetupIn, Word
  <2>3. state[k] = "none" /\ caller[k] # "idle"
    BY <2>2 DEF PromiseInv, SetUpOnce
  <2>4. \/ UNCHANGED <<sessions, state>>
        \/ /\ l \notin sessions /\ ~AtCapacity
           /\ sessions' = sessions \cup {<<k, "in">>, <<k, "out">>}
           /\ state' = [state EXCEPT ![k] = "dialing"]
    BY <1>6 DEF HandleInboundSetup, Ignore, OtherLeg
  <2>5. CASE UNCHANGED <<sessions, state>>
    BY <2>1, <2>5 DEF Made
  <2>6. CASE /\ l \notin sessions /\ ~AtCapacity
             /\ sessions' = sessions \cup {<<k, "in">>, <<k, "out">>}
             /\ state' = [state EXCEPT ![k] = "dialing"]
    <3>1. Made[k] = "none"
      BY <2>3, <2>6 DEF Made
    <3>2. \A j \in Call : j # k => (<<j, "in">> \in sessions' <=> <<j, "in">> \in sessions)
      BY <2>6, KeysApart
    <3>3. \A j \in Call : j # k => state'[j] = state[j]
      BY <2>6 DEF TypeOK
    <3>4. Made' = [Made EXCEPT ![k] = "open"]
      BY <2>6, <3>2, <3>3 DEF Made
    <3>5. SessionCount \in Nat /\ SessionCount < MaxConcurrent
      BY <2>6, KeysAreTwiceCalls, ProxyConstants DEF AtCapacity
    <3>6. Cardinality({j \in Call : Made[j] = "open"}) < MaxConcurrent
      BY <3>5, OpenCalls
    <3>7. Pair!Take(k)
      BY <2>1, <2>3, <3>1, <3>4, <3>6, SameCount DEF Pair!Take, Made
    <3> QED BY <1>1, <3>7
  <2> QED BY <2>4, <2>5, <2>6
<1>7. ASSUME NEW k \in Call, HandleOutboundAccept(k) \/ HandleOutboundConnect(k) PROVE Goal
  <2>1. /\ UNCHANGED <<caller, target, sessions>>
        /\ \/ state' = state
           \/ <<k, "out">> \in sessions /\ state' = [state EXCEPT ![k] = "connected"]
    BY <1>7 DEF HandleOutboundAccept, HandleOutboundConnect, Take, Ignore
  <2>2. \A j \in Call : state'[j] # state[j] => <<j, "in">> \in sessions
    BY <2>1 DEF TypeOK
  <2> QED BY <2>1, <2>2, MadeStays
<1>8. ASSUME NEW k \in Call, NEW side \in {"in", "out"}, NEW w, HandleLegFailure(<<k, side>>, w)
      PROVE Goal
  <2>1. <<k, side>> \in Leg /\ UNCHANGED <<caller, target, state>>
    BY <1>8 DEF HandleLegFailure, Take, Ignore, Leg
  <2>2. CASE <<k, side>> \in sessions
    <3>1. <<k, "in">> \in sessions
      BY <2>2 DEF TypeOK
    <3>2. sessions' = sessions \ {<<k, "in">>, <<k, "out">>}
      BY <1>8, <2>1, <2>2, BothKeys DEF HandleLegFailure
    <3> QED BY <1>5, <2>1, <3>1, <3>2
  <2>3. CASE <<k, side>> \notin sessions
    BY <1>8, <2>1, <2>3 DEF HandleLegFailure, Ignore, Made
  <2> QED BY <2>2, <2>3
<1>9. ASSUME NEW k \in Call, DialTimeout(k) \/ IdleTimeout(k) PROVE Goal
  BY <1>5, <1>9 DEF DialTimeout, IdleTimeout, SweepOne
<1>10. ASSUME Stop PROVE Goal
  <2>1. CASE UNCHANGED sessions
    BY <1>10, <2>1 DEF Stop, Made
  <2>2. CASE ~UNCHANGED sessions
    <3>1. PICK k \in Call : /\ <<k, "in">> \in sessions
                            /\ sessions' = sessions \ {<<k, "in">>, <<k, "out">>}
      BY <1>10, <2>2 DEF Stop
    <3>2. UNCHANGED <<caller, target, state>>
      BY <1>10 DEF Stop
    <3> QED BY <1>5, <3>1, <3>2
  <2> QED BY <2>1, <2>2
<1>11. ASSUME Flap PROVE Goal
  <2>1. /\ UNCHANGED <<caller, sessions, state>>
        /\ target' = [k \in Call |-> IF target[k] = "ringing" THEN "refused"
                                     ELSE IF target[k] \in TargetActive THEN "over" ELSE target[k]]
    BY <1>11 DEF Flap, OnDisconnect
  <2>2. target' = [k \in Call |-> IF target[k] = "ringing" THEN "refused"
                                  ELSE IF target[k] \in {"answered", "talking"} THEN "over"
                                  ELSE target[k]]
    BY <2>1 DEF TargetActive
  <2>3. Pair!BridgeLost
    BY <2>1, <2>2 DEF Pair!BridgeLost
  <2> QED BY <2>3 DEF Pair!PairNext
<1>12. ASSUME (\E p \in Proc : Enqueue(p)) \/ Cancel \/ Reconnect \/ UNCHANGED vars PROVE Goal
  <2>1. UNCHANGED <<caller, target, sessions, state>>
    BY <1>12 DEF Enqueue, Cancel, Reconnect, vars
  <2> QED BY <2>1 DEF Made
<1> HIDE DEF Goal
<1>13. Goal
  BY <1>2, <1>3, <1>4, <1>6, <1>7, <1>8, <1>9, <1>10, <1>11, <1>12 DEF Next, Handle
<1> QED BY <1>13 DEF Goal

\* The bridge implements what it promises the two radios: a call is taken once
\* and within the cap, nobody rings for a call that was not taken, the caller is
\* connected only to a target that picked up, and the target only to a caller
\* that was told (handleInboundSetup, handleOutboundConnect, handleLegFailure,
\* sweep, Stop and a plane that connects again).
THEOREM BridgeRefinesPair == Spec => RefinesPair
<1>1. Init => Pair!PairInit /\ PromiseInv
  <2> SUFFICES ASSUME Init PROVE Pair!PairInit /\ PromiseInv
    OBVIOUS
  <2>1. /\ Elems(recv) = {} /\ Elems(send) = {} /\ \A p \in Proc : Elems(todo[p]) = {}
        /\ DOMAIN send = {} /\ DOMAIN recv = {} /\ "loop" \in Proc
    BY ShortElems DEF Init, Proc
  <2>2. Sending = {}
    BY <2>1 DEF Sending
  <2>3. OthersRelease /\ NoEarlyWord
    BY <2>1 DEF OthersRelease, NoEarlyWord, Proc
  <2>4. OnlyTaken /\ SetUpOnce
    BY <2>1, <2>2 DEF OnlyTaken, SetUpOnce, Init
  <2>5. \A k \in Call : CallerFirst(k)
    BY <2>1, <2>2 DEF CallerFirst
  <2>6. Pair!PairInit
    BY DEF Init, Pair!PairInit
  <2> QED BY <2>3, <2>4, <2>5, <2>6 DEF PromiseInv
<1>2. TypeOK /\ TypeOK' /\ PromiseInv /\ [Next]_vars => PromiseInv'
  BY OthersStep, NoEarlyWordStep, OnlyTakenStep, SetUpOnceStep, CallerFirstStep DEF PromiseInv
<1>3. TypeOK /\ TypeOK' /\ PromiseInv /\ [Next]_vars => [Pair!PairNext]_(Pair!pairVars)
  BY PromiseStep DEF Pair!pairVars, Made
<1> QED BY <1>1, <1>2, <1>3, ProxyTypeCorrect, PTL DEF Spec, RefinesPair, Pair!PairSpec

\* The table of sessions is well formed and within its cap at all times.
THEOREM TableAlwaysSound == Spec => []TableSound
<1>1. TypeOK /\ CapHolds => TableSound
  BY DEF TableSound
<1> QED BY <1>1, ProxyTypeCorrect, CapAlwaysHolds, PTL
=============================================================================
