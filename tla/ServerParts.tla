----------------------------- MODULE ServerParts -----------------------------
(***************************************************************************)
(* The parts of one server that share no state, side by side under names   *)
(* of their own, and their properties under one name each: MCServer checks *)
(* them on a small instance, the proof modules prove them for all.         *)
(***************************************************************************)
CONSTANTS Sid, ISSI, PushAt, DeleteAt, StationTime, StaleAfter, AutoCreate, NetCap,
          Client, Cap, Casts,
          User, Nonce, Token, TokenTTL, AdmissionTime, MaxAttempts, AuthWindow, BanDuration,
          Call, From, To,
          Session, Alias, Radios, Endpoints, Groups, HintTTL, HintTime,
          Input,
          Operator, Radio, Counter, Wire, MaxMessages,
          RingMax, BoxMax, HeardMax, Span, CallId, GSSI, MaxEvents,
          Packet, Spoken, CallRoute, MaxHops

VARIABLES now, items, index, copy, wire, retired,
          conn, clients, loop, writer, queue, open, todo, told, casts, crashed,
          clock, nonces, tokens, asking, allowed, upgrading, sessions, proven, attempts, banned,
          tracked, circuits, shown, link, phone, uplink, job,
          hour, hint, attached, virtual, task,
          input, frame, output,
          active, seq, threads, age, board, replies, op, unnoted, count,
          which, log, logged, page, seen, taken, live, heard, byID, names, mapped,
          packet, first, message, hops

Sta == INSTANCE StationStore WITH MaxTime <- StationTime
Ses == INSTANCE BrewSession
Adm == INSTANCE BrewAdmission WITH TTL <- TokenTTL, MaxTime <- AdmissionTime
Cal == INSTANCE CallControl
Sds == INSTANCE SdsRouting WITH TTL <- HintTTL, MaxTime <- HintTime
Cod == INSTANCE SdsCodec
Out == INSTANCE Callout
Buf == INSTANCE PolledBuffers
Pro == INSTANCE BrewProtocol

\* What the theorems about these parts assume of their constants.
PartsConstants ==
    /\ Sta!StationConstants
    /\ Ses!SessionConstants
    /\ Adm!AdmissionConstants
    /\ Cal!CallConstants
    /\ Sds!RoutingConstants
    /\ Cod!CodecConstants
    /\ Out!CalloutConstants
    /\ Buf!BufferConstants
    /\ Pro!ProtocolConstants

staVars == <<now, items, index, copy, wire, retired>>
sesVars == <<conn, clients, loop, writer, queue, open, todo, told, casts, crashed>>
admVars == <<clock, nonces, tokens, asking, allowed, upgrading, sessions, proven, attempts, banned>>
calVars == <<tracked, circuits, shown, link, phone, uplink, job>>
sdsVars == <<hour, hint, attached, virtual, task>>
codVars == <<input, frame, output>>
outVars == <<active, seq, threads, age, board, replies, op, unnoted, count>>
bufVars == <<which, log, logged, page, seen, taken, live, heard, byID, names, mapped>>
proVars == <<packet, first, message, hops>>

-----------------------------------------------------------------------------
(* The parts' properties and types, under one name each; what they say     *)
(* about the code stands where they are defined.                           *)

\* IndexSound: byISSI names a live owner of the radio; and SeenForward.
StationsSound == [](Sta!TypeOK /\ Sta!IndexSound) /\ Sta!SeenForward
\* TableOpen and ToldOnce: the client table holds no closed channel, and
\* OnDisconnect is called once for each session, at its end.
SessionsSound == Ses!SessionsSound
\* TokenOnce and SessionFresh: an endpoint token opens one session, whose name
\* was proven at most TokenTTL ago; the rate limiter's attempts are in order.
AdmissionSound == Adm!AdmissionSound
\* A call keeps the addresses and the session of its setup.
Anchored == Cal!Anchored
\* The last-heard list shows no call its caller has left.
ShownLive == Cal!TypeOK /\ Cal!ShownLive
\* A route hint that is not too old is not removed.
FreshHintKept == []Sds!TypeOK /\ Sds!FreshHintKept
\* CalloutArrives and AddressesArrive: a message and its addresses survive
\* building, wrapping, unwrapping and parsing.
SdsArrives == Cod!SdsArrives
\* RouteIsOpen and RepliesApart: follow-ups go to a call-out that is open, and
\* replies leave the operators' view as it is.
CalloutsSound == [](Out!TypeOK /\ Out!RouteIsOpen) /\ Out!RepliesApart
\* NothingMissed, ConsumedOnce, HeardIndexed and PoolExclusive: a poller misses
\* nothing that is still in a buffer, a message is consumed once, the last-heard
\* index fits its list, no two groups share a number of the pool.
BuffersSound == Buf!BuffersSound
\* A server that passes a message on changes nothing the receiver reads.
RelayFaithful == Pro!RelayFaithful
=============================================================================
