----------------------------- MODULE ModuleParts -----------------------------
(***************************************************************************)
(* The modules that are Brew clients of the server, in processes of their  *)
(* own and without shared state, side by side under names of their own,    *)
(* and their invariants under one name each: MCModules checks them on a    *)
(* small instance, ModulesProofs proves them for all.  (The proxy bridge   *)
(* has an instance and proofs of its own.)                                 *)
(***************************************************************************)
CONSTANTS Speech, EchoEvents, EchoFrames, EchoQueue,
          Talk, From, Licensed, Echoes, DmrEvents,
          Sources, RestartAfter, RadioEvents,
          Spoken, ZelloFrames, ZelloEvents

VARIABLES captures, sleeping, carrying, playbackQ, player, onAir, played, stopping, events,
          talking, count, mirrors, inbox, outbox, job, calls, mine, made, dropped, broken,
          at, source, cause, stopped, command, muted, silence, lines, quiet, hung, call, started,
          inCall, air, changes,
          zat, halting, logons, client, alive, talker, talks, general, binary, listening, inbound,
          injected, brew, keyed, outbound, zjob, streams, lost, opened, frames, packet, leaving, happened

Ech == INSTANCE EchoBridge WITH
           Call <- Speech, MaxEvents <- EchoEvents, MaxFrames <- EchoFrames, QueueCap <- EchoQueue
Dmr == INSTANCE DmrBridge WITH MaxEvents <- DmrEvents, air <- mirrors, events <- count
Rad == INSTANCE WebRadio WITH MaxEvents <- RadioEvents, events <- changes
Zel == INSTANCE ZelloBridge WITH
           Call <- Spoken, MaxFrames <- ZelloFrames, MaxEvents <- ZelloEvents,
           at <- zat, stopping <- halting, job <- zjob, made <- opened, events <- happened

\* What the theorems about these modules assume of their constants.
ModuleConstants ==
    /\ Ech!EchoConstants
    /\ Dmr!DmrConstants
    /\ Rad!RadioConstants
    /\ Zel!ZelloConstants

echVars == <<captures, sleeping, carrying, playbackQ, player, onAir, played, stopping, events>>
dmrVars == <<talking, count, mirrors, inbox, outbox, job, calls, mine, made, dropped, broken>>
radVars == <<at, source, cause, stopped, command, muted, silence, lines, quiet, hung, call, started,
             inCall, air, changes>>
zelVars == <<zat, halting, logons, client, alive, talker, talks, general, binary, listening, inbound,
             injected, brew, keyed, outbound, zjob, streams, lost, opened, frames, packet, leaving, happened>>

-----------------------------------------------------------------------------
(* The modules' invariants and types, under one name each; what they say   *)
(* about the code stands where they are defined.                           *)

\* EchoOnce and TGReleased: a frame is heard once, and the talkgroup is free
\* between two playbacks.
EchoSound == Ech!EchoSound
\* MirrorBacked, NotReflected and VoiceInCall: what is repeated on the other
\* network ends with the original, is not repeated back, and is heard in its call.
MirrorsSound == Dmr!MirrorsSound
\* NothingLeftOpen: the talkgroup has the call of the session and no other.
RadioSound == Rad!RadioSound
\* CallsBacked, StreamsBacked and StreamsOfClient: calls and streams belong to each
\* other and to their session.
ZelloSound == Zel!ZelloSound
=============================================================================
