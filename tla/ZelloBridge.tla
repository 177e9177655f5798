---------------------------- MODULE ZelloBridge ----------------------------
(***************************************************************************)
(* The Zello bridge: transmissions of a Zello channel become group calls,  *)
(* and calls of its talkgroup become Zello streams.                        *)
(*                                                                         *)
(* loop connects, runs the session and cleans up; the plane's read loop    *)
(* handles what the radios send, and waits for Zello when it starts or     *)
(* stops a stream; a transcoder's goroutine sends packets, perhaps after   *)
(* the transcoder was closed.  mu guards the client and the two tables and *)
(* is given up around every request to Zello.  Each session has a client   *)
(* with two channels, for events and for audio, which are read in any      *)
(* order.                                                                  *)
(*                                                                         *)
(* One channel and its talkgroup; the bridge may talk.  Streams have       *)
(* numbers that do not repeat.  The plane stays connected.                 *)
(***************************************************************************)
EXTENDS Naturals, Sequences, SequencesExt

CONSTANTS Call,       \* the radios' calls
          MaxFrames,  \* bound on packets within a transcoder
          MaxEvents   \* bound: transmissions, frames, lost connections

ZelloConstants == MaxFrames \in Nat /\ MaxEvents \in Nat

VARIABLES at,        \* loop: "connect", "session", "cleanup", "wait" or "done"
          stopping,  \* Stop has closed stopCh
          logons,    \* sessions so far; the last one is the client's
          client,    \* the session of z.client, 0 for nil
          alive,     \* sessions whose connection Zello has
          talker,    \* the stream of the Zello user who talks, 0 if nobody does
          talks,
          general,   \* GeneralEventChan
          binary,    \* BinaryDataChan
          listening, \* GroupSubscriberCount is positive
          inbound,   \* inboundByID: streams, and whether their call was started
          injected,  \* group calls the bridge has open
          brew,      \* messages of the radios for the bridge
          keyed,     \* calls whose radio is transmitting
          outbound,  \* outboundByCall: calls and their streams, 0 if none
          job,       \* what the plane's read loop is about to do
          streams,   \* streams of the bridge that are open at Zello
          lost,      \* history: of these, the ones a request failed for, so that
                     \* the bridge does not know of them (any more)
          made,
          frames,    \* packets of a call in its transcoders
          packet,    \* the client and the stream of a packet that is being sent
          leaving,   \* what cleanupSession has taken out of the tables
          events

vars == <<at, stopping, logons, client, alive, talker, talks, general, binary, listening, inbound,
          injected, brew, keyed, outbound, job, streams, lost, made, frames, packet, leaving, events>>

loopVars == <<at, stopping, logons, client, alive, leaving>>
zelloVars == <<talker, talks, general, binary>>
radioVars == <<brew, keyed, listening>>
inVars == <<inbound, injected>>
outVars == <<outbound, job, streams, lost, made, frames, packet>>

Idle == [do |-> "idle"]
NoPacket == <<0, 0>>
Nothing == [calls |-> {}, streams |-> {}]
Session(s) == s[1]

TypeOK ==
    /\ at \in {"connect", "session", "cleanup", "wait", "done"}
    /\ client \in 0..logons /\ alive \subseteq 1..logons
    /\ DOMAIN inbound \subseteq 1..talks /\ injected \subseteq 1..talks
    /\ DOMAIN outbound \subseteq Call
    /\ \A c \in DOMAIN outbound : outbound[c] = NoPacket \/ outbound[c] \in (1..logons) \X (1..made)
    /\ streams \subseteq (1..logons) \X (1..made) /\ lost \subseteq streams
    /\ job.do \in {"idle", "ensure", "start", "started", "feed", "stop", "delete"}
    /\ frames \in [Call -> 0..MaxFrames]

Init ==
    /\ at = "connect" /\ stopping = FALSE
    /\ logons = 0 /\ client = 0 /\ alive = {}
    /\ talker = 0 /\ talks = 0
    /\ general = <<>> /\ binary = <<>>
    /\ listening = TRUE
    /\ inbound = <<>> /\ injected = {}
    /\ brew = <<>> /\ keyed = {}
    /\ outbound = <<>> /\ job = Idle
    /\ streams = {} /\ lost = {} /\ made = 0
    /\ frames = [c \in Call |-> 0]
    /\ packet = NoPacket
    /\ leaving = Nothing
    /\ events = 0

Event == events < MaxEvents /\ events' = events + 1
Put(f, k, v) == [x \in DOMAIN f \cup {k} |-> IF x = k THEN v ELSE f[x]]
Without(f, k) == [x \in DOMAIN f \ {k} |-> f[x]]

-----------------------------------------------------------------------------
(* loop                                                                    *)

\* A session, or a connection or logon that fails.
Connect ==
    /\ at = "connect" /\ ~stopping
    /\ \/ /\ at' = "session"
          /\ logons' = logons + 1
          /\ client' = logons'
          /\ alive' = {logons'}
       \/ /\ at' = "wait"
          /\ UNCHANGED <<logons, client, alive>>
    /\ UNCHANGED <<stopping, leaving, zelloVars, radioVars, inVars, outVars, events>>

\* handleGeneralEvent: a stream starts, or stops and its call is released.
OnEvent ==
    /\ at = "session" /\ general # <<>>
    /\ LET n == Head(general)[2] IN
          IF Head(general)[1] = "start"
          THEN inbound' = Put(inbound, n, FALSE) /\ UNCHANGED injected
          ELSE /\ inbound' = Without(inbound, n)
               /\ injected' = IF n \in DOMAIN inbound /\ inbound[n] THEN injected \ {n} ELSE injected
    /\ general' = Tail(general)
    /\ UNCHANGED <<loopVars, talker, talks, binary, radioVars, outVars, events>>

\* Variant: audio starts a call for streams that are not in the table as well.
StartsCallAlways(n) == listening
\* The first packet for which there is somebody to hear it starts the call.
StartsCall(n) == n \in DOMAIN inbound /\ ~inbound[n] /\ listening

\* handleBinaryData; the plane may refuse the call.
OnAudio ==
    /\ at = "session" /\ binary # <<>>
    /\ LET n == Head(binary) IN
          \/ /\ StartsCall(n)
             /\ injected' = injected \cup {n}
             /\ inbound' = IF n \in DOMAIN inbound THEN Put(inbound, n, TRUE) ELSE inbound
          \/ UNCHANGED <<inbound, injected>>
    /\ binary' = Tail(binary)
    /\ UNCHANGED <<loopVars, talker, talks, general, radioVars, outVars, events>>

\* What cleanupSession leaves of the table of outbound calls; the variant keeps
\* it for the next session.
LeftOutboundAll == outbound
LeftOutbound == <<>>

\* runSession returns, on an error or on stopCh, and cleanupSession empties the
\* tables.
EndSession ==
    /\ at = "session" /\ (stopping \/ client \notin alive)
    /\ at' = "cleanup"
    /\ client' = 0
    /\ leaving' = [calls |-> {n \in DOMAIN inbound : inbound[n]},
                   streams |-> {outbound[c] : c \in DOMAIN outbound} \ {NoPacket}]
    /\ inbound' = <<>>
    /\ outbound' = LeftOutbound
    /\ UNCHANGED <<stopping, logons, alive, zelloVars, radioVars, injected, job, streams, lost, made, frames,
                   packet, events>>

\* The rest of cleanupSession: what was taken out is released and stopped, and the
\* client disconnected.
Cleanup ==
    /\ at = "cleanup"
    /\ at' = "wait"
    /\ injected' = injected \ leaving.calls
    /\ streams' = {s \in streams \ leaving.streams : Session(s) # logons}
    /\ lost' = lost \cap streams'
    /\ alive' = {}
    /\ leaving' = Nothing
    /\ talker' = 0 /\ general' = <<>> /\ binary' = <<>>
    /\ UNCHANGED <<stopping, logons, client, talks, radioVars, inbound, outbound, job, made, frames,
                   packet, events>>

\* waitReconnect.
WaitReconnect ==
    /\ at = "wait"
    /\ \/ at' = "connect"
       \/ stopping /\ at' = "done"
    /\ UNCHANGED <<stopping, logons, client, alive, leaving, zelloVars, radioVars, inVars, outVars, events>>

\* stopCh at the head of the loop: cleanupSession without a client empties the tables.
Return ==
    /\ at = "connect" /\ stopping
    /\ at' = "done"
    /\ injected' = injected \ {n \in DOMAIN inbound : inbound[n]}
    /\ inbound' = <<>>
    /\ outbound' = <<>>
    /\ UNCHANGED <<stopping, logons, client, alive, leaving, zelloVars, radioVars, job, streams, lost, made,
                   frames, packet, events>>

Stop ==
    /\ ~stopping
    /\ stopping' = TRUE
    /\ UNCHANGED <<at, logons, client, alive, leaving, zelloVars, radioVars, inVars, outVars, events>>

-----------------------------------------------------------------------------
(* The plane's read loop                                                   *)

ReadJob(j) == job' = j /\ brew' = Tail(brew)

\* OnBrewCallControl and OnBrewFrame, their first lock sections.
OnBrew ==
    /\ job = Idle /\ brew # <<>>
    /\ LET what == Head(brew)[1]
           c == Head(brew)[2]
       IN \/ /\ what = "tx"
             /\ ReadJob(Idle)
             /\ outbound' = IF c \in DOMAIN outbound THEN outbound ELSE Put(outbound, c, NoPacket)
          \/ /\ what = "frame"
             /\ ReadJob(IF c \in DOMAIN outbound THEN [do |-> "ensure", call |-> c] ELSE Idle)
             /\ UNCHANGED outbound
          \/ /\ what = "end"
             /\ ReadJob(IF c \in DOMAIN outbound
                        THEN [do |-> "stop", call |-> c, client |-> client, stream |-> outbound[c]]
                        ELSE Idle)
             /\ UNCHANGED outbound
    /\ UNCHANGED <<loopVars, zelloVars, keyed, listening, inVars, streams, lost, made, frames, packet, events>>

\* ensureOutboundStream, first section; the entry may be gone and is made again.
Ensure ==
    /\ job.do = "ensure"
    /\ LET c == job.call
           stream == IF c \in DOMAIN outbound THEN outbound[c] ELSE NoPacket
       IN /\ outbound' = Put(outbound, c, stream)
          /\ job' = CASE client = 0 -> Idle
                      [] client # 0 /\ stream # NoPacket -> [do |-> "feed", call |-> c]
                      [] client # 0 /\ stream = NoPacket -> [do |-> "start", call |-> c, client |-> client]
    /\ UNCHANGED <<loopVars, zelloVars, radioVars, inVars, streams, lost, made, frames, packet, events>>

\* StartStream: Zello opens a stream, or there is an error; the answer may also not
\* come in time, or not at all, when Zello has opened the stream.
StartStream ==
    /\ job.do = "start"
    /\ \/ /\ job.client \in alive
          /\ made' = made + 1
          /\ streams' = streams \cup {<<job.client, made'>>}
          /\ \/ /\ job' = [do |-> "started", call |-> job.call, stream |-> <<job.client, made'>>]
                /\ UNCHANGED lost
             \/ /\ job' = Idle
                /\ lost' = lost \cup {<<job.client, made'>>}
       \/ /\ job' = Idle
          /\ UNCHANGED <<made, streams, lost>>
    /\ UNCHANGED <<loopVars, zelloVars, radioVars, inVars, outbound, frames, packet, events>>

\* client.StopStream: Zello closes the stream, or the request fails, which is logged
\* or ignored, and a stream that is open stays so.
Close(s) ==
    \/ streams' = streams \ {s} /\ lost' = lost \ {s}
    \/ UNCHANGED streams /\ lost' = lost \cup ({s} \cap streams)

\* ensureOutboundStream, second section, first without its test.
StartedUntested ==
    /\ job.do = "started"
    /\ outbound' = Put(outbound, job.call, job.stream)
    /\ job' = [do |-> "feed", call |-> job.call]
    /\ UNCHANGED <<loopVars, zelloVars, radioVars, inVars, streams, lost, made, frames, packet, events>>

\* The call may have gone with its session: the stream is stopped.
Started ==
    /\ job.do = "started"
    /\ IF job.call \in DOMAIN outbound
       THEN /\ outbound' = [outbound EXCEPT ![job.call] = job.stream]
            /\ job' = [do |-> "feed", call |-> job.call]
            /\ UNCHANGED <<streams, lost>>
       ELSE /\ Close(job.stream)
            /\ job' = Idle
            /\ UNCHANGED outbound
    /\ UNCHANGED <<loopVars, zelloVars, radioVars, inVars, made, frames, packet, events>>

\* ensureTrafficTranscoder, and the frame goes to the transcoder, which may fail.
\* Packet data goes out at once, as if a transcoder brought it.
Feed ==
    /\ job.do = "feed"
    /\ \/ /\ job.call \in DOMAIN outbound /\ frames[job.call] < MaxFrames
          /\ frames' = [frames EXCEPT ![job.call] = @ + 1]
       \/ UNCHANGED frames
    /\ job' = Idle
    /\ UNCHANGED <<loopVars, zelloVars, radioVars, inVars, outbound, streams, lost, made, packet, events>>

\* stopOutboundCall: StopStream outside the lock, then the entry is deleted, whatever
\* became of the request.
StopStream ==
    /\ job.do = "stop"
    /\ IF job.client # 0 THEN Close(job.stream) ELSE UNCHANGED <<streams, lost>>
    /\ job' = [do |-> "delete", call |-> job.call]
    /\ UNCHANGED <<loopVars, zelloVars, radioVars, inVars, outbound, made, frames, packet, events>>

DeleteCall ==
    /\ job.do = "delete"
    /\ outbound' = Without(outbound, job.call)
    /\ job' = Idle
    /\ UNCHANGED <<loopVars, zelloVars, radioVars, inVars, streams, lost, made, frames, packet, events>>

-----------------------------------------------------------------------------
(* The transcoder's goroutine: sendOutboundPayload                         *)

\* Client and stream are read together; without them the goroutine ends.
TakePacket(c) ==
    /\ frames[c] > 0 /\ packet = NoPacket
    /\ IF client # 0 /\ c \in DOMAIN outbound /\ outbound[c] # NoPacket
       THEN /\ packet' = <<client, outbound[c]>>
            /\ frames' = [frames EXCEPT ![c] = @ - 1]
       ELSE /\ frames' = [frames EXCEPT ![c] = 0]
            /\ UNCHANGED packet
    /\ UNCHANGED <<loopVars, zelloVars, radioVars, inVars, outbound, job, streams, lost, made, events>>

SendBinary ==
    /\ packet # NoPacket
    /\ packet' = NoPacket
    /\ UNCHANGED <<loopVars, zelloVars, radioVars, inVars, outbound, job, streams, lost, made, frames, events>>

-----------------------------------------------------------------------------
(* The radios and Zello                                                    *)

Says(what, c) == brew' = Append(brew, <<what, c>>)

Key(c) ==
    /\ Event
    /\ keyed' = keyed \cup {c} /\ Says("tx", c)
    /\ UNCHANGED <<loopVars, zelloVars, listening, inVars, outVars>>
Speak(c) ==
    /\ c \in keyed /\ Event
    /\ Says("frame", c)
    /\ UNCHANGED <<loopVars, zelloVars, keyed, listening, inVars, outVars>>
Unkey(c) ==
    /\ c \in keyed
    /\ keyed' = keyed \ {c} /\ Says("end", c)
    /\ UNCHANGED <<loopVars, zelloVars, listening, inVars, outVars, events>>
\* The last radio leaves the talkgroup, or the first comes.
Attach ==
    /\ Event
    /\ listening' = ~listening
    /\ UNCHANGED <<loopVars, zelloVars, brew, keyed, inVars, outVars>>

InSession == at = "session" /\ client \in alive

ZelloStart ==
    /\ InSession /\ talker = 0 /\ Event
    /\ talks' = talks + 1 /\ talker' = talks'
    /\ general' = Append(general, <<"start", talks'>>)
    /\ UNCHANGED <<loopVars, binary, radioVars, inVars, outVars>>
ZelloAudio ==
    /\ InSession /\ talker # 0 /\ Event
    /\ binary' = Append(binary, talker)
    /\ UNCHANGED <<loopVars, talker, talks, general, radioVars, inVars, outVars>>
ZelloStop ==
    /\ InSession /\ talker # 0
    /\ talker' = 0
    /\ general' = Append(general, <<"stop", talker>>)
    /\ UNCHANGED <<loopVars, talks, binary, radioVars, inVars, outVars, events>>

\* The connection is lost; Zello ends the session's streams.
Break ==
    /\ InSession /\ Event
    /\ alive' = {}
    /\ streams' = {s \in streams : Session(s) # client}
    /\ lost' = lost \cap streams'
    /\ UNCHANGED <<at, stopping, logons, client, leaving, zelloVars, radioVars, inVars, outbound, job, made,
                   frames, packet>>

-----------------------------------------------------------------------------
Loop == Connect \/ EndSession \/ Cleanup \/ WaitReconnect \/ Return
ReadLoop == OnBrew \/ Ensure \/ StartStream \/ Started \/ Feed \/ StopStream \/ DeleteCall

Next ==
    \/ Connect \/ OnEvent \/ OnAudio \/ EndSession \/ Cleanup \/ WaitReconnect \/ Return \/ Stop
    \/ OnBrew \/ Ensure \/ StartStream \/ Started \/ Feed \/ StopStream \/ DeleteCall
    \/ \E c \in Call : TakePacket(c) \/ Key(c) \/ Speak(c) \/ Unkey(c)
    \/ SendBinary
    \/ Attach \/ ZelloStart \/ ZelloAudio \/ ZelloStop \/ Break

\* Goroutines run, requests to Zello are answered or time out, and a select that
\* has events or stopCh does not pass them over for ever.
Fairness ==
    /\ WF_vars(Loop)
    /\ WF_vars(ReadLoop)
    /\ WF_vars(OnEvent)

Spec == Init /\ [][Next]_vars
FairSpec == Spec /\ Fairness

-----------------------------------------------------------------------------
(* Properties                                                              *)

\* A group call the bridge has open belongs to a stream it follows, also when the
\* stop of a stream is read before its last audio; nothing is left open by a
\* session that ended.
CallsBacked ==
    \A n \in injected : (n \in DOMAIN inbound /\ inbound[n]) \/ n \in leaving.calls

\* A stream that is open at Zello belongs to a call, or somebody is about to stop
\* it, or a request for it failed: however the end of the call, the loss of the
\* session and the answer to StartStream fall.
StreamsBacked ==
    \A s \in streams \ lost :
        \/ \E c \in DOMAIN outbound : outbound[c] = s
        \/ job.do \in {"started", "stop"} /\ job.stream = s
        \/ s \in leaving.streams

\* A stream is used with the client it was made with and with no later one.
StreamsOfClient ==
    /\ \A c \in DOMAIN outbound : outbound[c] # NoPacket => Session(outbound[c]) = client
    /\ packet # NoPacket => Session(packet[2]) = packet[1]

\* Type correctness and the three.
ZelloSound == TypeOK /\ CallsBacked /\ StreamsBacked /\ StreamsOfClient

\* When the radios are silent Zello's channel is free again, but for streams that a
\* request failed for, and when the Zello users are silent so is the talkgroup.
Silent ==
    /\ <>[](keyed = {}) => <>[](streams = lost)
    /\ <>[](talker = 0) => <>[](injected = {})

\* Stop, which waits for loop, returns, and nothing is left open on either side, not
\* even by requests that failed: the session's end closes its streams.
StopReturns == stopping ~> (at = "done" /\ injected = {} /\ streams = {})
=============================================================================
