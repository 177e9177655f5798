----------------------------- MODULE EchoBridge -----------------------------
(***************************************************************************)
(* The echo bridge: it records the traffic of its talkgroup and plays each *)
(* transmission back when it is over.  The session of the module's plane   *)
(* calls OnBrewCallControl and OnBrewFrame; every pause or release starts  *)
(* a goroutine that waits for late frames and then takes the capture; one  *)
(* goroutine plays what the others queue.  mu guards the captures, and     *)
(* only them: a capture is taken under it and queued after it.             *)
(*                                                                         *)
(* The playback source is configured, or it is the caller's own number.    *)
(* A frame is its call and a number.                                       *)
(***************************************************************************)
EXTENDS Naturals, Sequences

CONSTANTS Call,
          MaxEvents,     \* what the session may bring
          MaxFrames,     \* Echo.MaxFrames
          QueueCap       \* the capacity of playbackQ

EchoConstants == MaxEvents \in Nat /\ MaxFrames \in Nat /\ QueueCap \in Nat

VARIABLES captures,   \* calls with a capture, and its frames: pairs <<call, frames>>
          sleeping,   \* goroutines before finalizeCapture takes e.mu: pairs <<call, n>>
          carrying,   \* captures taken and not yet queued
          playbackQ,
          player,     \* the playback goroutine
          onAir,      \* injected calls: "none", "tx", "idle" or "released"
          played,     \* the frames that went out
          stopping,   \* Stop has cancelled the context
          events

vars == <<captures, sleeping, carrying, playbackQ, player, onAir, played, stopping, events>>

Frame == Call \X (1..MaxEvents)
Resting == [at |-> "select", frames |-> <<>>]

TypeOK ==
    /\ \A c \in captures : c[1] \in Call /\ Len(c[2]) <= MaxFrames
    /\ \A c, d \in captures : c[1] = d[1] => c = d
    /\ sleeping \subseteq Call \X (1..MaxEvents)
    /\ Len(playbackQ) <= QueueCap
    /\ player.at \in {"select", "delay", "playing", "done"}
    /\ onAir \in {"none", "tx", "idle", "released"}
    /\ played \in Seq(Frame)
    /\ events \in 0..MaxEvents

Init ==
    /\ captures = {} /\ sleeping = {} /\ carrying = {}
    /\ playbackQ = <<>>
    /\ player = Resting
    /\ onAir = "none"
    /\ played = <<>>
    /\ stopping = FALSE
    /\ events = 0

-----------------------------------------------------------------------------
(* The module's session                                                    *)

Event == events < MaxEvents /\ events' = events + 1

EnsureCapture(call) ==
    IF \E c \in captures : c[1] = call THEN captures ELSE captures \cup {<<call, <<>>>>}

\* OnBrewCallControl, GroupTX of another source to the talkgroup.  (To another
\* talkgroup, or of the playback's own number, it is ignored.)
GroupTX(call) ==
    /\ Event
    /\ captures' = EnsureCapture(call)
    /\ UNCHANGED <<sleeping, carrying, playbackQ, player, onAir, played, stopping>>

\* OnBrewFrame: the call need not have begun with a GroupTX.
OnBrewFrame(call) ==
    /\ Event
    /\ captures' = {IF c[1] = call /\ Len(c[2]) < MaxFrames
                    THEN <<call, Append(c[2], <<call, events'>>)>> ELSE c : c \in EnsureCapture(call)}
    /\ UNCHANGED <<sleeping, carrying, playbackQ, player, onAir, played, stopping>>

\* GroupIdle or a release: a goroutine goes to sleep.
GroupEnd(call) ==
    /\ Event
    /\ sleeping' = sleeping \cup {<<call, events'>>}
    /\ UNCHANGED <<captures, carrying, playbackQ, player, onAir, played, stopping>>

-----------------------------------------------------------------------------
(* The goroutines                                                          *)

\* Variant: the capture is copied and left in the table.
TakeCaptureKeep(s) ==
    LET taken == {c \in captures : c[1] = s[1]}
    IN  /\ s \in sleeping
        /\ sleeping' = sleeping \ {s}
        /\ captures' = captures
        /\ carrying' = carrying \cup {<<s, c[2]>> : c \in {d \in taken : d[2] # <<>>}}
        /\ UNCHANGED <<playbackQ, player, onAir, played, stopping, events>>

\* finalizeCapture, under e.mu.  There may be nothing to take, or no traffic in it.
TakeCapture(s) ==
    LET taken == {c \in captures : c[1] = s[1]}
    IN  /\ s \in sleeping
        /\ sleeping' = sleeping \ {s}
        /\ captures' = captures \ taken
        /\ carrying' = carrying \cup {<<s, c[2]>> : c \in {d \in taken : d[2] # <<>>}}
        /\ UNCHANGED <<playbackQ, player, onAir, played, stopping, events>>

\* The rest of it: queued, or dropped if the queue is full.
QueueCapture(t) ==
    /\ t \in carrying
    /\ carrying' = carrying \ {t}
    /\ playbackQ' = IF Len(playbackQ) < QueueCap THEN Append(playbackQ, t[2]) ELSE playbackQ
    /\ UNCHANGED <<captures, sleeping, player, onAir, played, stopping, events>>

\* playbackLoop.  A cancelled context and a request may both be there: select
\* takes either.
Dequeue ==
    /\ player.at = "select" /\ playbackQ # <<>>
    /\ player' = [at |-> "delay", frames |-> Head(playbackQ)]
    /\ playbackQ' = Tail(playbackQ)
    /\ onAir' = "none"
    /\ UNCHANGED <<captures, sleeping, carrying, played, stopping, events>>

Done ==
    /\ player.at = "select" /\ stopping
    /\ player' = [player EXCEPT !.at = "done"]
    /\ UNCHANGED <<captures, sleeping, carrying, playbackQ, onAir, played, stopping, events>>

\* playbackRequest, the delay: given up when the context is cancelled; after it
\* the injected call starts, unless the plane refuses it.
Delay ==
    /\ player.at = "delay"
    /\ \/ /\ player' = [player EXCEPT !.at = "playing"]
          /\ onAir' = "tx"
       \/ /\ player' = Resting
          /\ UNCHANGED onAir
    /\ UNCHANGED <<captures, sleeping, carrying, playbackQ, played, stopping, events>>

\* A frame, while the context lives; the last check of it may be just before Stop.
Play ==
    /\ player.at = "playing" /\ player.frames # <<>>
    /\ played' = Append(played, Head(player.frames))
    /\ player' = [player EXCEPT !.frames = Tail(@)]
    /\ UNCHANGED <<captures, sleeping, carrying, playbackQ, onAir, stopping, events>>

\* Variant: a cancelled playback returns and leaves its call open.
HangUpLate ==
    /\ player.at = "playing" /\ (player.frames = <<>> \/ stopping)
    /\ onAir' = IF player.frames # <<>> THEN onAir
                ELSE IF onAir = "tx" THEN "idle" ELSE "released"
    /\ player' = IF onAir = "tx" /\ player.frames = <<>> THEN player ELSE Resting
    /\ UNCHANGED <<captures, sleeping, carrying, playbackQ, played, stopping, events>>

\* The last frame is out, or the context was cancelled: IdleInjectedCall, then
\* ReleaseInjectedCall.
HangUp ==
    /\ player.at = "playing" /\ (player.frames = <<>> \/ stopping)
    /\ onAir' = IF onAir = "tx" THEN "idle" ELSE "released"
    /\ player' = IF onAir = "tx" THEN [player EXCEPT !.frames = <<>>] ELSE Resting
    /\ UNCHANGED <<captures, sleeping, carrying, playbackQ, played, stopping, events>>

\* Stop: it waits for the playback goroutine, not for the others.
Stop ==
    /\ ~stopping
    /\ stopping' = TRUE
    /\ UNCHANGED <<captures, sleeping, carrying, playbackQ, player, onAir, played, events>>

-----------------------------------------------------------------------------
Player == Dequeue \/ Done \/ Delay \/ Play \/ HangUp

Next ==
    \/ \E call \in Call : GroupTX(call) \/ OnBrewFrame(call) \/ GroupEnd(call)
    \/ \E s \in sleeping : TakeCapture(s)
    \/ \E t \in carrying : QueueCapture(t)
    \/ Player
    \/ Stop

\* Go runs its goroutines.
Fairness ==
    /\ WF_vars(\E s \in sleeping : TakeCapture(s))
    /\ WF_vars(\E t \in carrying : QueueCapture(t))
    /\ WF_vars(Player)

Spec == Init /\ [][Next]_vars
FairSpec == Spec /\ Fairness

-----------------------------------------------------------------------------
(* Properties                                                              *)

\* Wherever frames are: captures, captures that were taken, requests, the playback
\* and what went out.
Held ==
    {<<"capture", c[1], c[2]>> : c \in captures}
        \cup {<<"carried", t[1], t[2]>> : t \in carrying}
        \cup {<<"queued", i, playbackQ[i]>> : i \in DOMAIN playbackQ}
        \cup {<<"playing", 0, player.frames>>, <<"played", 0, played>>}

\* A frame is heard at most once, however the pause's goroutine, the release's
\* goroutine and the speaker's next words fall: it is in one capture, request or
\* playback.
EchoOnce ==
    \A h, g \in Held : \A i \in DOMAIN h[3], j \in DOMAIN g[3] :
        h[3][i] = g[3][j] => h = g /\ i = j

\* Whatever ends a playback (its last frame, Stop, a connection that is lost), its
\* call is paused and released before the goroutine takes the next request or ends:
\* the talkgroup does not stay taken.
TGReleased == player.at \in {"select", "done"} => onAir \in {"none", "released"}

\* Type correctness and the two.
EchoSound == TypeOK /\ EchoOnce /\ TGReleased

\* What a pause or release has closed does not stay behind; and Stop, which waits
\* for the playback, returns.
EchoEnds ==
    /\ []<>(stopping \/ (sleeping = {} /\ carrying = {} /\ playbackQ = <<>> /\ player = Resting))
    /\ stopping ~> player.at = "done"
=============================================================================
