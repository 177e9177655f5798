------------------------------ MODULE WebRadio ------------------------------
(***************************************************************************)
(* The web radio: runLoop runs one session after the other, each with an   *)
(* ffmpeg, an encoder and a context of its own; readEncoderFrames makes    *)
(* group calls of the frames; a watchdog, two operator commands and Stop   *)
(* cancel the session, each with a cause, of which the first one counts.   *)
(* ffmpeg's reports of silence are read by a goroutine per session that    *)
(* may outlive it.                                                         *)
(*                                                                         *)
(* The silence gate and the watchdog are configured; the plane's queue,    *)
(* which refuses a call when it is full, is taken to be long enough.       *)
(* Calls are numbered round: at most one is open, and the next has another *)
(* number.                                                                 *)
(***************************************************************************)
EXTENDS Naturals, Sequences, SequencesExt

CONSTANTS Sources,       \* how many there are to rotate
          RestartAfter,  \* frames after which a call is begun anew (500)
          MaxEvents      \* bound: commands and changes of the stream

RadioConstants == Sources \in Nat \ {0} /\ RestartAfter \in Nat \ {0} /\ MaxEvents \in Nat

VARIABLES at,        \* runLoop: "select", "reading", "ending", "delay" or "done"
          source,    \* sourceRotator.idx
          cause,     \* why the session's context was cancelled
          stopped,   \* Stop has cancelled the parent context
          command,   \* an operator's command that has read sessionCancel
          muted,
          silence,   \* telemetry.silence
          lines,     \* ffmpeg's reports not read yet, with their session's state
          quiet,     \* the stream is silent
          hung,      \* the stream brings nothing, or ffmpeg does not end
          call,      \* currentCallID
          started,   \* callStarted
          inCall,    \* frameInCall
          air,       \* calls that are open on the talkgroup
          events

vars == <<at, source, cause, stopped, command, muted, silence, lines, quiet, hung, call, started, inCall,
          air, events>>

NoCommand == [cause |-> "none", live |-> FALSE]

TypeOK ==
    /\ at \in {"select", "reading", "ending", "delay", "done"}
    /\ source \in 0..Sources - 1
    /\ cause \in {"none", "stall", "skip", "reload", "stop"}
    /\ command.cause \in {"none", "skip", "reload"}
    /\ \A i \in DOMAIN lines : lines[i].silence \in BOOLEAN /\ lines[i].live \in BOOLEAN
    /\ quiet \in BOOLEAN /\ hung \in BOOLEAN
    /\ call \in 0..2 /\ air \subseteq 0..2
    /\ inCall \in 0..RestartAfter - 1

Init ==
    /\ at = "select"
    /\ source = 0
    /\ cause = "none"
    /\ stopped = FALSE
    /\ command = NoCommand
    /\ muted = FALSE /\ silence = FALSE
    /\ lines = <<>>
    /\ quiet = FALSE /\ hung = FALSE
    /\ call = 0 /\ started = FALSE /\ inCall = 0
    /\ air = {}
    /\ events = 0

Event == events < MaxEvents /\ events' = events + 1

-----------------------------------------------------------------------------
(* runLoop and runSession                                                  *)

\* A session with a new context, ffmpeg and encoder; or they cannot be started.
StartSession ==
    /\ at = "select" /\ ~stopped
    /\ \/ at' = "reading" \/ at' = "delay"
    /\ cause' = "none"
    /\ quiet' = FALSE /\ hung' = FALSE
    /\ call' = (call + 1) % 3 /\ started' = FALSE /\ inCall' = 0
    /\ UNCHANGED <<source, stopped, command, muted, silence, lines, air, events>>

\* IdleInjectedCall, and what is noted after it.
IdleCall ==
    /\ air' = air \ {call}
    /\ call' = (call + 1) % 3 /\ started' = FALSE /\ inCall' = 0

\* readEncoderFrames, one frame.  The context was looked at before the frame was
\* waited for.  While muted or silent an open call is paused and the frame
\* dropped; otherwise it goes out, in a new call if none is open, unless it is
\* the one at which the call is begun anew.
Frame ==
    /\ at = "reading" /\ ~hung
    /\ IF muted \/ silence
       THEN IF started THEN IdleCall ELSE UNCHANGED <<air, call, started, inCall>>
       ELSE IF inCall + 1 >= RestartAfter THEN IdleCall
       ELSE /\ air' = air \cup {call}
            /\ started' = TRUE
            /\ inCall' = inCall + 1
            /\ UNCHANGED call
    /\ UNCHANGED <<at, source, cause, stopped, command, muted, silence, lines, quiet, hung, events>>

\* The encoder's output ends: its process was killed with the context, or ended by
\* itself, and then ffmpeg may go on; it is killed only after an error in reading.
ReadEnds ==
    /\ at = "reading"
    /\ \/ cause # "none" /\ UNCHANGED <<events, hung>>
       \/ cause = "none" /\ Event /\ hung' \in BOOLEAN
    /\ at' = "ending"
    /\ UNCHANGED <<source, cause, stopped, command, muted, silence, lines, quiet, call, started,
                   inCall, air>>

\* Variant: only the watchdog's cause changes the source.
RotatesOnStall(c) == c = "stall" /\ Sources > 1
Rotates(c) == c \in {"stall", "skip"} /\ Sources > 1

\* Variant: a session that was cancelled leaves its call.
ReleasedUncancelled(c) == IF started /\ c = "none" THEN air \ {call} ELSE air
Released(c) == IF started THEN air \ {call} ELSE air

\* The end of runSession, which waits for both processes, and runLoop's decision.
\* Commands and readers that hold on to the session now find it over.
EndSession ==
    /\ at = "ending" /\ (hung => cause # "none")
    /\ air' = Released(cause)
    /\ source' = IF ~stopped /\ Rotates(cause) THEN (source + 1) % Sources ELSE source
    /\ at' = IF ~stopped /\ (Rotates(cause) \/ cause = "reload") THEN "select" ELSE "delay"
    /\ command' = [command EXCEPT !.live = FALSE]
    /\ lines' = [i \in DOMAIN lines |-> [lines[i] EXCEPT !.live = FALSE]]
    /\ UNCHANGED <<cause, stopped, muted, silence, quiet, hung, call, started, inCall, events>>

\* The reconnect delay, or the context that ends it.
Delay ==
    /\ at = "delay"
    /\ at' = IF stopped THEN "done" ELSE "select"
    /\ UNCHANGED <<source, cause, stopped, command, muted, silence, lines, quiet, hung, call, started,
                   inCall, air, events>>

Return ==
    /\ at = "select" /\ stopped
    /\ at' = "done"
    /\ UNCHANGED <<source, cause, stopped, command, muted, silence, lines, quiet, hung, call, started,
                   inCall, air, events>>

-----------------------------------------------------------------------------
(* The others                                                              *)

\* watchStall: no frame for StallTimeout.
WatchStall ==
    /\ at \in {"reading", "ending"} /\ hung /\ cause = "none"
    /\ cause' = "stall"
    /\ UNCHANGED <<at, source, stopped, command, muted, silence, lines, quiet, hung, call, started,
                   inCall, air, events>>

\* Skip and Reload, first half: sessionCancel is read; nil between sessions.
Command(c) ==
    /\ command = NoCommand /\ at \in {"reading", "ending"}
    /\ Event
    /\ command' = [cause |-> c, live |-> TRUE]
    /\ UNCHANGED <<at, source, cause, stopped, muted, silence, lines, quiet, hung, call, started, inCall, air>>

\* Second half: it is called; a session that is over, or cancelled, ignores it.
CommandCancels ==
    /\ command # NoCommand
    /\ cause' = IF command.live /\ cause = "none" THEN command.cause ELSE cause
    /\ command' = NoCommand
    /\ UNCHANGED <<at, source, stopped, muted, silence, lines, quiet, hung, call, started, inCall, air, events>>

\* Mute and Unmute.
SetMuted(m) ==
    /\ Event
    /\ muted' = m
    /\ UNCHANGED <<at, source, cause, stopped, command, silence, lines, quiet, hung, call, started, inCall, air>>

\* Stop, which then waits for runLoop.
Stop ==
    /\ ~stopped
    /\ stopped' = TRUE
    /\ cause' = IF at \in {"reading", "ending"} /\ cause = "none" THEN "stop" ELSE cause
    /\ UNCHANGED <<at, source, command, muted, silence, lines, quiet, hung, call, started, inCall, air, events>>

\* The stream falls silent or is heard again: silencedetect prints a line.
Silencedetect ==
    /\ at = "reading" /\ ~hung
    /\ Event
    /\ quiet' = ~quiet
    /\ lines' = Append(lines, [silence |-> quiet', live |-> TRUE])
    /\ UNCHANGED <<at, source, cause, stopped, command, muted, silence, hung, call, started, inCall, air>>

\* It hangs, or goes on.
Hang ==
    /\ at = "reading"
    /\ Event
    /\ hung' = ~hung
    /\ UNCHANGED <<at, source, cause, stopped, command, muted, silence, lines, quiet, call, started,
                   inCall, air>>

\* logCommandOutput and ParseLine: the readers of two sessions do not wait for
\* each other.
ParseLine(i) ==
    /\ i \in DOMAIN lines
    /\ \A j \in 1..i - 1 : lines[j].live # lines[i].live
    /\ silence' = lines[i].silence
    /\ lines' = RemoveAt(lines, i)
    /\ UNCHANGED <<at, source, cause, stopped, command, muted, quiet, hung, call, started, inCall, air, events>>

-----------------------------------------------------------------------------
RunLoop == StartSession \/ (cause # "none" /\ ReadEnds) \/ EndSession \/ Delay \/ Return

Next ==
    \/ StartSession \/ Frame \/ ReadEnds \/ EndSession \/ Delay \/ Return
    \/ WatchStall
    \/ \E c \in {"skip", "reload"} : Command(c)
    \/ CommandCancels
    \/ \E m \in BOOLEAN : SetMuted(m)
    \/ Stop
    \/ Silencedetect \/ Hang
    \/ \E i \in 1..MaxEvents : ParseLine(i)

\* Goroutines run, a killed process ends, a stream that does not hang brings
\* frames.
Fairness ==
    /\ WF_vars(RunLoop)
    /\ WF_vars(Frame)
    /\ WF_vars(WatchStall)
    /\ WF_vars(CommandCancels)

Spec == Init /\ [][Next]_vars
FairSpec == Spec /\ Fairness

-----------------------------------------------------------------------------
(* Properties                                                              *)

\* On the talkgroup there is the call the session knows it has started, and
\* nothing between two sessions: however a session ends, "receivers don't sit on a
\* held carrier".
NothingLeftOpen ==
    air = IF at \in {"reading", "ending"} /\ started THEN {call} ELSE {}

\* Type correctness and this.
RadioSound == TypeOK /\ NothingLeftOpen

\* Muting ends the transmission; if the stream hangs, the watchdog does.
MuteHeeded == muted ~> (~muted \/ air = {})

\* Stop, which waits for runLoop, returns.
StopReturns == stopped ~> (at = "done" /\ air = {})

\* A command that reaches its session ends it, and a stream that hangs does not
\* keep it: the next source is taken.
Failover ==
    \A s \in 0..Sources - 1 :
        (at \in {"reading", "ending"} /\ source = s /\ cause \in {"stall", "skip"})
            ~> (source # s \/ stopped)

\* A hanging stream is noticed, also while the session waits for its processes.
HangNoticed ==
    (at \in {"reading", "ending"} /\ hung) ~> (~hung \/ cause # "none")

\* What the loops owe their operators.
Responsive == MuteHeeded /\ StopReturns /\ Failover /\ HangNoticed
=============================================================================
