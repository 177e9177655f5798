------------------------------ MODULE MCServer ------------------------------
(***************************************************************************)
(* Small instances of the parts of one server that share no state: part    *)
(* says which of them a behaviour is about.                                *)
(***************************************************************************)
EXTENDS ServerParts, Naturals, Sequences

VARIABLE part

\* Call a is between radios, call b is to the echo, call g to the group.
Calls == {"a", "b", "g"}
CallFrom == [id \in Calls |-> "c1"]
CallTo == [a |-> "c2", b |-> "echo", g |-> "group"]
\* One radio that is known at two base stations.
OneAlias == [c1 |-> "r1", c2 |-> "r1"]
\* Addresses with and without a lowest byte that looks like a protocol, texts
\* with and without one where a wrapped message has its protocol.
Messages ==
    [src : {101, 900000, 2621442, 130}, dst : {202},
     m : [type : {0, 2}, report : {3}, storage : {1}, ref : {7}, v2 : {0, 1},
          scheme : {1}, function : {1, 4}, number : {0, 9, 17, 255},
          severity : {15}, group : {2}, stamp : {0}, receipt : {1},
          status : {0, 1}, end : {0, 1}, noPtt : {0},
          text : {<<>>, <<111, 10>>}]]

\* Call control of every length class and with zero bytes in every part, frames
\* that are and are not as long as they say, messages the server builds itself.
Base(z) == [i \in 1..52 |-> IF i = z THEN 0 ELSE i]
Body(n, z) == SubSeq(Base(z), 1, n)
Wrapped(src, m) == Cod!Wrap(src, 202, m)
Packets ==
    [class : {"call"}, type : 0..18,
     body : {Body(n, z) : n \in {0, 1, 2, 8, 9, 12, 13, 24, 25, 39, 40, 50, 51, 52}, z \in {0, 1, 9, 12, 39}}]
    \cup [class : {"frame"}, type : 0..5, bits : {0, 1, 8, 9, 16, 24, 72, 80, 88, 65535},
          body : {Wrapped(101, <<9, 1, 2>>), Wrapped(130, <<9, 1, 2>>), Wrapped(101, <<0>>),
                  Wrapped(0, <<9, 3>>), <<130, 3, 0, 7, 8, 9, 10, 11, 12>>, <<5>>, <<49>>,
                  <<69, 1>>, <<96, 0, 0>>, <<0, 1>>, <<>>}]
    \cup [class : {"error", "other"}, type : {0}, body : {<<1>>}]
    \cup [class : {"subscriber"}, type : {1}, body : {Body(n, 0) : n \in {15, 16, 21}}]
Statements ==
    [class : {"service"}, type : {1}, json : {<<>>, <<91, 93>>}]
    \cup [class : {"subscriber"}, type : {1}, number : {<<101, 5>>},
          groups : {<<>>, <<<<1, 2>>>>, <<<<1, 2>>, <<258, 0>>>>}]
OneCall == [src |-> 101, dst |-> 303]

allVars == <<part, staVars, sesVars, admVars, calVars, sdsVars, codVars, outVars,
             bufVars, proVars>>

\* What the codec is given in the behaviours that are not about it.
OneInput ==
    [src |-> 101, dst |-> 202,
     m |-> [type |-> 0, report |-> 3, storage |-> 1, ref |-> 7, v2 |-> 0, scheme |-> 1,
            function |-> 1, number |-> 9, severity |-> 15, group |-> 2, stamp |-> 0,
            receipt |-> 1, status |-> 0, end |-> 0, noPtt |-> 0, text |-> <<>>]]

\* What the theorems about these components assume of their constants.
ASSUME ServerInstance == PartsConstants

MCInit ==
    /\ part \in {"stations", "index", "sessions", "admission", "calls", "groups", "sds",
                 "codec", "callouts", "buffers", "protocol"}
    /\ Sta!Init
    /\ Ses!Init
    /\ Adm!Init
    /\ Cal!Init
    /\ Sds!Init
    /\ part = "codec" \/ input = OneInput
    /\ Cod!Init
    /\ Out!Init
    /\ part = "buffers" \/ which = "activity"
    /\ Buf!Init
    /\ part = "protocol" \/ packet = [class |-> "other", type |-> 0, body |-> <<1>>]
    /\ Pro!Init

\* The behaviours "stations" are about one station on two servers, "index" about two
\* on one, which compete for a radio.
OneStation == \A n \in Sta!Server : items[n]["s2"] = Sta!None
OneServer == now["B"] = 1 /\ \A s \in Sid : items["B"][s] = Sta!None

\* The behaviours "calls" are about the calls of radios, "groups" about the group's:
\* the call nobody places.
Unplaced == IF part = "calls" THEN "g" ELSE "a"

MCNext ==
    \/ part = "stations" /\ Sta!Next /\ OneStation'
       /\ UNCHANGED <<part, sesVars, admVars, calVars, sdsVars, codVars, outVars, bufVars, proVars>>
    \/ part = "index" /\ Sta!Next /\ OneServer'
       /\ UNCHANGED <<part, sesVars, admVars, calVars, sdsVars, codVars, outVars, bufVars, proVars>>
    \/ part = "sessions" /\ Ses!Next
       /\ UNCHANGED <<part, staVars, admVars, calVars, sdsVars, codVars, outVars, bufVars, proVars>>
    \/ part = "admission" /\ Adm!Next
       /\ UNCHANGED <<part, staVars, sesVars, calVars, sdsVars, codVars, outVars, bufVars, proVars>>
    \/ part \in {"calls", "groups"} /\ Cal!Next /\ \A c \in Client : phone'[c][Unplaced] = "idle"
       /\ UNCHANGED <<part, staVars, sesVars, admVars, sdsVars, codVars, outVars, bufVars, proVars>>
    \/ part = "sds" /\ Sds!Next
       /\ UNCHANGED <<part, staVars, sesVars, admVars, calVars, codVars, outVars, bufVars, proVars>>
    \/ part = "codec" /\ Cod!Next
       /\ UNCHANGED <<part, staVars, sesVars, admVars, calVars, sdsVars, outVars, bufVars, proVars>>
    \/ part = "callouts" /\ Out!Next
       /\ UNCHANGED <<part, staVars, sesVars, admVars, calVars, sdsVars, codVars, bufVars, proVars>>
    \/ part = "buffers" /\ Buf!Next
       /\ UNCHANGED <<part, staVars, sesVars, admVars, calVars, sdsVars, codVars, outVars, proVars>>
    \/ part = "protocol" /\ Pro!Next
       /\ UNCHANGED <<part, staVars, sesVars, admVars, calVars, sdsVars, codVars, outVars, bufVars>>

\* The fairness of the parts' own modules.
MCFairness ==
    /\ \A n \in Sta!Server :
          /\ WF_staVars(part = "stations" /\ Sta!Sync(n, "s1"))
          /\ SF_staVars(part = "stations" /\ Sta!Receive(n, "s1"))
    /\ \A c \in Client :
          /\ WF_sesVars(part = "sessions" /\ ~crashed /\ Ses!SessionStep(c))
          /\ WF_sesVars(part = "sessions" /\ ~crashed /\ Ses!WriterStep(c))
          /\ WF_sesVars(part = "sessions" /\ ~crashed /\ \E d \in Client : Ses!Enqueue(c, d))
          /\ WF_calVars(part \in {"calls", "groups"} /\ Cal!ReadLoop(c))

MCSpec == MCInit /\ [][MCNext]_allVars /\ MCFairness

-----------------------------------------------------------------------------
(* The properties that are not ServerParts'.                               *)

\* DeletesConverge, of the behaviours whose fairness is the stations'.
StationDeletes == part = "stations" => Sta!DeletesConverge
\* Both loops of a broken session end.
BrokenEnds == Ses!BrokenEnds
\* Whoever takes part in a call hears of its end.
HangUpHeard == part \in {"calls", "groups"} => Cal!HangUpHeard
=============================================================================
