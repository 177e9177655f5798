---------------------------- MODULE CallControl ----------------------------
(***************************************************************************)
(* Call control inside one server: base stations whose radios call each    *)
(* other, a group or the virtual circuit endpoint (echo).  Every base      *)
(* station has one radio, which bears its name, and its read loop handles  *)
(* its messages one after the other.                                       *)
(*                                                                         *)
(* onCallControlFromClient reads the call's entry under callMu, works with *)
(* what it has read, and takes the lock again to write the entry and again *)
(* to delete it: the steps of two read loops mix.  Federation is off here, *)
(* PrivateCall has the calls that leave the server.                        *)
(***************************************************************************)
EXTENDS Naturals, Sequences

CONSTANTS Client, Call,
          From,     \* From[id]: the base station whose radio places the call
          To        \* To[id]: the base station called, Echo or Group

Echo == "echo"    \* Echo.VirtualISSI
Group == "group"

\* What the proofs assume of the constants.
CallConstants ==
    /\ {Echo, Group, "none"} \cap Client = {}
    /\ From \in [Call -> Client]
    /\ To \in [Call -> Client \cup {Echo, Group}]

VARIABLES tracked,   \* Service.calls
          circuits,  \* Service.virtualCircuitCalls: the calls in it
          shown,     \* the call's entry in the last-heard buffer
          link,      \* link[c]: "up", "broken" or "ended"
          phone,     \* phone[c][id]: the call as c's radio sees it
          uplink,    \* uplink[c]: messages not read yet
          job        \* job[c]: what c's read loop is working on

vars == <<tracked, circuits, shown, link, phone, uplink, job>>

NoCall == [src |-> "none", dst |-> "none", type |-> "none", origin |-> "none"]
Idle == [at |-> "idle"]

State == {"setup", "alert", "connect", "groupTX", "groupIdle", "reject", "release"}
ShouldTrack == {"groupTX", "setup", "connect"}
ShouldRelease == {"groupIdle", "release", "reject"}
Party == Client \cup {Echo, Group, "none"}

TypeOK ==
    /\ \A id \in Call :
          /\ tracked[id].src \in Client \cup {"none"}
          /\ tracked[id].dst \in Party
          /\ tracked[id].type \in {"none", "subscriber", "group"}
          /\ tracked[id].origin \in Client \cup {"none"}
    /\ circuits \subseteq Call
    /\ shown \in [Call -> {"none", "active", "ended"}]
    /\ link \in [Client -> {"up", "broken", "ended"}]
    /\ phone \in [Client -> [Call -> {"idle", "calling", "ringing", "talking", "listening", "over"}]]
    /\ \A c \in Client :
          /\ \A i \in 1..Len(uplink[c]) : uplink[c][i] \in Call \X State
          /\ job[c].at \in {"idle", "track", "route", "untrack", "tell"}

Init ==
    /\ tracked = [id \in Call |-> NoCall]
    /\ circuits = {}
    /\ shown = [id \in Call |-> "none"]
    /\ link = [c \in Client |-> "up"]
    /\ phone = [c \in Client |-> [id \in Call |-> "idle"]]
    /\ uplink = [c \in Client |-> <<>>]
    /\ job = [c \in Client |-> Idle]

-----------------------------------------------------------------------------
(* The base stations                                                       *)

Signal(c, id, from, state, to) ==
    /\ link[c] = "up"
    /\ phone[c][id] \in from
    /\ phone' = [phone EXCEPT ![c][id] = to]
    /\ uplink' = [uplink EXCEPT ![c] = Append(@, <<id, state>>)]
    /\ UNCHANGED <<tracked, circuits, shown, link, job>>

\* The radio places the call, lets it ring, answers it, hangs up.
Place(c, id) ==
    /\ c = From[id]
    /\ IF To[id] = Group THEN Signal(c, id, {"idle"}, "groupTX", "talking")
       ELSE Signal(c, id, {"idle"}, "setup", "calling")
Alert(c, id) ==
    /\ \A i \in 1..Len(uplink[c]) : uplink[c][i] # <<id, "alert">>
    /\ Signal(c, id, {"ringing"}, "alert", "ringing")
Answer(c, id) == Signal(c, id, {"ringing"}, "connect", "talking")
HangUp(c, id) ==
    IF To[id] = Group THEN c = From[id] /\ Signal(c, id, {"talking"}, "groupIdle", "over")
    ELSE \/ Signal(c, id, {"ringing"}, "reject", "over")
         \/ Signal(c, id, {"calling", "talking"}, "release", "over")

\* A base station's connection breaks: what it sent is lost, its radio's calls
\* are over.
Break(c) ==
    /\ link[c] = "up"
    /\ link' = [link EXCEPT ![c] = "broken"]
    /\ uplink' = [uplink EXCEPT ![c] = <<>>]
    /\ phone' = [phone EXCEPT ![c] = [id \in Call |-> IF phone[c][id] = "idle" THEN "idle" ELSE "over"]]
    /\ UNCHANGED <<tracked, circuits, shown, job>>

-----------------------------------------------------------------------------
(* Delivery                                                                *)

\* What a base station makes of a message about a call.
Hear(p, state) ==
    CASE state = "setup" /\ p = "idle" -> "ringing"
      [] state = "connect" /\ p = "calling" -> "talking"
      [] state = "groupTX" /\ p = "idle" -> "listening"
      [] state \in ShouldRelease /\ p # "idle" -> "over"
      [] OTHER -> p

\* BroadcastToGroup and BroadcastToSubscriber.
Recipients(type, dest, except) ==
    {d \in Client \ {except} : link[d] = "up" /\ (type = "group" \/ d = dest)}

Deliver(to, id, state) ==
    phone' = [d \in Client |-> IF d \in to THEN [phone[d] EXCEPT ![id] = Hear(@, state)]
                               ELSE phone[d]]

-----------------------------------------------------------------------------
(* onCallControlFromClient                                                 *)

\* callRoutingHint: a payload's source and destination, where it has them.  An
\* answer carries the pair of the setup or the same turned round.
PayloadRoutes(c, id, state) ==
    IF state = "connect" THEN {[src |-> From[id], dst |-> To[id]], [src |-> c, dst |-> From[id]]}
    ELSE IF state \in ShouldTrack THEN {[src |-> From[id], dst |-> To[id]]}
    ELSE {[src |-> "none", dst |-> "none"]}

\* Where the message goes: resolveSubscriberCallRoute for the calls of two
\* radios; target is the client it is sent to, if there is just one.
Route(c, given, state, entry) ==
    LET type == IF state \in {"setup", "connect"} THEN "subscriber"
                ELSE IF entry = NoCall THEN "group" ELSE entry.type
        dest == IF entry = NoCall THEN given.dst
                ELSE IF entry.type = "group" THEN entry.dst
                ELSE IF c # entry.origin THEN entry.src
                ELSE IF c = entry.dst THEN entry.src ELSE entry.dst
        target == IF entry.type = "subscriber" /\ c # entry.origin THEN entry.origin ELSE "none"
    IN [type |-> type, dest |-> dest, target |-> target,
        src |-> IF given.src # "none" THEN given.src ELSE entry.src]

\* A message is read and its call looked up; dropped if there is no route.
Lookup(c) ==
    /\ link[c] = "up" /\ job[c] = Idle /\ uplink[c] # <<>>
    /\ LET id == Head(uplink[c])[1]
           state == Head(uplink[c])[2] IN
          \E given \in PayloadRoutes(c, id, state) :
             LET route == Route(c, given, state, tracked[id]) IN
                job' = [job EXCEPT ![c] =
                          IF route.dest = "none" THEN Idle
                          ELSE [at |-> "track", id |-> id, state |-> state,
                                existing |-> tracked[id], route |-> route]]
    /\ uplink' = [uplink EXCEPT ![c] = Tail(@)]
    /\ UNCHANGED <<tracked, circuits, shown, link, phone>>

\* The entry as the message's own payload gives it.
EntryAsGiven(c, j) ==
    [src |-> j.route.src, dst |-> j.route.dest, type |-> j.route.type, origin |-> c]

\* The entry: an answer keeps the end points and the origin of the setup.
Entry(c, j) ==
    IF j.state = "connect" /\ j.existing.type = "subscriber"
    THEN [j.existing EXCEPT !.type = j.route.type]
    ELSE [src |-> j.route.src, dst |-> j.route.dest, type |-> j.route.type, origin |-> c]

\* LastHeardBuffer.Start that takes up an entry again, and as it is.
StartAgain(s) == "active"
Start(s) == IF s = "none" THEN "active" ELSE s
\* LastHeardBuffer.End.
End(s) == IF s = "active" THEN "ended" ELSE s

\* shouldTrackCallState: the entry is written.
Track(c) ==
    /\ job[c].at = "track"
    /\ LET j == job[c] IN
          IF j.state \in ShouldTrack
          THEN /\ tracked' = [tracked EXCEPT ![j.id] = Entry(c, j)]
               /\ shown' = [shown EXCEPT ![j.id] = Start(@)]
          ELSE UNCHANGED <<tracked, shown>>
    /\ job' = [job EXCEPT ![c].at = "route"]
    /\ UNCHANGED <<circuits, link, phone, uplink>>

\* maybeHandleVirtualCircuitCallControl: the calls it takes.
IsVirtual(j) == j.id \in circuits \/ (j.route.dest = Echo /\ j.state \in {"setup", "connect"})

\* The virtual end point alerts and connects at once; a release removes both
\* entries here, and the last-heard entry stays.
Virtual(c) ==
    /\ job[c].at = "route" /\ IsVirtual(job[c])
    /\ LET j == job[c] IN
          /\ IF j.state = "setup"
             THEN Deliver(Recipients("subscriber", j.route.src, "none"), j.id, "connect")
             ELSE UNCHANGED phone
          /\ IF j.state \in ShouldRelease
             THEN circuits' = circuits \ {j.id} /\ tracked' = [tracked EXCEPT ![j.id] = NoCall]
             ELSE circuits' = circuits \cup {j.id} /\ UNCHANGED tracked
    /\ job' = [job EXCEPT ![c] = Idle]
    /\ UNCHANGED <<shown, link, uplink>>

\* As below with the sender's own view of the destination: a reply to the radio
\* that is called, not to the one that calls.
ReceiversForward(c, route) == Recipients(route.type, IF route.target # "none" THEN c ELSE route.dest, c)

\* The client a reply is for, or everybody at the destination.
Receivers(c, route) ==
    IF route.target # "none" /\ link[route.target] = "up" THEN {route.target}
    ELSE Recipients(route.type, route.dest, c)

\* SendToClient, or the broadcast.
Forward(c) ==
    /\ job[c].at = "route" /\ ~IsVirtual(job[c])
    /\ Deliver(Receivers(c, job[c].route), job[c].id, job[c].state)
    /\ job' = IF job[c].state \in ShouldRelease THEN [job EXCEPT ![c].at = "untrack"]
              ELSE [job EXCEPT ![c] = Idle]
    /\ UNCHANGED <<tracked, circuits, shown, link, uplink>>

\* shouldReleaseCallState.
Untrack(c) ==
    /\ job[c].at = "untrack"
    /\ tracked' = [tracked EXCEPT ![job[c].id] = NoCall]
    /\ circuits' = circuits \ {job[c].id}
    /\ shown' = [shown EXCEPT ![job[c].id] = End(@)]
    /\ job' = [job EXCEPT ![c] = Idle]
    /\ UNCHANGED <<link, phone, uplink>>

-----------------------------------------------------------------------------
(* OnDisconnect                                                            *)

\* The calls a lost session leaves behind: those it placed.
Orphans(c) == {id \in Call : tracked[id].origin = c}

Disconnect(c) ==
    /\ link[c] = "broken" /\ job[c] = Idle
    /\ link' = [link EXCEPT ![c] = "ended"]
    /\ job' = [job EXCEPT ![c] = [at |-> "tell", calls |-> [id \in Orphans(c) |-> tracked[id]]]]
    /\ tracked' = [id \in Call |-> IF id \in Orphans(c) THEN NoCall ELSE tracked[id]]
    /\ shown' = [id \in Call |-> IF id \in Orphans(c) THEN End(shown[id]) ELSE shown[id]]
    /\ UNCHANGED <<circuits, phone, uplink>>

\* A release to the other end of each.
Tell(c, id) ==
    /\ job[c].at = "tell" /\ id \in DOMAIN job[c].calls
    /\ LET entry == job[c].calls[id] IN
          Deliver(Recipients(entry.type, entry.dst, c), id, "release")
    /\ job' = [job EXCEPT ![c].calls = [i \in DOMAIN job[c].calls \ {id} |-> job[c].calls[i]]]
    /\ UNCHANGED <<tracked, circuits, shown, link, uplink>>

-----------------------------------------------------------------------------

ReadLoop(c) ==
    \/ Lookup(c) \/ Track(c) \/ Virtual(c) \/ Forward(c) \/ Untrack(c) \/ Disconnect(c)
    \/ \E id \in Call : Tell(c, id)

Next ==
    \E c \in Client :
        \/ \E id \in Call : Place(c, id) \/ Alert(c, id) \/ Answer(c, id) \/ HangUp(c, id)
        \/ Break(c)
        \/ ReadLoop(c)

Spec == Init /\ [][Next]_vars
FairSpec == Spec /\ \A c \in Client : WF_vars(ReadLoop(c))

-----------------------------------------------------------------------------
(* Properties                                                              *)

Private == {id \in Call : To[id] \in Client}

\* Until the caller hangs up, the entry of a call between two radios is the pair
\* of its setup and the session it came from, whoever answers and with whatever
\* payload ("Keep the tracked call endpoints anchored to the original
\* SetupRequest pair").
Anchored ==
    \A id \in Private :
        tracked[id] # NoCall /\ phone[From[id]][id] # "over" =>
            tracked[id] = [src |-> From[id], dst |-> To[id], type |-> "subscriber",
                           origin |-> From[id]]

Settled == \A c \in Client : job[c].at \in {"idle", "tell"} /\ link[c] # "broken" /\ uplink[c] = <<>>

\* The public page shows no call of two radios or of a group that its caller has
\* left: also when an answer was under way while the caller hung up.
ShownLive ==
    Settled => \A id \in Call :
        To[id] # Echo /\ shown[id] = "active" => phone[From[id]][id] # "over"

\* When the caller hangs up or loses its base station nobody keeps ringing,
\* talking or listening; when the called radio hangs up neither does the caller,
\* unless the called radio's session breaks as well.
HangUpHeard ==
    \A id \in Call : \A c \in Client \ {From[id]} :
        /\ (phone[From[id]][id] = "over") ~> (phone[c][id] \in {"idle", "over"})
        /\ (phone[c][id] = "over" /\ To[id] = c)
               ~> (phone[From[id]][id] = "over" \/ link[c] # "up")
=============================================================================
