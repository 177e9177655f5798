-------------------------- MODULE CallControlProofs --------------------------
(***************************************************************************)
(* Proofs about CallControl, for any number of base stations and calls:    *)
(* the entry of a call stays what its setup made it while the caller is in *)
(* the call, and a call its caller has left is not shown for ever.         *)
(***************************************************************************)
EXTENDS ServerParts, Integers, Sequences, SequenceTheorems, TLAPS

\* The calls of radios and groups, and the entry the setup makes of one.
Real == {id \in Call : To[id] # Cal!Echo}
Kind(id) == IF To[id] = Cal!Group THEN "group" ELSE "subscriber"
Opening(id) == IF To[id] = Cal!Group THEN "groupTX" ELSE "setup"
Anchor(id) == [src |-> From[id], dst |-> To[id], type |-> Kind(id), origin |-> From[id]]

\* The caller has left; the last-heard entry is closed.
Over(id) == phone[From[id]][id] = "over"
Ended(id) == shown[id] = "ended"

\* A read loop is working on a message about the call.
About(c, id) == job[c].at \in {"track", "route", "untrack"} /\ job[c].id = id

-----------------------------------------------------------------------------
(* Types                                                                   *)

Standing == {"idle", "calling", "ringing", "talking", "listening", "over"}
EntrySet == [src : Client \cup {"none"}, dst : Cal!Party, type : {"none", "subscriber", "group"},
             origin : Client \cup {"none"}]
RouteSet == [type : {"none", "subscriber", "group"}, dest : Cal!Party, target : Client \cup {"none"},
             src : Client \cup {"none"}]
Working == [at : {"track", "route", "untrack"}, id : Call, state : Cal!State, existing : EntrySet,
            route : RouteSet]

Types ==
    /\ tracked \in [Call -> EntrySet]
    /\ circuits \subseteq Call
    /\ shown \in [Call -> {"none", "active", "ended"}]
    /\ link \in [Client -> {"up", "broken", "ended"}]
    /\ phone \in [Client -> [Call -> Standing]]
    /\ uplink \in [Client -> Seq(Call \X Cal!State)]
    /\ DOMAIN job = Client
    /\ \A c \in Client :
          \/ job[c] = Cal!Idle
          \/ job[c] \in Working
          \/ /\ job[c].at = "tell" /\ job[c] = [at |-> "tell", calls |-> job[c].calls]
             /\ DOMAIN job[c].calls \subseteq Call
             /\ job[c].calls \in [DOMAIN job[c].calls -> EntrySet]

-----------------------------------------------------------------------------
(* The invariant                                                           *)

\* A message of c about a call: the caller opens and ends it, the others answer.
MessageOK(c, id, state) ==
    /\ phone[c][id] # "idle" /\ phone[From[id]][id] # "idle"
    /\ IF c = From[id] THEN state = Opening(id) \/ (state \in Cal!ShouldRelease /\ Over(id))
       ELSE To[id] # Cal!Group /\ state \in {"alert", "connect", "reject", "release"}

\* The entries of real calls: as the setup made them, or the call has ended.
EntriesOK ==
    \A id \in Real :
        /\ id \notin circuits
        /\ tracked[id] # Cal!NoCall =>
              /\ tracked[id].type = Kind(id)
              /\ tracked[id].src \in Client /\ tracked[id].origin \in Client
              /\ tracked[id].dst \in Client \cup {Cal!Group}
              /\ phone[From[id]][id] # "idle"
              /\ shown[id] # "none"
        /\ tracked[id] \in {Cal!NoCall, Anchor(id)} \/ Ended(id)
        /\ shown[id] = "active" => tracked[id] = Anchor(id)
        /\ Ended(id) => Over(id)

\* Who takes part in a call does so because it was set up.
PhonesOK ==
    /\ \A id \in Real :
          /\ phone[From[id]][id] \in {"idle", "calling", "talking", "over"}
          /\ \A c \in Client \ {From[id]} : phone[c][id] # "idle" =>
                /\ phone[From[id]][id] # "idle"
                /\ tracked[id] = Anchor(id) \/ Ended(id)
                /\ To[id] = Cal!Group => phone[c][id] \in {"listening", "over"}
                /\ To[id] # Cal!Group => phone[c][id] \in {"ringing", "talking", "over"}
    /\ \A c \in Client : link[c] # "up" =>
          /\ \A id \in Call : phone[c][id] \in {"idle", "over"}
          /\ uplink[c] = <<>>
    /\ \A c \in Client : link[c] = "ended" <=> job[c].at = "tell"

UplinksOK ==
    \A c \in Client : \A i \in DOMAIN uplink[c] :
        uplink[c][i][1] \in Real => MessageOK(c, uplink[c][i][1], uplink[c][i][2])

\* What a read loop has looked up is still right, or the call has ended.
JobOK(c, id) ==
    /\ About(c, id) =>
          LET j == job[c] IN
          /\ MessageOK(c, id, j.state)
          /\ j.route.type = Kind(id)
          /\ j.route.dest \in Client \cup {Cal!Group} /\ j.route.src \in Client
          /\ j.existing # Cal!NoCall =>
                /\ j.existing.type = Kind(id)
                /\ j.existing.src \in Client /\ j.existing.origin \in Client
                /\ j.existing.dst \in Client \cup {Cal!Group}
          /\ j.at = "track" /\ j.state = Opening(id) =>
                (j.route.src = From[id] /\ j.route.dest = To[id]) \/ Ended(id)
          /\ j.at = "route" /\ j.state = Opening(id) => tracked[id] = Anchor(id) \/ Ended(id)
          /\ j.state = "connect" => j.existing = Anchor(id) \/ Ended(id)
          /\ j.at # "untrack" /\ j.state \in Cal!ShouldRelease =>
                c = From[id] \/ j.route.target = From[id] \/ Ended(id)
          /\ j.at = "untrack" => j.state \in Cal!ShouldRelease /\ Over(id)
    /\ job[c].at = "tell" /\ c # From[id] /\ id \in DOMAIN job[c].calls => Ended(id)

JobsOK == \A c \in Client : \A id \in Real : JobOK(c, id)

\* The caller's opening is being tracked, or waits before its message i.
Tracking(id) ==
    About(From[id], id) /\ job[From[id]].at = "track" /\ job[From[id]].state = Opening(id)
Open(id, k) == uplink[From[id]][k][1] = id /\ uplink[From[id]][k][2] = Opening(id)
Unopened(id, i) == Tracking(id) \/ \E k \in 1..i - 1 : Open(id, k)

\* The caller's message i ends the call; a release of it is being handled.
Ending(id, i) == uplink[From[id]][i][1] = id /\ uplink[From[id]][i][2] \in Cal!ShouldRelease
Releasing(id) == \E c \in Client : About(c, id) /\ job[c].state \in Cal!ShouldRelease

\* What will close the last-heard entry of a call whose caller has left.
Closing(id) ==
    /\ Over(id) /\ shown[id] = "active" =>
          \/ link[From[id]] = "broken"
          \/ \E i \in DOMAIN uplink[From[id]] : Ending(id, i)
          \/ Releasing(id)
    /\ Over(id) /\ shown[id] = "none" =>
          \/ link[From[id]] # "up"
          \/ \E i \in DOMAIN uplink[From[id]] : Ending(id, i)
    /\ shown[id] = "none" /\ link[From[id]] = "up" =>
          /\ phone[From[id]][id] # "idle" =>
                 Tracking(id) \/ \E k \in DOMAIN uplink[From[id]] : Open(id, k)
          /\ \A i \in DOMAIN uplink[From[id]] : Ending(id, i) => Unopened(id, i)

ClosingOK == \A id \in Real : Closing(id)

CallInv == Types /\ EntriesOK /\ PhonesOK /\ UplinksOK /\ JobsOK /\ ClosingOK

-----------------------------------------------------------------------------
(* Facts about the operators                                               *)

\* What a radio makes of a message: it stays in the call, and out of it once it
\* is over.
LEMMA HearFacts ==
    ASSUME NEW p \in Standing, NEW state \in Cal!State
    PROVE  /\ Cal!Hear(p, state) \in Standing
           /\ p # "idle" => Cal!Hear(p, state) # "idle"
           /\ p = "over" => Cal!Hear(p, state) = "over"
           /\ Cal!Hear(p, state) # p =>
                 \/ p = "idle" /\ state = "setup" /\ Cal!Hear(p, state) = "ringing"
                 \/ p = "idle" /\ state = "groupTX" /\ Cal!Hear(p, state) = "listening"
                 \/ p = "calling" /\ state = "connect" /\ Cal!Hear(p, state) = "talking"
                 \/ p # "idle" /\ state \in Cal!ShouldRelease /\ Cal!Hear(p, state) = "over"
           /\ p # "idle" /\ state \in Cal!ShouldRelease => Cal!Hear(p, state) = "over"
  BY DEF Cal!Hear, Standing, Cal!State, Cal!ShouldRelease

\* Delivery, radio by radio.
LEMMA DeliverFacts ==
    ASSUME Types, NEW to \in SUBSET Client, NEW id \in Call, NEW state \in Cal!State,
           Cal!Deliver(to, id, state)
    PROVE  /\ phone' \in [Client -> [Call -> Standing]]
           /\ \A d \in Client, x \in Call :
                 phone'[d][x] = IF d \in to /\ x = id THEN Cal!Hear(phone[d][x], state) ELSE phone[d][x]
  <1>1. phone \in [Client -> [Call -> Standing]]
    BY DEF Types
  <1>2. ASSUME NEW d \in Client, NEW x \in Call
        PROVE  /\ phone'[d][x] = IF d \in to /\ x = id THEN Cal!Hear(phone[d][x], state)
                                 ELSE phone[d][x]
               /\ phone'[d][x] \in Standing
    BY <1>1, HearFacts DEF Cal!Deliver
  <1>3. \A d \in Client : phone'[d] \in [Call -> Standing]
    BY <1>1, <1>2 DEF Cal!Deliver
  <1> QED
    BY <1>2, <1>3 DEF Cal!Deliver

\* What the radios' four operations do.
Sent(c, id, state, standing) ==
    /\ link[c] = "up"
    /\ phone' = [phone EXCEPT ![c][id] = standing]
    /\ uplink' = [uplink EXCEPT ![c] = Append(@, <<id, state>>)]
    /\ UNCHANGED <<tracked, circuits, shown, link, job>>
    /\ \/ /\ c = From[id] /\ state = Opening(id)
          /\ phone[c][id] = "idle" /\ standing \in {"calling", "talking"}
       \/ /\ state \in {"alert", "connect"}
          /\ phone[c][id] = "ringing" /\ standing \in {"ringing", "talking"}
       \/ /\ state \in Cal!ShouldRelease /\ standing = "over"
          /\ phone[c][id] \in {"calling", "ringing", "talking"}
          /\ IF To[id] = Cal!Group THEN c = From[id] ELSE state \in {"reject", "release"}

LEMMA SendFacts ==
    ASSUME NEW c \in Client, NEW id \in Call,
           Cal!Place(c, id) \/ Cal!Alert(c, id) \/ Cal!Answer(c, id) \/ Cal!HangUp(c, id)
    PROVE  \E state \in Cal!State, standing \in Standing : Sent(c, id, state, standing)
  <1> USE DEF Cal!Signal, Sent, Cal!State, Standing, Cal!ShouldRelease
  <1>1. CASE Cal!Place(c, id) /\ To[id] = Cal!Group
    <2>1. Sent(c, id, "groupTX", "talking")
      BY <1>1 DEF Cal!Place, Opening
    <2> QED BY <2>1
  <1>2. CASE Cal!Place(c, id) /\ To[id] # Cal!Group
    <2>1. Sent(c, id, "setup", "calling")
      BY <1>2 DEF Cal!Place, Opening
    <2> QED BY <2>1
  <1>3. CASE Cal!Alert(c, id)
    <2>1. Sent(c, id, "alert", "ringing")
      BY <1>3 DEF Cal!Alert
    <2> QED BY <2>1
  <1>4. CASE Cal!Answer(c, id)
    <2>1. Sent(c, id, "connect", "talking")
      BY <1>4 DEF Cal!Answer
    <2> QED BY <2>1
  <1>5. CASE Cal!HangUp(c, id)
    <2>1. CASE To[id] = Cal!Group
      <3>1. Sent(c, id, "groupIdle", "over")
        BY <1>5, <2>1 DEF Cal!HangUp
      <3> QED BY <3>1
    <2>2. CASE To[id] # Cal!Group
      <3>1. Sent(c, id, "reject", "over") \/ Sent(c, id, "release", "over")
        BY <1>5, <2>2 DEF Cal!HangUp
      <3> QED BY <3>1
    <2> QED BY <2>1, <2>2
  <1> QED BY <1>1, <1>2, <1>3, <1>4, <1>5

-----------------------------------------------------------------------------
(* Types                                                                   *)

LEMMA NoCallType == Cal!NoCall \in EntrySet
  BY DEF Cal!NoCall, EntrySet, Cal!Party

\* A job by its kind: the three kinds of record differ in what they are at.
LEMMA JobKinds ==
    ASSUME Types, NEW c \in Client
    PROVE  /\ job[c] = Cal!Idle <=> job[c].at = "idle"
           /\ job[c].at \in {"track", "route", "untrack"} => job[c] \in Working
           /\ job[c].at \in {"idle", "track", "route", "untrack", "tell"}
  BY DEF Types, Working, Cal!Idle

LEMMA RouteType ==
    ASSUME Cal!CallConstants, NEW c \in Client, NEW id \in Call, NEW state \in Cal!State,
           NEW entry \in EntrySet, NEW given \in Cal!PayloadRoutes(c, id, state)
    PROVE  Cal!Route(c, given, state, entry) \in RouteSet
  <1>1. given.src \in Client \cup {"none"} /\ given.dst \in Cal!Party
    BY DEF Cal!PayloadRoutes, Cal!CallConstants, Cal!Party, Cal!ShouldTrack
  <1> QED
    BY <1>1 DEF Cal!Route, RouteSet, EntrySet, Cal!Party

LEMMA EntryType ==
    ASSUME Cal!CallConstants, NEW c \in Client, NEW j \in Working
    PROVE  Cal!Entry(c, j) \in EntrySet
  BY DEF Cal!Entry, EntrySet, RouteSet, Working, Cal!CallConstants, Cal!Party

LEMMA ReceiversType ==
    ASSUME NEW c, NEW route
    PROVE  /\ \A type, dest, except : Cal!Recipients(type, dest, except) \subseteq Client
           /\ route.target \in Client \cup {"none"} => Cal!Receivers(c, route) \subseteq Client
  BY DEF Cal!Recipients, Cal!Receivers

LEMMA TypesStep ==
    ASSUME Cal!CallConstants, Types, [Cal!Next]_(Cal!vars)
    PROVE  Types'
  <1> USE NoCallType
  <1>1. CASE UNCHANGED Cal!vars
    BY <1>1 DEF Cal!vars, Types
  <1>2. ASSUME NEW c \in Client, NEW id \in Call,
               Cal!Place(c, id) \/ Cal!Alert(c, id) \/ Cal!Answer(c, id) \/ Cal!HangUp(c, id)
        PROVE  Types'
    <2>1. PICK state \in Cal!State, standing \in Standing : Sent(c, id, state, standing)
      BY <1>2, SendFacts
    <2>2. uplink' \in [Client -> Seq(Call \X Cal!State)]
      BY <2>1 DEF Sent, Types
    <2>3. phone' \in [Client -> [Call -> Standing]]
      BY <2>1 DEF Sent, Types
    <2> QED
      BY <2>1, <2>2, <2>3 DEF Sent, Types
  <1>3. ASSUME NEW c \in Client, Cal!Break(c)
        PROVE  Types'
    <2>1. phone' \in [Client -> [Call -> Standing]]
      BY <1>3 DEF Cal!Break, Types, Standing
    <2> QED
      BY <1>3, <2>1 DEF Cal!Break, Types
  <1>4. ASSUME NEW c \in Client, Cal!Lookup(c)
        PROVE  Types'
    <2>1. uplink' \in [Client -> Seq(Call \X Cal!State)]
      BY <1>4 DEF Cal!Lookup, Types
    <2>2. Head(uplink[c]) \in Call \X Cal!State
      BY <1>4 DEF Cal!Lookup, Types
    <2> DEFINE id == Head(uplink[c])[1]
               state == Head(uplink[c])[2]
    <2>3. id \in Call /\ state \in Cal!State /\ tracked[id] \in EntrySet
      BY <2>2 DEF Types
    <2>4. PICK given \in Cal!PayloadRoutes(c, id, state) :
             job' = [job EXCEPT ![c] =
                       IF Cal!Route(c, given, state, tracked[id]).dest = "none" THEN Cal!Idle
                       ELSE [at |-> "track", id |-> id, state |-> state, existing |-> tracked[id],
                             route |-> Cal!Route(c, given, state, tracked[id])]]
      BY <1>4 DEF Cal!Lookup
    <2>5. Cal!Route(c, given, state, tracked[id]) \in RouteSet
      BY <2>3, RouteType
    <2> HIDE DEF id, state
    <2>6. job'[c] = Cal!Idle \/ job'[c] \in Working
      BY <2>3, <2>4, <2>5 DEF Working, Types
    <2> QED
      BY <1>4, <2>1, <2>4, <2>6 DEF Cal!Lookup, Types
  <1>5. ASSUME NEW c \in Client, Cal!Track(c)
        PROVE  Types'
    <2>1. job[c] \in Working
      BY <1>5, JobKinds DEF Cal!Track
    <2>2. tracked' \in [Call -> EntrySet]
      BY <1>5, <2>1, EntryType DEF Cal!Track, Types, Working
    <2>3. shown' \in [Call -> {"none", "active", "ended"}]
      BY <1>5, <2>1 DEF Cal!Track, Types, Working, Cal!Start
    <2>4. job'[c] \in Working /\ DOMAIN job' = Client /\ \A d \in Client \ {c} : job'[d] = job[d]
      BY <1>5, <2>1 DEF Cal!Track, Types, Working
    <2> QED
      BY <1>5, <2>2, <2>3, <2>4 DEF Cal!Track, Types
  <1>6. ASSUME NEW c \in Client, Cal!Virtual(c)
        PROVE  Types'
    <2>1. job[c] \in Working
      BY <1>6, JobKinds DEF Cal!Virtual
    <2>2. phone' \in [Client -> [Call -> Standing]]
      <3>1. CASE job[c].state = "setup"
        BY <1>6, <2>1, <3>1, DeliverFacts, ReceiversType DEF Cal!Virtual, Working, Cal!State
      <3>2. CASE job[c].state # "setup"
        BY <1>6, <3>2 DEF Cal!Virtual, Types
      <3> QED BY <3>1, <3>2
    <2>3. tracked' \in [Call -> EntrySet] /\ circuits' \subseteq Call
      BY <1>6, <2>1 DEF Cal!Virtual, Types, Working
    <2> QED
      BY <1>6, <2>2, <2>3 DEF Cal!Virtual, Types
  <1>7. ASSUME NEW c \in Client, Cal!Forward(c)
        PROVE  Types'
    <2>1. job[c] \in Working
      BY <1>7, JobKinds DEF Cal!Forward
    <2>2. phone' \in [Client -> [Call -> Standing]]
      BY <1>7, <2>1, DeliverFacts, ReceiversType DEF Cal!Forward, Working, RouteSet
    <2>3. /\ job'[c] = Cal!Idle \/ job'[c] \in Working
          /\ DOMAIN job' = Client /\ \A d \in Client \ {c} : job'[d] = job[d]
      BY <1>7, <2>1 DEF Cal!Forward, Types, Working
    <2> QED
      BY <1>7, <2>2, <2>3 DEF Cal!Forward, Types
  <1>8. ASSUME NEW c \in Client, Cal!Untrack(c)
        PROVE  Types'
    <2>1. job[c] \in Working
      BY <1>8, JobKinds DEF Cal!Untrack
    <2> QED
      BY <1>8, <2>1 DEF Cal!Untrack, Types, Working, Cal!End
  <1>9. ASSUME NEW c \in Client, Cal!Disconnect(c)
        PROVE  Types'
    <2>1. tracked' \in [Call -> EntrySet] /\ shown' \in [Call -> {"none", "active", "ended"}]
      BY <1>9 DEF Cal!Disconnect, Types, Cal!End
    <2>2. [i \in Cal!Orphans(c) |-> tracked[i]] \in [Cal!Orphans(c) -> EntrySet] /\ Cal!Orphans(c) \subseteq Call
      BY DEF Types, Cal!Orphans
    <2> QED
      BY <1>9, <2>1, <2>2 DEF Cal!Disconnect, Types
  <1>10. ASSUME NEW c \in Client, NEW id \in Call, Cal!Tell(c, id)
         PROVE  Types'
    <2>1. job[c] = [at |-> "tell", calls |-> job[c].calls]
          /\ job[c].calls \in [DOMAIN job[c].calls -> EntrySet] /\ DOMAIN job[c].calls \subseteq Call
      BY <1>10, JobKinds DEF Cal!Tell, Types, Working, Cal!Idle
    <2>2. phone' \in [Client -> [Call -> Standing]]
      BY <1>10, DeliverFacts, ReceiversType DEF Cal!Tell, Cal!State
    <2> DEFINE rest == [i \in DOMAIN job[c].calls \ {id} |-> job[c].calls[i]]
    <2>3. rest \in [DOMAIN rest -> EntrySet] /\ DOMAIN rest \subseteq Call
      BY <2>1
    <2>4. job'[c] = [at |-> "tell", calls |-> rest]
      BY <1>10, <2>1 DEF Cal!Tell, Types
    <2>5. DOMAIN job' = Client /\ \A d \in Client \ {c} : job'[d] = job[d]
      BY <1>10 DEF Cal!Tell, Types
    <2> HIDE DEF rest
    <2>6. /\ job'[c].at = "tell" /\ job'[c].calls = rest
          /\ job'[c] = [at |-> "tell", calls |-> job'[c].calls]
      BY <2>4
    <2> QED
      BY <1>10, <2>2, <2>3, <2>5, <2>6 DEF Cal!Tell, Types
  <1> QED
    BY <1>1, <1>2, <1>3, <1>4, <1>5, <1>6, <1>7, <1>8, <1>9, <1>10 DEF Cal!Next, Cal!ReadLoop

-----------------------------------------------------------------------------
(* What no step undoes                                                     *)

\* A radio in a call stays in it until it is over, and a closed last-heard entry
\* stays closed.
Onward ==
    /\ \A d \in Client, id \in Call :
          /\ phone[d][id] # "idle" => phone'[d][id] # "idle"
          /\ phone[d][id] = "over" => phone'[d][id] = "over"
    /\ \A id \in Call : Ended(id) => Ended(id)'

LEMMA DeliverOnward ==
    ASSUME Types, NEW to \in SUBSET Client, NEW id \in Call, NEW state \in Cal!State,
           Cal!Deliver(to, id, state), shown' = shown
    PROVE  Onward
  <1>1. ASSUME NEW d \in Client, NEW x \in Call
        PROVE  /\ phone[d][x] # "idle" => phone'[d][x] # "idle"
               /\ phone[d][x] = "over" => phone'[d][x] = "over"
    <2>1. phone[d][x] \in Standing
      BY DEF Types
    <2>2. \A e \in Client, y \in Call :
             phone'[e][y] = IF e \in to /\ y = id THEN Cal!Hear(phone[e][y], state) ELSE phone[e][y]
      BY DeliverFacts
    <2>3. phone'[d][x] = phone[d][x] \/ phone'[d][x] = Cal!Hear(phone[d][x], state)
      BY <2>2
    <2> QED
      BY <2>1, <2>3, HearFacts
  <1> QED
    BY <1>1 DEF Onward, Ended

LEMMA OnwardStep ==
    ASSUME Cal!CallConstants, Types, Cal!Next
    PROVE  Onward
  <1>1. ASSUME NEW c \in Client, NEW id \in Call,
               Cal!Place(c, id) \/ Cal!Alert(c, id) \/ Cal!Answer(c, id) \/ Cal!HangUp(c, id)
        PROVE  Onward
    <2>1. PICK state \in Cal!State, standing \in Standing : Sent(c, id, state, standing)
      BY <1>1, SendFacts
    <2> QED
      BY <2>1 DEF Sent, Types, Onward, Ended
  <1>2. ASSUME NEW c \in Client, Cal!Break(c)
        PROVE  Onward
    BY <1>2 DEF Cal!Break, Types, Onward, Ended
  <1>3. ASSUME NEW c \in Client, Cal!Lookup(c)
        PROVE  Onward
    BY <1>3 DEF Cal!Lookup, Onward, Ended
  <1>4. ASSUME NEW c \in Client, Cal!Track(c)
        PROVE  Onward
    <2>1. job[c].id \in Call
      BY <1>4, JobKinds DEF Cal!Track, Working
    <2> QED
      BY <1>4, <2>1 DEF Cal!Track, Types, Onward, Ended, Cal!Start
  <1>5. ASSUME NEW c \in Client, Cal!Virtual(c)
        PROVE  Onward
    <2>1. job[c] \in Working
      BY <1>5, JobKinds DEF Cal!Virtual
    <2>2. CASE job[c].state = "setup"
      <3>1. Cal!Deliver(Cal!Recipients("subscriber", job[c].route.src, "none"), job[c].id, "connect")
        BY <1>5, <2>2 DEF Cal!Virtual
      <3>2. job[c].id \in Call /\ "connect" \in Cal!State /\ shown' = shown
        BY <1>5, <2>1 DEF Cal!Virtual, Working, Cal!State
      <3> QED
        BY <3>1, <3>2, DeliverOnward, ReceiversType
    <2>3. CASE job[c].state # "setup"
      BY <1>5, <2>3 DEF Cal!Virtual, Onward, Ended
    <2> QED BY <2>2, <2>3
  <1>6. ASSUME NEW c \in Client, Cal!Forward(c)
        PROVE  Onward
    <2>1. job[c] \in Working
      BY <1>6, JobKinds DEF Cal!Forward
    <2>2. Cal!Deliver(Cal!Receivers(c, job[c].route), job[c].id, job[c].state)
      BY <1>6 DEF Cal!Forward
    <2>3. job[c].id \in Call /\ job[c].state \in Cal!State /\ shown' = shown
          /\ job[c].route.target \in Client \cup {"none"}
      BY <1>6, <2>1 DEF Cal!Forward, Working, RouteSet
    <2> QED
      BY <2>2, <2>3, DeliverOnward, ReceiversType
  <1>7. ASSUME NEW c \in Client, Cal!Untrack(c)
        PROVE  Onward
    <2>1. job[c].id \in Call
      BY <1>7, JobKinds DEF Cal!Untrack, Working
    <2> QED
      BY <1>7, <2>1 DEF Cal!Untrack, Types, Onward, Ended, Cal!End
  <1>8. ASSUME NEW c \in Client, Cal!Disconnect(c)
        PROVE  Onward
    BY <1>8 DEF Cal!Disconnect, Types, Onward, Ended, Cal!End
  <1>9. ASSUME NEW c \in Client, NEW id \in Call, Cal!Tell(c, id)
        PROVE  Onward
    <2>1. /\ Cal!Deliver(Cal!Recipients(job[c].calls[id].type, job[c].calls[id].dst, c), id, "release")
          /\ "release" \in Cal!State /\ shown' = shown
      BY <1>9 DEF Cal!Tell, Cal!State
    <2> QED
      BY <2>1, DeliverOnward, ReceiversType
  <1> QED
    BY <1>1, <1>2, <1>3, <1>4, <1>5, <1>6, <1>7, <1>8, <1>9 DEF Cal!Next, Cal!ReadLoop

\* So a message that was in order stays in order.
LEMMA MessageKept ==
    ASSUME Cal!CallConstants, Onward, NEW c \in Client, NEW id \in Call, NEW state \in Cal!State,
           MessageOK(c, id, state)
    PROVE  MessageOK(c, id, state)'
  BY DEF Onward, MessageOK, Over, Cal!CallConstants

\* The messages not read yet are in order when those that are new are.
LEMMA UplinksKept ==
    ASSUME Cal!CallConstants, Types, UplinksOK, Onward,
           \A d \in Client : \A i \in DOMAIN uplink'[d] :
              \/ \E k \in DOMAIN uplink[d] : uplink'[d][i] = uplink[d][k]
              \/ \E id \in Call, state \in Cal!State :
                    /\ uplink'[d][i] = <<id, state>>
                    /\ id \in Real => MessageOK(d, id, state)'
    PROVE  UplinksOK'
  <1>1. ASSUME NEW d \in Client, NEW k \in DOMAIN uplink[d], uplink[d][k][1] \in Real,
               NEW id, NEW state, uplink[d][k][1] = id, uplink[d][k][2] = state
        PROVE  MessageOK(d, id, state)'
    <2>1. id \in Call /\ state \in Cal!State
      BY <1>1 DEF Types
    <2>2. MessageOK(d, id, state)
      BY <1>1 DEF UplinksOK
    <2> QED
      BY <2>1, <2>2, MessageKept
  <1>2. ASSUME NEW d \in Client, NEW i \in DOMAIN uplink'[d], uplink'[d][i][1] \in Real,
               NEW id, NEW state, uplink'[d][i][1] = id, uplink'[d][i][2] = state
        PROVE  MessageOK(d, id, state)'
    BY <1>1, <1>2
  <1> QED
    BY <1>2 DEF UplinksOK, MessageOK, Over, Real

\* What a read loop has looked up stays right while it does not move.
LEMMA JobKept ==
    ASSUME Cal!CallConstants, Types, Onward, NEW c \in Client, NEW id \in Real,
           JobOK(c, id), job'[c] = job[c],
           tracked[id] = Anchor(id) => tracked'[id] = Anchor(id) \/ Ended(id)'
    PROVE  JobOK(c, id)'
  <1>1. id \in Call /\ (Ended(id) => Ended(id)')
    BY DEF Real, Onward
  <1>2. ASSUME About(c, id)
        PROVE  MessageOK(c, id, job[c].state)' /\ (Over(id) => Over(id)')
    <2>1. MessageOK(c, id, job[c].state) /\ job[c].state \in Cal!State
      BY <1>2, JobKinds DEF JobOK, About, Working
    <2> QED
      BY <1>1, <2>1, MessageKept DEF Onward, Over, Cal!CallConstants
  <1>3. About(c, id)' <=> About(c, id)
    BY DEF About
  <1> QED
    BY <1>1, <1>2, <1>3 DEF JobOK, Anchor, Kind, Opening, MessageOK, Over, Ended

\* A call that a step leaves alone will be closed as before.
LEMMA ClosingKept ==
    ASSUME NEW id, Closing(id), shown'[id] = shown[id],
           link'[From[id]] = link[From[id]], uplink'[From[id]] = uplink[From[id]],
           phone'[From[id]][id] = phone[From[id]][id],
           Releasing(id) /\ shown[id] = "active" => Releasing(id)',
           Tracking(id) => Tracking(id)'
    PROVE  Closing(id)'
  BY DEF Closing, Over, Ending, Unopened, Open, Opening

\* What is about a call whose messages are those of its caller.
LEMMA ReleasingKept ==
    ASSUME NEW id,
           \A d \in Client : About(d, id) =>
              About(d, id)' /\ job'[d].state = job[d].state /\ job'[d].at = job[d].at
    PROVE  /\ Releasing(id) => Releasing(id)'
           /\ From[id] \in Client /\ Tracking(id) => Tracking(id)'
  BY DEF Releasing, Tracking, Opening, About

-----------------------------------------------------------------------------
(* One lemma per operation                                                 *)

LEMMA SendStep ==
    ASSUME Cal!CallConstants, CallInv, Types', Onward, NEW c \in Client, NEW x \in Call,
           NEW state \in Cal!State, NEW standing \in Standing, Sent(c, x, state, standing)
    PROVE  EntriesOK' /\ PhonesOK' /\ UplinksOK' /\ JobsOK' /\ ClosingOK'
  <1> USE DEF Real
  <1>1. /\ link[c] = "up"
        /\ tracked' = tracked /\ circuits' = circuits /\ shown' = shown /\ link' = link /\ job' = job
        /\ \A d \in Client, y \in Call : d # c \/ y # x => phone'[d][y] = phone[d][y]
        /\ phone'[c][x] = standing
        /\ \A d \in Client \ {c} : uplink'[d] = uplink[d]
    BY DEF Sent, CallInv, Types
  <1>2. PICK n \in Nat :
           /\ Len(uplink[c]) = n /\ Len(uplink'[c]) = n + 1
           /\ DOMAIN uplink[c] = 1..n /\ DOMAIN uplink'[c] = 1..n + 1
           /\ \A i \in 1..n : uplink'[c][i] = uplink[c][i]
           /\ uplink'[c][n + 1] = <<x, state>>
           /\ uplink'[c][n + 1][1] = x /\ uplink'[c][n + 1][2] = state
    <2>1. /\ uplink[c] \in Seq(Call \X Cal!State) /\ <<x, state>> \in Call \X Cal!State
          /\ uplink'[c] = Append(uplink[c], <<x, state>>)
      BY DEF Sent, CallInv, Types
    <2>2. /\ Len(uplink[c]) \in Nat /\ DOMAIN uplink[c] = 1..Len(uplink[c])
          /\ Len(uplink'[c]) = Len(uplink[c]) + 1 /\ DOMAIN uplink'[c] = 1..Len(uplink[c]) + 1
      BY <2>1
    <2>3. /\ \A i \in 1..Len(uplink[c]) : uplink'[c][i] = uplink[c][i]
          /\ uplink'[c][Len(uplink[c]) + 1] = <<x, state>>
      BY <2>1
    <2>4. <<x, state>>[1] = x /\ <<x, state>>[2] = state
      OBVIOUS
    <2>5. Len(uplink[c]) \in Nat
      BY <2>2
    <2> WITNESS Len(uplink[c]) \in Nat
    <2> QED BY <2>2, <2>3, <2>4, Zenon
  <1>3. x \in Real => MessageOK(c, x, state)'
    <2>1. SUFFICES ASSUME x \in Real
                   PROVE  MessageOK(c, x, state)'
      OBVIOUS
    <2>2. From[x] \in Client /\ phone[c][x] # "over"
      BY DEF Cal!CallConstants, Sent
    <2>3. CASE c = From[x]
      BY <1>1, <2>1, <2>2, <2>3
         DEF Sent, MessageOK, Over, CallInv, PhonesOK, Cal!ShouldRelease, Opening
    <2>4. CASE c # From[x]
      BY <1>1, <2>1, <2>2, <2>4 DEF Sent, MessageOK, CallInv, PhonesOK, Cal!ShouldRelease
    <2> QED BY <2>3, <2>4
  <1>4. EntriesOK'
    BY <1>1 DEF EntriesOK, Onward, CallInv, Cal!CallConstants, Anchor, Kind, Over, Ended
  <1>5. PhonesOK'
    <2>1. \A id \in Real : phone'[From[id]][id] \in {"idle", "calling", "talking", "over"}
      BY <1>1 DEF Cal!CallConstants, CallInv, PhonesOK, Sent
    <2>2. ASSUME NEW id \in Real, NEW d \in Client \ {From[id]}, phone'[d][id] # "idle"
          PROVE  /\ phone'[From[id]][id] # "idle"
                 /\ tracked'[id] = Anchor(id) \/ Ended(id)'
                 /\ To[id] = Cal!Group => phone'[d][id] \in {"listening", "over"}
                 /\ To[id] # Cal!Group => phone'[d][id] \in {"ringing", "talking", "over"}
      BY <1>1, <2>2 DEF Cal!CallConstants, CallInv, PhonesOK, Sent, Onward, Ended, Anchor, Kind
    <2>3. \A d \in Client : link'[d] # "up" =>
             /\ \A id \in Call : phone'[d][id] \in {"idle", "over"}
             /\ uplink'[d] = <<>>
      BY <1>1 DEF CallInv, PhonesOK
    <2> QED
      BY <1>1, <2>1, <2>2, <2>3 DEF CallInv, PhonesOK, Anchor, Kind
  <1>6. UplinksOK'
    <2>1. ASSUME NEW d \in Client, NEW i \in DOMAIN uplink'[d]
          PROVE  \/ \E k \in DOMAIN uplink[d] : uplink'[d][i] = uplink[d][k]
                 \/ \E id \in Call, s \in Cal!State :
                       /\ uplink'[d][i] = <<id, s>>
                       /\ id \in Real => MessageOK(d, id, s)'
      <3>1. CASE d # c
        BY <1>1, <2>1, <3>1
      <3>2. CASE d = c /\ i = n + 1
        BY <1>2, <1>3, <2>1, <3>2, Zenon
      <3>3. CASE d = c /\ i # n + 1
        <4>1. i \in 1..n + 1
          BY <1>2, <2>1, <3>3, Zenon
        <4>2. i \in 1..n
          BY <3>3, <4>1
        <4> QED BY <1>2, <3>3, <4>2, Zenon
      <3> QED BY <3>1, <3>2, <3>3
    <2> QED BY <2>1, UplinksKept DEF CallInv
  <1>7. JobsOK'
    BY <1>1, JobKept DEF CallInv, JobsOK
  <1>8. ASSUME NEW id \in Real
        PROVE  Closing(id)'
    <2>1. /\ From[id] \in Client /\ id \in Call /\ Closing(id)
          /\ Releasing(id) => Releasing(id)'
          /\ Tracking(id) => Tracking(id)'
      BY <1>1 DEF Cal!CallConstants, CallInv, ClosingOK, Releasing, Tracking, Opening, About
    <2>2. CASE c # From[id]
      BY <1>1, <2>1, <2>2, ClosingKept
    <2>3. CASE c = From[id]
      <3>1. /\ \A i \in 1..n : Ending(id, i)' <=> Ending(id, i)
            /\ \A i \in 1..n : Open(id, i)' <=> Open(id, i)
        BY <1>2, <2>3 DEF Ending, Open, Opening
      <3>a. \A i \in 1..n + 1 : Unopened(id, i) => Unopened(id, i)'
        BY <2>1, <3>1 DEF Unopened
      <3>b. \A i : i \in 1..n + 1 <=> i \in 1..n \/ i = n + 1
        OBVIOUS
      <3>c. /\ (\E i \in 1..n : Ending(id, i)) => \E i \in 1..n + 1 : Ending(id, i)'
            /\ (\E i \in 1..n : Open(id, i)) => \E i \in 1..n + 1 : Open(id, i)'
        BY <3>1, <3>b, Zenon
      <3>2. CASE x # id
        <4>1. ~Ending(id, n + 1)'
          BY <1>2, <2>3, <3>2 DEF Ending
        <4>2. \A i \in 1..n + 1 : Ending(id, i)' => i \in 1..n /\ Ending(id, i)
          BY <3>1, <3>b, <4>1, Zenon
        <4>3. /\ DOMAIN uplink[From[id]] = 1..n /\ DOMAIN uplink'[From[id]] = 1..n + 1
              /\ phone'[From[id]][id] = phone[From[id]][id] /\ Over(id)' = Over(id)
              /\ link'[From[id]] = link[From[id]] /\ shown'[id] = shown[id]
          BY <1>1, <1>2, <2>1, <2>3, <3>2 DEF Over
        <4>4. \A i \in 1..n + 1 : Ending(id, i)' /\ shown[id] = "none" /\ link[From[id]] = "up"
                 => Unopened(id, i)'
          BY <2>1, <3>a, <3>b, <4>2, <4>3, Zenon DEF Closing
        <4> QED
          BY <2>1, <3>c, <4>3, <4>4, Zenon DEF Closing
      <3>3. CASE x = id /\ phone[c][id] = "idle"
        <4>1. state = Opening(id) /\ standing \in {"calling", "talking"}
          BY <2>3, <3>3 DEF Sent
        <4>2. \A i \in DOMAIN uplink[c] : ~Ending(id, i)
          BY <2>3, <3>3 DEF CallInv, UplinksOK, MessageOK, Ending
        <4>3. Open(id, n + 1)'
          BY <1>2, <2>3, <3>3, <4>1 DEF Open, Opening
        <4>4. ~Ending(id, n + 1)'
          BY <1>2, <2>3, <3>3, <4>1 DEF Ending, Opening, Cal!ShouldRelease
        <4>5. \A i \in DOMAIN uplink'[From[id]] : ~Ending(id, i)'
          BY <1>2, <2>3, <3>1, <3>b, <4>2, <4>4, Zenon
        <4>6. \E k \in DOMAIN uplink'[From[id]] : Open(id, k)'
          BY <1>2, <2>3, <3>b, <4>3, Zenon
        <4>7. ~Over(id)'
          BY <1>1, <2>3, <3>3, <4>1 DEF Over
        <4> QED
          BY <4>5, <4>6, <4>7 DEF Closing
      <3>4. CASE x = id /\ phone[c][id] # "idle"
        <4>1. state \in Cal!ShouldRelease /\ phone'[c][id] = "over"
          BY <1>1, <2>3, <3>4 DEF Sent, CallInv, PhonesOK
        <4>2. Ending(id, n + 1)'
          BY <1>2, <2>3, <3>4, <4>1 DEF Ending
        <4>3. (\E k \in 1..n : Open(id, k)) => Unopened(id, n + 1)
          BY DEF Unopened
        <4>4. Tracking(id) => Unopened(id, n + 1)
          BY DEF Unopened
        <4>5. /\ DOMAIN uplink[From[id]] = 1..n /\ DOMAIN uplink'[From[id]] = 1..n + 1
              /\ link'[From[id]] = link[From[id]] /\ shown'[id] = shown[id]
              /\ phone[From[id]][id] # "idle" /\ phone'[From[id]][id] # "idle"
          BY <1>1, <1>2, <2>1, <2>3, <3>4, <4>1
        <4>6. \E i \in DOMAIN uplink'[From[id]] : Ending(id, i)'
          BY <3>b, <4>2, <4>5, Zenon
        <4>7. CASE shown[id] = "none" /\ link[From[id]] = "up"
          <5>1. Tracking(id) \/ \E k \in 1..n : Open(id, k)
            BY <2>1, <4>5, <4>7, Zenon DEF Closing
          <5>2. Tracking(id)' \/ \E k \in DOMAIN uplink'[From[id]] : Open(id, k)'
            BY <2>1, <3>c, <4>5, <5>1, Zenon
          <5>3. \A i \in 1..n : Ending(id, i) => Unopened(id, i)
            BY <2>1, <4>5, <4>7, Zenon DEF Closing
          <5>4. \A i \in 1..n + 1 : Ending(id, i)' => Unopened(id, i)'
            BY <3>1, <3>a, <3>b, <4>3, <4>4, <5>1, <5>3, Zenon
          <5> QED BY <4>5, <4>6, <5>2, <5>4, Zenon DEF Closing
        <4>8. CASE ~(shown[id] = "none" /\ link[From[id]] = "up")
          BY <4>5, <4>6, <4>8, Zenon DEF Closing
        <4> QED BY <4>7, <4>8
      <3> QED BY <3>2, <3>3, <3>4
    <2> QED BY <2>2, <2>3
  <1> QED
    BY <1>4, <1>5, <1>6, <1>7, <1>8 DEF ClosingOK

LEMMA BreakStep ==
    ASSUME Cal!CallConstants, CallInv, Types', Onward, NEW c \in Client, Cal!Break(c)
    PROVE  EntriesOK' /\ PhonesOK' /\ UplinksOK' /\ JobsOK' /\ ClosingOK'
  <1> USE DEF Real
  <1>1. /\ link[c] = "up" /\ link'[c] = "broken" /\ uplink'[c] = <<>>
        /\ tracked' = tracked /\ circuits' = circuits /\ shown' = shown /\ job' = job
        /\ \A y \in Call : phone'[c][y] = IF phone[c][y] = "idle" THEN "idle" ELSE "over"
        /\ \A d \in Client \ {c} :
              link'[d] = link[d] /\ uplink'[d] = uplink[d] /\ \A y \in Call : phone'[d][y] = phone[d][y]
    BY DEF Cal!Break, CallInv, Types
  <1>2. EntriesOK'
    BY <1>1 DEF EntriesOK, Onward, CallInv, Cal!CallConstants, Anchor, Kind, Over, Ended
  <1>3. PhonesOK'
    <2>1. \A id \in Real : phone'[From[id]][id] \in {"idle", "calling", "talking", "over"}
      BY <1>1 DEF Cal!CallConstants, CallInv, PhonesOK
    <2>2. ASSUME NEW id \in Real, NEW d \in Client \ {From[id]}, phone'[d][id] # "idle"
          PROVE  /\ phone'[From[id]][id] # "idle"
                 /\ tracked'[id] = Anchor(id) \/ Ended(id)'
                 /\ To[id] = Cal!Group => phone'[d][id] \in {"listening", "over"}
                 /\ To[id] # Cal!Group => phone'[d][id] \in {"ringing", "talking", "over"}
      BY <1>1, <2>2 DEF Cal!CallConstants, CallInv, PhonesOK, Onward, Ended, Anchor, Kind
    <2>3. \A d \in Client : link'[d] # "up" =>
             /\ \A id \in Call : phone'[d][id] \in {"idle", "over"}
             /\ uplink'[d] = <<>>
      BY <1>1 DEF CallInv, PhonesOK
    <2>4. \A d \in Client : link'[d] = "ended" <=> job'[d].at = "tell"
      BY <1>1 DEF CallInv, PhonesOK
    <2> QED
      BY <2>1, <2>2, <2>3, <2>4 DEF PhonesOK, Anchor, Kind
  <1>4. UplinksOK'
    <2>1. \A d \in Client : \A i \in DOMAIN uplink'[d] :
             \E k \in DOMAIN uplink[d] : uplink'[d][i] = uplink[d][k]
      BY <1>1
    <2> QED
      BY <2>1, UplinksKept DEF CallInv
  <1>5. JobsOK'
    BY <1>1, JobKept DEF CallInv, JobsOK
  <1>6. ASSUME NEW id \in Real
        PROVE  Closing(id)'
    <2>1. /\ From[id] \in Client /\ id \in Call /\ Closing(id)
          /\ Releasing(id) => Releasing(id)'
          /\ Tracking(id) => Tracking(id)'
      BY <1>1 DEF Cal!CallConstants, CallInv, ClosingOK, Releasing, Tracking, Opening, About
    <2>2. CASE c # From[id]
      BY <1>1, <2>1, <2>2, ClosingKept
    <2>3. CASE c = From[id]
      BY <1>1, <2>1, <2>3 DEF Closing
    <2> QED BY <2>2, <2>3
  <1> QED
    BY <1>2, <1>3, <1>4, <1>5, <1>6 DEF ClosingOK

\* What Lookup makes of a message about a real call.
LEMMA LookupRoute ==
    ASSUME Cal!CallConstants, CallInv, NEW c \in Client, NEW x \in Real, NEW state \in Cal!State,
           NEW given \in Cal!PayloadRoutes(c, x, state), MessageOK(c, x, state),
           Cal!Route(c, given, state, tracked[x]).dest # "none"
    PROVE  LET r == Cal!Route(c, given, state, tracked[x]) IN
           /\ r.type = Kind(x)
           /\ r.dest \in Client \cup {Cal!Group} /\ r.src \in Client
           /\ state = Opening(x) => (r.src = From[x] /\ r.dest = To[x]) \/ Ended(x)
           /\ state = "connect" => tracked[x] = Anchor(x) \/ Ended(x)
           /\ state \in Cal!ShouldRelease => c = From[x] \/ r.target = From[x] \/ Ended(x)
  <1> DEFINE r == Cal!Route(c, given, state, tracked[x])
             e == tracked[x]
  <1>1. /\ x \in Call /\ From[x] \in Client /\ To[x] \in Client \cup {Cal!Group}
        /\ "none" \notin Client /\ Cal!Group \notin Client /\ Cal!Echo \notin Client
    BY DEF Real, Cal!CallConstants
  <1>2. /\ e # Cal!NoCall => /\ e.type = Kind(x) /\ e.src \in Client /\ e.origin \in Client
                             /\ e.dst \in Client \cup {Cal!Group}
        /\ e \in {Cal!NoCall, Anchor(x)} \/ Ended(x)
        /\ e \in EntrySet
    BY <1>1 DEF CallInv, EntriesOK, Types
  <1>3. c # From[x] => e = Anchor(x) \/ Ended(x)
    BY DEF CallInv, PhonesOK, MessageOK
  <1>4. e = Cal!NoCall => /\ r.dest = given.dst
                          /\ given.dst # "none" => state \in Cal!ShouldTrack
    BY <1>1 DEF Cal!Route, Cal!PayloadRoutes, Cal!ShouldTrack
  <1>5. state \in Cal!ShouldTrack => /\ given.src \in Client /\ given.dst \in Client \cup {Cal!Group}
                                     /\ state # "connect" => given = [src |-> From[x], dst |-> To[x]]
    BY <1>1 DEF Cal!PayloadRoutes
  <1>6. state \notin Cal!ShouldTrack => given = [src |-> "none", dst |-> "none"] /\ e # Cal!NoCall
    BY <1>1, <1>4 DEF Cal!PayloadRoutes, Cal!ShouldTrack
  <1>7. r.type = Kind(x)
    <2>1. state \in {"setup", "connect"} => Kind(x) = "subscriber"
      BY <1>1 DEF MessageOK, Kind, Opening, Cal!ShouldRelease
    <2>2. state = "groupTX" => Kind(x) = "group"
      BY <1>1 DEF MessageOK, Kind, Opening, Cal!ShouldRelease
    <2> QED
      BY <1>2, <1>6, <2>1, <2>2 DEF Cal!Route, Cal!ShouldTrack
  <1>8. r.dest \in Client \cup {Cal!Group}
    BY <1>1, <1>2, <1>4, <1>5 DEF Cal!Route
  <1>9. r.src \in Client
    BY <1>1, <1>2, <1>5, <1>6 DEF Cal!Route
  <1>10. state = Opening(x) => (r.src = From[x] /\ r.dest = To[x]) \/ Ended(x)
    <2>1. SUFFICES ASSUME state = Opening(x), ~Ended(x)
                   PROVE  r.src = From[x] /\ r.dest = To[x]
      OBVIOUS
    <2>2. c = From[x] /\ state \in Cal!ShouldTrack /\ state # "connect"
      BY <2>1 DEF MessageOK, Opening, Cal!ShouldTrack
    <2> QED
      BY <1>1, <1>2, <1>5, <2>1, <2>2 DEF Cal!Route, Anchor, Kind, Cal!NoCall
  <1>11. state = "connect" => e = Anchor(x) \/ Ended(x)
    BY <1>3 DEF MessageOK, Opening, Cal!ShouldRelease
  <1>12. state \in Cal!ShouldRelease => c = From[x] \/ r.target = From[x] \/ Ended(x)
    BY <1>1, <1>3 DEF Cal!Route, Anchor, Kind, MessageOK
  <1> QED
    BY <1>7, <1>8, <1>9, <1>10, <1>11, <1>12

LEMMA LookupStep ==
    ASSUME Cal!CallConstants, CallInv, Types', Onward, NEW c \in Client, Cal!Lookup(c)
    PROVE  EntriesOK' /\ PhonesOK' /\ UplinksOK' /\ JobsOK' /\ ClosingOK'
  <1> USE DEF Real
  <1>1. /\ link[c] = "up" /\ job[c].at = "idle" /\ uplink[c] # <<>>
        /\ tracked' = tracked /\ circuits' = circuits /\ shown' = shown /\ link' = link
        /\ phone' = phone
        /\ \A d \in Client \ {c} : job'[d] = job[d] /\ uplink'[d] = uplink[d]
    <2>1. /\ link[c] = "up" /\ job[c] = Cal!Idle /\ uplink[c] # <<>>
          /\ uplink' = [uplink EXCEPT ![c] = Tail(uplink[c])]
          /\ tracked' = tracked /\ circuits' = circuits /\ shown' = shown /\ link' = link
          /\ phone' = phone
      BY Zenon DEF Cal!Lookup
    <2>2. \E new : job' = [job EXCEPT ![c] = new]
      BY Zenon DEF Cal!Lookup
    <2>3. DOMAIN job = Client /\ uplink \in [Client -> Seq(Call \X Cal!State)]
      BY Zenon DEF CallInv, Types
    <2>4. \A d \in Client \ {c} : job'[d] = job[d]
      BY <2>2, <2>3
    <2>5. \A d \in Client \ {c} : uplink'[d] = uplink[d]
      BY <2>1, <2>3
    <2> QED BY <2>1, <2>4, <2>5 DEF Cal!Idle
  <1>2. PICK x \in Call, state \in Cal!State : uplink[c][1][1] = x /\ uplink[c][1][2] = state
                                               /\ Head(uplink[c]) = <<x, state>>
    BY <1>1 DEF CallInv, Types
  <1>3. PICK n \in Nat :
           /\ DOMAIN uplink[c] = 1..n + 1 /\ DOMAIN uplink'[c] = 1..n
           /\ \A i \in 1..n : uplink'[c][i] = uplink[c][i + 1]
    <2>1. uplink[c] \in Seq(Call \X Cal!State) /\ uplink'[c] = Tail(uplink[c])
      BY DEF Cal!Lookup, CallInv, Types
    <2>2. /\ Len(uplink[c]) \in Nat \ {0} /\ DOMAIN uplink[c] = 1..Len(uplink[c])
          /\ Len(uplink'[c]) = Len(uplink[c]) - 1 /\ DOMAIN uplink'[c] = 1..Len(uplink[c]) - 1
      BY <1>1, <2>1
    <2>3. \A i \in 1..Len(uplink[c]) - 1 : uplink'[c][i] = uplink[c][i + 1]
      BY <1>1, <2>1
    <2>4. Len(uplink[c]) - 1 \in Nat /\ (Len(uplink[c]) - 1) + 1 = Len(uplink[c])
      BY <2>2
    <2> QED
      BY <2>2, <2>3, <2>4
  <1>4. PICK given \in Cal!PayloadRoutes(c, x, state) :
           job'[c] = IF Cal!Route(c, given, state, tracked[x]).dest = "none" THEN Cal!Idle
                     ELSE [at |-> "track", id |-> x, state |-> state, existing |-> tracked[x],
                           route |-> Cal!Route(c, given, state, tracked[x])]
    <2>1. Head(uplink[c])[1] = x /\ Head(uplink[c])[2] = state
      BY <1>2
    <2> QED
      BY <2>1 DEF Cal!Lookup, CallInv, Types
  <1> DEFINE r == Cal!Route(c, given, state, tracked[x])
  <1>5. x \in Real => MessageOK(c, x, state)
    BY <1>2, <1>3 DEF CallInv, UplinksOK
  <1>6. EntriesOK'
    BY <1>1 DEF EntriesOK, Onward, CallInv, Anchor, Kind, Over, Ended
  <1>7. PhonesOK'
    <2>1. \A d \in Client : link'[d] # "up" => uplink'[d] = <<>>
      BY <1>1 DEF CallInv, PhonesOK
    <2>2. \A d \in Client : link'[d] = "ended" <=> job'[d].at = "tell"
      BY <1>1, <1>4 DEF CallInv, PhonesOK, Cal!Idle
    <2> QED
      BY <1>1, <2>1, <2>2 DEF CallInv, PhonesOK, Anchor, Kind, Ended
  <1>8. UplinksOK'
    <2>1. \A d \in Client : \A i \in DOMAIN uplink'[d] :
             \E k \in DOMAIN uplink[d] : uplink'[d][i] = uplink[d][k]
      BY <1>1, <1>3
    <2> QED
      BY <2>1, UplinksKept DEF CallInv
  <1>9. ASSUME NEW id \in Real, NEW d \in Client
        PROVE  JobOK(d, id)'
    <2>1. CASE d # c
      BY <1>1, <2>1, JobKept DEF CallInv, JobsOK
    <2>2. CASE d = c /\ (r.dest = "none" \/ x # id)
      BY <1>4, <2>2 DEF JobOK, About, Cal!Idle
    <2>3. CASE d = c /\ r.dest # "none" /\ x = id
      <3>1. MessageOK(c, x, state) /\ MessageOK(c, x, state)'
        BY <1>5, <2>3, MessageKept
      <3>2. /\ job'[c].at = "track" /\ job'[c].id = x /\ job'[c].state = state
            /\ job'[c].existing = tracked[x] /\ job'[c].route = r
        BY <1>4, <2>3
      <3>3. /\ r.type = Kind(x)
            /\ r.dest \in Client \cup {Cal!Group} /\ r.src \in Client
            /\ state = Opening(x) => (r.src = From[x] /\ r.dest = To[x]) \/ Ended(x)
            /\ state = "connect" => tracked[x] = Anchor(x) \/ Ended(x)
            /\ state \in Cal!ShouldRelease => c = From[x] \/ r.target = From[x] \/ Ended(x)
        BY <2>3, <3>1, LookupRoute
      <3>4. tracked[x] # Cal!NoCall => /\ tracked[x].type = Kind(x)
                                       /\ tracked[x].src \in Client /\ tracked[x].origin \in Client
                                       /\ tracked[x].dst \in Client \cup {Cal!Group}
        BY <2>3 DEF CallInv, EntriesOK
      <3>5. Ended(x) => Ended(x)'
        BY DEF Onward
      <3> HIDE DEF r
      <3> QED
        BY <2>3, <3>1, <3>2, <3>3, <3>4, <3>5 DEF JobOK, MessageOK, Over, Anchor, Kind, Opening
    <2> QED BY <2>1, <2>2, <2>3
  <1>10. ASSUME NEW id \in Real
         PROVE  Closing(id)'
    <2>1. /\ From[id] \in Client /\ id \in Call /\ Closing(id)
          /\ Releasing(id) => Releasing(id)'
          /\ Tracking(id) => Tracking(id)'
      <3>1. From[id] \in Client /\ id \in Call /\ Closing(id)
        BY DEF Cal!CallConstants, CallInv, ClosingOK
      <3>2. \A d \in Client : About(d, id) => About(d, id)' /\ job'[d] = job[d]
        BY <1>1 DEF About
      <3> QED
        BY <3>1, <3>2, ReleasingKept
    <2>2. CASE c # From[id]
      BY <1>1, <2>1, <2>2, ClosingKept
    <2>3. CASE c = From[id]
      <3>1. /\ \A i \in 1..n : Ending(id, i)' <=> Ending(id, i + 1)
            /\ \A i \in 1..n : Open(id, i)' <=> Open(id, i + 1)
        BY <1>3, <2>3 DEF Ending, Open, Opening
      <3>2. ~Tracking(id)
        BY <1>1, <2>3 DEF Tracking
      <3>3. Open(id, 1) /\ shown[id] = "none" => Tracking(id)'
        <4>1. SUFFICES ASSUME Open(id, 1), shown[id] = "none"
                       PROVE  Tracking(id)'
          OBVIOUS
        <4>2. x = id /\ state = Opening(id)
          BY <1>2, <2>3, <4>1 DEF Open
        <4>3. tracked[x] = Cal!NoCall /\ given.dst = To[x] /\ To[x] # "none"
          BY <4>1, <4>2
             DEF CallInv, EntriesOK, Cal!PayloadRoutes, Opening, Cal!ShouldTrack, Cal!CallConstants,
                 Cal!Echo,
                 Cal!Group
        <4>4. r.dest # "none"
          BY <4>3 DEF Cal!Route
        <4> QED
          BY <1>4, <2>3, <4>2, <4>4 DEF Tracking, About, Opening
      <3>4. Ending(id, 1) /\ shown[id] = "active" => Releasing(id)'
        <4>1. SUFFICES ASSUME Ending(id, 1), shown[id] = "active"
                       PROVE  Releasing(id)'
          OBVIOUS
        <4>2. x = id /\ state \in Cal!ShouldRelease
          BY <1>2, <2>3, <4>1 DEF Ending
        <4>3. tracked[x] = Anchor(id) /\ To[id] # "none" /\ From[id] # "none"
          BY <2>1, <4>1, <4>2 DEF CallInv, EntriesOK, Cal!CallConstants, Cal!Echo, Cal!Group
        <4>4. r.dest # "none"
          BY <2>3, <4>3, <4>2 DEF Cal!Route, Anchor, Kind, Cal!NoCall
        <4> QED
          BY <1>4, <2>3, <4>2, <4>4 DEF Releasing, About
      <3>5. Ending(id, 1) => shown[id] # "none"
        BY <1>1, <1>3, <2>1, <2>3, <3>2 DEF Closing, Unopened
      <3>6. \A i \in 1..n : shown[id] = "none" /\ Unopened(id, i + 1) => Unopened(id, i)'
        <4>1. SUFFICES ASSUME NEW i \in 1..n, shown[id] = "none", Unopened(id, i + 1)
                       PROVE  Unopened(id, i)'
          OBVIOUS
        <4>2. PICK k \in 1..i + 1 - 1 : Open(id, k)
          BY <3>2, <4>1 DEF Unopened
        <4>3. CASE k = 1
          BY <3>3, <4>1, <4>2, <4>3 DEF Unopened
        <4>4. CASE k # 1
          <5>1. k - 1 \in 1..i - 1 /\ k - 1 \in 1..n /\ k - 1 + 1 = k
            BY <1>3, <4>2, <4>4
          <5>2. Open(id, k - 1)'
            BY <3>1, <4>2, <5>1
          <5> QED BY <5>1, <5>2 DEF Unopened
        <4> QED BY <4>3, <4>4
      <3>7. (\E i \in 1..n + 1 : Ending(id, i)) => Ending(id, 1) \/ \E i \in 1..n : Ending(id, i)'
        BY <3>1
      <3>8. (\E i \in 1..n + 1 : Open(id, i)) => Open(id, 1) \/ \E i \in 1..n : Open(id, i)'
        BY <3>1
      <3> QED
        BY <1>1, <1>3, <2>1, <2>3, <3>1, <3>2, <3>3, <3>4, <3>5, <3>6, <3>7, <3>8
           DEF Closing, Over
    <2> QED BY <2>2, <2>3
  <1> QED
    BY <1>6, <1>7, <1>8, <1>9, <1>10 DEF ClosingOK, JobsOK

LEMMA TrackStep ==
    ASSUME Cal!CallConstants, CallInv, Types', Onward, NEW c \in Client, Cal!Track(c)
    PROVE  EntriesOK' /\ PhonesOK' /\ UplinksOK' /\ JobsOK' /\ ClosingOK'
  <1> USE DEF Real
  <1>1. job[c] \in Working /\ job[c].at = "track"
    BY JobKinds DEF Cal!Track, CallInv
  <1>2. PICK x \in Call, state \in Cal!State : job[c].id = x /\ job[c].state = state
    BY <1>1 DEF Working
  <1>3. /\ circuits' = circuits /\ link' = link /\ phone' = phone /\ uplink' = uplink
        /\ \A d \in Client \ {c} : job'[d] = job[d]
        /\ job'[c].at = "route" /\ job'[c].id = x /\ job'[c].state = state
        /\ job'[c].existing = job[c].existing /\ job'[c].route = job[c].route
    BY <1>1, <1>2 DEF Cal!Track, CallInv, Types, Working
  <1>4. /\ \A id \in Call \ {x} : tracked'[id] = tracked[id] /\ shown'[id] = shown[id]
        /\ state \in Cal!ShouldTrack => tracked'[x] = Cal!Entry(c, job[c]) /\ shown'[x] = Cal!Start(shown[x])
        /\ state \notin Cal!ShouldTrack => tracked' = tracked /\ shown' = shown
    BY <1>2 DEF Cal!Track, CallInv, Types
  <1>5. x \in Real => JobOK(c, x) /\ About(c, x)
    BY <1>1, <1>2 DEF CallInv, JobsOK, About
  <1>6. \A id \in Call : Ended(id)' <=> Ended(id)
    BY <1>4 DEF Ended, Cal!Start
  <1>7. x \in Real /\ state \in Cal!ShouldTrack =>
           /\ tracked'[x] = Anchor(x) \/ Ended(x)'
           /\ tracked'[x].type = Kind(x)
           /\ tracked'[x].src \in Client /\ tracked'[x].origin \in Client
           /\ tracked'[x].dst \in Client \cup {Cal!Group}
           /\ phone[From[x]][x] # "idle"
           /\ shown'[x] # "none"
    <2>1. SUFFICES ASSUME x \in Real, state \in Cal!ShouldTrack
                   PROVE  /\ tracked'[x] = Anchor(x) \/ Ended(x)
                          /\ tracked'[x].type = Kind(x)
                          /\ tracked'[x].src \in Client /\ tracked'[x].origin \in Client
                          /\ tracked'[x].dst \in Client \cup {Cal!Group}
                          /\ phone[From[x]][x] # "idle"
                          /\ shown'[x] # "none"
      BY <1>6
    <2>2. /\ phone[From[x]][x] # "idle"
          /\ (state = Opening(x) /\ c = From[x]) \/ (state = "connect" /\ To[x] # Cal!Group)
      BY <1>2, <1>5, <2>1 DEF JobOK, MessageOK, Cal!ShouldTrack, Cal!ShouldRelease
    <2>3. shown'[x] # "none"
      BY <1>4, <2>1 DEF Cal!Start
    <2> DEFINE j == job[c]
    <2>4. /\ j.state = state /\ j.route \in RouteSet /\ j.existing \in EntrySet
          /\ tracked'[x] = Cal!Entry(c, j)
      BY <1>1, <1>2, <1>4, <2>1 DEF Working
    <2>5. /\ j.route.type = Kind(x)
          /\ j.route.dest \in Client \cup {Cal!Group} /\ j.route.src \in Client
          /\ j.existing # Cal!NoCall =>
                /\ j.existing.type = Kind(x)
                /\ j.existing.src \in Client /\ j.existing.origin \in Client
                /\ j.existing.dst \in Client \cup {Cal!Group}
          /\ state = Opening(x) => (j.route.src = From[x] /\ j.route.dest = To[x]) \/ Ended(x)
          /\ state = "connect" => j.existing = Anchor(x) \/ Ended(x)
      BY <1>1, <1>2, <1>5, <2>1 DEF JobOK
    <2> HIDE DEF j
    <2>6. CASE state = Opening(x) /\ c = From[x]
      BY <2>2, <2>3, <2>4, <2>5, <2>6 DEF Cal!Entry, Anchor, Opening
    <2>7. CASE state = "connect" /\ To[x] # Cal!Group /\ j.existing.type = "subscriber"
      <3>1. j.existing # Cal!NoCall /\ Kind(x) = "subscriber"
        BY <2>7 DEF Cal!NoCall, Kind
      <3>2. tracked'[x] = j.existing
        BY <2>4, <2>5, <2>7, <3>1 DEF Cal!Entry, EntrySet
      <3> QED
        BY <2>2, <2>3, <2>5, <2>7, <3>1, <3>2
    <2>8. CASE state = "connect" /\ To[x] # Cal!Group /\ j.existing.type # "subscriber"
      <3>1. Ended(x)
        BY <2>5, <2>8 DEF Anchor, Kind
      <3> QED
        BY <2>2, <2>3, <2>4, <2>5, <2>8, <3>1 DEF Cal!Entry
    <2> QED
      BY <2>2, <2>6, <2>7, <2>8
  <1>8. ASSUME NEW id \in Real
        PROVE  tracked[id] = Anchor(id) => tracked'[id] = Anchor(id) \/ Ended(id)'
    BY <1>4, <1>7
  <1>9. EntriesOK'
    <2>1. ASSUME NEW id \in Real
          PROVE  /\ id \notin circuits'
                 /\ tracked'[id] # Cal!NoCall =>
                       /\ tracked'[id].type = Kind(id)
                       /\ tracked'[id].src \in Client /\ tracked'[id].origin \in Client
                       /\ tracked'[id].dst \in Client \cup {Cal!Group}
                       /\ phone'[From[id]][id] # "idle"
                       /\ shown'[id] # "none"
                 /\ tracked'[id] \in {Cal!NoCall, Anchor(id)} \/ Ended(id)'
                 /\ shown'[id] = "active" => tracked'[id] = Anchor(id)
                 /\ Ended(id)' => Over(id)'
      <3>1. Ended(id)' => Over(id)'
        BY <1>3, <1>6 DEF CallInv, EntriesOK, Over
      <3>2. CASE id = x /\ state \in Cal!ShouldTrack
        BY <1>3, <1>7, <3>1, <3>2 DEF CallInv, EntriesOK, Ended
      <3>3. CASE ~(id = x /\ state \in Cal!ShouldTrack)
        BY <1>3, <1>4, <1>6, <3>1, <3>3 DEF CallInv, EntriesOK
      <3> QED BY <3>2, <3>3
    <2> QED
      BY <2>1 DEF EntriesOK, Anchor, Kind
  <1>10. PhonesOK'
    <2>1. \A d \in Client : link'[d] = "ended" <=> job'[d].at = "tell"
      BY <1>1, <1>3 DEF CallInv, PhonesOK
    <2>2. ASSUME NEW id \in Real, tracked[id] = Anchor(id) \/ Ended(id)
          PROVE  (tracked[id] = Anchor(id) \/ Ended(id))'
      BY <1>6, <1>8, <2>2 DEF Anchor, Kind
    <2> QED
      BY <1>3, <2>1, <2>2 DEF CallInv, PhonesOK
  <1>11. UplinksOK'
    BY <1>3, UplinksKept DEF CallInv
  <1>12. ASSUME NEW id \in Real, NEW d \in Client
         PROVE  JobOK(d, id)'
    <2>1. CASE d # c
      BY <1>3, <1>8, <2>1, JobKept DEF CallInv, JobsOK
    <2>2. CASE d = c /\ id # x
      BY <1>3, <2>2 DEF JobOK, About
    <2>3. CASE d = c /\ id = x
      <3>1. MessageOK(c, x, state)'
        BY <1>2, <1>5, <2>3, MessageKept DEF JobOK
      <3>2. state = Opening(x) => state \in Cal!ShouldTrack
        BY DEF Opening, Cal!ShouldTrack
      <3> QED
        BY <1>1, <1>2, <1>3, <1>5, <1>6, <1>7, <2>3, <3>1, <3>2
           DEF JobOK, About, MessageOK, Over, Anchor, Kind, Opening
    <2> QED BY <2>1, <2>2, <2>3
  <1>13. ASSUME NEW id \in Real
         PROVE  Closing(id)'
    <2>1. From[id] \in Client /\ id \in Call /\ Closing(id)
      BY DEF Cal!CallConstants, CallInv, ClosingOK
    <2>2. Releasing(id) => Releasing(id)'
      BY <1>1, <1>2, <1>3 DEF Releasing, About
    <2>3. CASE id = x /\ state \in Cal!ShouldTrack
      <3>1. shown'[id] # "none"
        BY <1>7, <2>3
      <3>2. CASE shown[id] = "active"
        BY <1>3, <2>1, <2>2, <3>1, <3>2 DEF Closing, Over, Ending
      <3>3. CASE shown[id] = "none"
        <4>1. link[From[id]] # "ended"
          <5>1. CASE c = From[id]
            BY <1>1, <5>1 DEF CallInv, PhonesOK
          <5>2. CASE c # From[id]
            BY <1>2, <1>5, <2>3, <3>3, <5>2
               DEF CallInv, PhonesOK, EntriesOK, JobOK, MessageOK, Ended, Anchor, Cal!NoCall,
                   Cal!CallConstants
          <5> QED BY <5>1, <5>2
        <4>2. link[From[id]] \in {"up", "broken", "ended"}
          BY <2>1 DEF CallInv, Types
        <4> QED
          BY <1>3, <2>1, <3>1, <3>3, <4>1, <4>2 DEF Closing, Over, Ending
      <3>4. CASE Ended(id)
        BY <1>6, <2>1, <3>1, <3>4 DEF Closing, Ended
      <3> QED BY <2>1, <3>2, <3>3, <3>4 DEF CallInv, Types, Ended
    <2>4. CASE ~(id = x /\ state \in Cal!ShouldTrack)
      <3>1. Tracking(id) => Tracking(id)'
        BY <1>2, <1>3, <2>1, <2>4 DEF Tracking, About, Opening, Cal!ShouldTrack
      <3> QED
        BY <1>3, <1>4, <2>1, <2>2, <2>4, <3>1, ClosingKept
    <2> QED BY <2>3, <2>4
  <1> QED
    BY <1>9, <1>10, <1>11, <1>12, <1>13 DEF ClosingOK, JobsOK

\* The virtual end point takes no real call: a real call never enters its table,
\* and no message about one is for it.
LEMMA VirtualStep ==
    ASSUME Cal!CallConstants, CallInv, Types', Onward, NEW c \in Client, Cal!Virtual(c)
    PROVE  EntriesOK' /\ PhonesOK' /\ UplinksOK' /\ JobsOK' /\ ClosingOK'
  <1>1. job[c] \in Working /\ job[c].at = "route"
    BY JobKinds DEF Cal!Virtual, CallInv
  <1>2. PICK x \in Call : job[c].id = x
    BY <1>1 DEF Working
  <1>3. x \notin Real
    BY <1>1, <1>2
       DEF Cal!Virtual, Cal!IsVirtual, CallInv, EntriesOK, JobsOK, JobOK, About, Cal!CallConstants,
                      Cal!Echo, Cal!Group
  <1>4. /\ shown' = shown /\ link' = link /\ uplink' = uplink
        /\ job'[c] = Cal!Idle /\ \A d \in Client \ {c} : job'[d] = job[d]
        /\ \A id \in Real : tracked'[id] = tracked[id] /\ (id \in circuits' <=> id \in circuits)
    BY <1>2, <1>3 DEF Cal!Virtual, CallInv, Types, Real
  <1>5. ASSUME NEW d \in Client, NEW id \in Real
        PROVE  phone'[d][id] = phone[d][id]
    <2>1. CASE job[c].state = "setup"
      <3>1. PICK to \in SUBSET Client : Cal!Deliver(to, x, "connect")
        BY <1>2, <2>1, ReceiversType DEF Cal!Virtual
      <3>2. Types /\ "connect" \in Cal!State
        BY DEF CallInv, Cal!State
      <3>3. \A e \in Client, y \in Call :
               phone'[e][y] = IF e \in to /\ y = x THEN Cal!Hear(phone[e][y], "connect") ELSE phone[e][y]
        BY <3>1, <3>2, DeliverFacts
      <3> QED
        BY <1>3, <3>3 DEF Real
    <2>2. CASE job[c].state # "setup"
      BY <2>2 DEF Cal!Virtual
    <2> QED BY <2>1, <2>2
  <1>6. \A id \in Real : id \in Call /\ From[id] \in Client
    BY DEF Real, Cal!CallConstants
  <1>7. EntriesOK'
    BY <1>4, <1>5, <1>6 DEF EntriesOK, CallInv, Anchor, Kind, Over, Ended, Real
  <1>8. PhonesOK'
    <2>1. \A id \in Real :
             /\ phone'[From[id]][id] \in {"idle", "calling", "talking", "over"}
             /\ \A d \in Client \ {From[id]} : phone'[d][id] # "idle" =>
                   /\ phone'[From[id]][id] # "idle"
                   /\ tracked'[id] = Anchor(id) \/ Ended(id)'
                   /\ To[id] = Cal!Group => phone'[d][id] \in {"listening", "over"}
                   /\ To[id] # Cal!Group => phone'[d][id] \in {"ringing", "talking", "over"}
      BY <1>4, <1>5, <1>6 DEF CallInv, PhonesOK, Ended
    <2>2. ASSUME NEW d \in Client, link'[d] # "up"
          PROVE  (\A id \in Call : phone'[d][id] \in {"idle", "over"}) /\ uplink'[d] = <<>>
      <3>1. link[d] # "up"
        BY <1>4, <2>2
      <3>2. \A id \in Call : phone'[d][id] = phone[d][id]
        <4>1. CASE job[c].state = "setup"
          <5>1. Cal!Deliver(Cal!Recipients("subscriber", job[c].route.src, "none"), x, "connect")
            BY <1>2, <4>1 DEF Cal!Virtual
          <5>2. d \notin Cal!Recipients("subscriber", job[c].route.src, "none")
            BY <3>1 DEF Cal!Recipients
          <5> QED
            BY <5>1, <5>2 DEF Cal!Deliver
        <4>2. CASE job[c].state # "setup"
          BY <4>2 DEF Cal!Virtual
        <4> QED BY <4>1, <4>2
      <3> QED
        BY <1>4, <3>1, <3>2 DEF CallInv, PhonesOK
    <2>3. \A d \in Client : link'[d] = "ended" <=> job'[d].at = "tell"
      BY <1>1, <1>4 DEF CallInv, PhonesOK, Cal!Idle
    <2> QED
      BY <2>1, <2>2, <2>3 DEF PhonesOK, Anchor, Kind, Real
  <1>9. UplinksOK'
    BY <1>4, UplinksKept DEF CallInv
  <1>10. \A d \in Client, id \in Real : JobOK(d, id)'
    <2>1. \A id \in Real : JobOK(c, id)'
      BY <1>4 DEF JobOK, About, Cal!Idle
    <2> QED
      BY <1>4, <2>1, JobKept DEF CallInv, JobsOK
  <1>11. ASSUME NEW id \in Real
         PROVE  Closing(id)'
    <2>1. \A d \in Client : About(d, id) => About(d, id)' /\ job'[d] = job[d]
      BY <1>2, <1>3, <1>4 DEF About
    <2>2. (Releasing(id) => Releasing(id)') /\ (Tracking(id) => Tracking(id)')
      BY <1>6, <2>1, ReleasingKept
    <2> QED
      BY <1>4, <1>5, <1>6, <2>2, ClosingKept DEF CallInv, ClosingOK
  <1> QED
    BY <1>7, <1>8, <1>9, <1>10, <1>11 DEF ClosingOK, JobsOK, Real

\* Whom Forward reaches.
LEMMA ReceiversUp ==
    ASSUME NEW c \in Client, NEW route, route.target \in Client \cup {"none"}
    PROVE  /\ \A d \in Cal!Receivers(c, route) : d \in Client /\ link[d] = "up"
           /\ route.target \in Client /\ route.target # "none" /\ link[route.target] = "up" =>
                 route.target \in Cal!Receivers(c, route)
  BY DEF Cal!Receivers, Cal!Recipients

LEMMA ForwardStep ==
    ASSUME Cal!CallConstants, CallInv, Types', Onward, NEW c \in Client, Cal!Forward(c)
    PROVE  EntriesOK' /\ PhonesOK' /\ UplinksOK' /\ JobsOK' /\ ClosingOK'
  <1> USE DEF Real
  <1>1. job[c] \in Working /\ job[c].at = "route"
    BY JobKinds DEF Cal!Forward, CallInv
  <1>2. PICK x \in Call, state \in Cal!State, to \in SUBSET Client :
           /\ job[c].id = x /\ job[c].state = state
           /\ to = Cal!Receivers(c, job[c].route)
    BY <1>1, ReceiversType DEF Working, RouteSet
  <1>3. /\ tracked' = tracked /\ circuits' = circuits /\ shown' = shown /\ link' = link
        /\ uplink' = uplink
        /\ \A d \in Client \ {c} : job'[d] = job[d]
        /\ state \in Cal!ShouldRelease =>
              /\ job'[c].at = "untrack" /\ job'[c].id = x /\ job'[c].state = state
              /\ job'[c].existing = job[c].existing /\ job'[c].route = job[c].route
        /\ state \notin Cal!ShouldRelease => job'[c] = Cal!Idle
    BY <1>1, <1>2 DEF Cal!Forward, CallInv, Types, Working
  <1>4. \A d \in Client, y \in Call :
           phone'[d][y] = IF d \in to /\ y = x THEN Cal!Hear(phone[d][y], state) ELSE phone[d][y]
    <2>1. Types /\ Cal!Deliver(to, x, state)
      BY <1>2 DEF Cal!Forward, CallInv
    <2> QED
      BY <2>1, DeliverFacts
  <1>5. /\ \A d \in to : link[d] = "up"
        /\ \A d \in Client : job[c].route.target = d /\ link[d] = "up" => d \in to
    BY <1>1, <1>2, ReceiversUp DEF Working, RouteSet, Cal!CallConstants
  <1>6. \A d \in Client, y \in Call : phone[d][y] \in Standing /\ phone'[d][y] \in Standing
    BY DEF CallInv, Types
  <1>7. x \in Real => JobOK(c, x) /\ About(c, x) /\ MessageOK(c, x, state) /\ From[x] \in Client
    BY <1>1, <1>2 DEF CallInv, JobsOK, About, JobOK, Cal!CallConstants
  <1>8. \A id \in Real : From[id] \in Client /\ id \in Call
    BY DEF Cal!CallConstants
  <1>9. EntriesOK'
    BY <1>3, <1>8 DEF EntriesOK, Onward, CallInv, Anchor, Kind, Over, Ended
  <1>10. PhonesOK'
    <2>1. ASSUME NEW id \in Real
          PROVE  phone'[From[id]][id] \in {"idle", "calling", "talking", "over"}
      <3>1. phone[From[id]][id] \in {"idle", "calling", "talking", "over"}
        BY DEF CallInv, PhonesOK
      <3>2. id = x => phone[From[id]][id] # "idle"
        BY <1>7 DEF MessageOK
      <3> QED
        BY <1>4, <1>6, <1>8, <3>1, <3>2, HearFacts
    <2>2. ASSUME NEW id \in Real, NEW d \in Client \ {From[id]}, phone'[d][id] # "idle"
          PROVE  /\ phone'[From[id]][id] # "idle"
                 /\ (tracked[id] = Anchor(id) \/ Ended(id))'
                 /\ To[id] = Cal!Group => phone'[d][id] \in {"listening", "over"}
                 /\ To[id] # Cal!Group => phone'[d][id] \in {"ringing", "talking", "over"}
      <3>1. CASE phone[d][id] # "idle"
        <4>1. /\ phone[From[id]][id] # "idle"
              /\ tracked[id] = Anchor(id) \/ Ended(id)
              /\ To[id] = Cal!Group => phone[d][id] \in {"listening", "over"}
              /\ To[id] # Cal!Group => phone[d][id] \in {"ringing", "talking", "over"}
          BY <3>1 DEF CallInv, PhonesOK
        <4>2. phone'[d][id] \in {phone[d][id], "over"}
          BY <1>4, <1>6, <3>1, <4>1, HearFacts
        <4> QED
          BY <1>3, <1>8, <4>1, <4>2 DEF Onward, Anchor, Kind, Ended
      <3>2. CASE phone[d][id] = "idle"
        <4>1. id = x /\ ( \/ state = "setup" /\ phone'[d][id] = "ringing"
                          \/ state = "groupTX" /\ phone'[d][id] = "listening" )
          BY <1>4, <1>6, <2>2, <3>2, HearFacts
        <4>2. c = From[id] /\ state = Opening(id) /\ phone[From[id]][id] # "idle"
          BY <1>7, <4>1 DEF MessageOK, Cal!ShouldRelease
        <4>3. tracked[id] = Anchor(id) \/ Ended(id)
          BY <1>1, <1>2, <1>7, <4>1, <4>2 DEF JobOK
        <4> QED
          BY <1>3, <1>8, <4>1, <4>2, <4>3 DEF Onward, Anchor, Kind, Ended, Opening
      <3> QED BY <3>1, <3>2
    <2>3. \A d \in Client : link'[d] # "up" =>
             /\ \A id \in Call : phone'[d][id] \in {"idle", "over"}
             /\ uplink'[d] = <<>>
      BY <1>3, <1>4, <1>5 DEF CallInv, PhonesOK
    <2>4. \A d \in Client : link'[d] = "ended" <=> job'[d].at = "tell"
      BY <1>1, <1>2, <1>3 DEF CallInv, PhonesOK, Cal!Idle
    <2> QED
      BY <2>1, <2>2, <2>3, <2>4 DEF PhonesOK
  <1>11. UplinksOK'
    BY <1>3, UplinksKept DEF CallInv
  <1>12. x \in Real /\ state \in Cal!ShouldRelease => Over(x)'
    <2>1. SUFFICES ASSUME x \in Real, state \in Cal!ShouldRelease
                   PROVE  phone'[From[x]][x] = "over"
      BY DEF Over
    <2>2. c = From[x] \/ job[c].route.target = From[x] \/ Ended(x)
      BY <1>1, <1>2, <1>7, <2>1 DEF JobOK
    <2>3. CASE c = From[x]
      BY <1>7, <2>1, <2>3 DEF MessageOK, Over, Opening, Cal!ShouldRelease, Onward
    <2>4. CASE job[c].route.target = From[x]
      <3>1. phone[From[x]][x] # "idle"
        BY <1>7, <2>1 DEF MessageOK
      <3>2. CASE link[From[x]] = "up"
        BY <1>4, <1>5, <1>6, <1>7, <2>1, <2>4, <3>1, <3>2, HearFacts
      <3>3. CASE link[From[x]] # "up"
        BY <1>7, <2>1, <3>1, <3>3 DEF CallInv, PhonesOK, Onward
      <3> QED BY <3>2, <3>3
    <2>5. CASE Ended(x)
      BY <1>7, <2>1, <2>5 DEF CallInv, EntriesOK, Over, Onward
    <2> QED BY <2>2, <2>3, <2>4, <2>5
  <1>13. ASSUME NEW id \in Real, NEW d \in Client
         PROVE  JobOK(d, id)'
    <2>1. CASE d # c
      BY <1>3, <2>1, JobKept DEF CallInv, JobsOK
    <2>2. CASE d = c /\ (id # x \/ state \notin Cal!ShouldRelease)
      BY <1>3, <2>2 DEF JobOK, About, Cal!Idle
    <2>3. CASE d = c /\ id = x /\ state \in Cal!ShouldRelease
      <3>1. MessageOK(c, x, state)'
        BY <1>7, <2>3, MessageKept
      <3>2. Opening(x) \notin Cal!ShouldRelease /\ "connect" \notin Cal!ShouldRelease
        BY DEF Opening, Cal!ShouldRelease
      <3> QED
        BY <1>2, <1>3, <1>7, <1>12, <2>3, <3>1, <3>2
           DEF JobOK, About, MessageOK, Over, Kind, Opening
    <2> QED BY <2>1, <2>2, <2>3
  <1>14. ASSUME NEW id \in Real
         PROVE  Closing(id)'
    <2>1. From[id] \in Client /\ id \in Call /\ Closing(id)
      BY <1>8 DEF CallInv, ClosingOK
    <2>2. Tracking(id) => Tracking(id)'
      BY <1>1, <1>3, <2>1 DEF Tracking, About, Opening
    <2>3. Releasing(id) => Releasing(id)'
      BY <1>1, <1>2, <1>3 DEF Releasing, About
    <2>4. CASE phone'[From[id]][id] = phone[From[id]][id]
      BY <1>3, <2>1, <2>2, <2>3, <2>4, ClosingKept
    <2>5. CASE phone'[From[id]][id] # phone[From[id]][id]
      <3>1. id = x
        BY <1>4, <2>1, <2>5
      <3>2. phone[From[id]][id] # "idle"
        BY <1>7, <3>1 DEF MessageOK
      <3>3. CASE state \in Cal!ShouldRelease
        <4>1. Releasing(id)'
          BY <1>3, <3>1, <3>3 DEF Releasing, About
        <4>2. c # From[id]
          BY <1>7, <1>12, <2>5, <3>1, <3>3 DEF MessageOK, Over, Opening, Cal!ShouldRelease
        <4>3. shown[id] # "none"
          <5>1. tracked[id] = Anchor(id) \/ Ended(id)
            BY <1>7, <3>1, <4>2 DEF CallInv, PhonesOK, MessageOK
          <5>2. Anchor(id) # Cal!NoCall
            BY <2>1 DEF Anchor, Cal!NoCall, Cal!CallConstants
          <5> QED
            BY <5>1, <5>2 DEF CallInv, EntriesOK, Ended
        <4> QED
          BY <1>3, <4>1, <4>3 DEF Closing
      <3>4. CASE state \notin Cal!ShouldRelease
        <4>1. phone'[From[id]][id] # "over"
          BY <1>4, <1>6, <2>1, <2>5, <3>2, <3>4, HearFacts
        <4> QED
          BY <1>3, <2>1, <2>2, <3>2, <4>1
             DEF Closing, Over, Ending, Unopened, Open, Opening
      <3> QED BY <3>3, <3>4
    <2> QED BY <2>4, <2>5
  <1> QED
    BY <1>9, <1>10, <1>11, <1>13, <1>14 DEF ClosingOK, JobsOK

\* An entry of a real call is one of a call that is shown.
LEMMA AnchorShown ==
    ASSUME Cal!CallConstants, CallInv, NEW id \in Real, tracked[id] = Anchor(id) \/ Ended(id)
    PROVE  shown[id] # "none"
  <1>1. Anchor(id) # Cal!NoCall
    BY DEF Anchor, Cal!NoCall, Cal!CallConstants, Real
  <1> QED
    BY <1>1 DEF CallInv, EntriesOK, Ended

LEMMA UntrackStep ==
    ASSUME Cal!CallConstants, CallInv, Types', Onward, NEW c \in Client, Cal!Untrack(c)
    PROVE  EntriesOK' /\ PhonesOK' /\ UplinksOK' /\ JobsOK' /\ ClosingOK'
  <1> USE DEF Real
  <1>1. job[c] \in Working /\ job[c].at = "untrack"
    BY JobKinds DEF Cal!Untrack, CallInv
  <1>2. PICK x \in Call : job[c].id = x
    BY <1>1 DEF Working
  <1>3. /\ circuits' \subseteq circuits /\ link' = link /\ phone' = phone /\ uplink' = uplink
        /\ job'[c] = Cal!Idle /\ \A d \in Client \ {c} : job'[d] = job[d]
        /\ tracked'[x] = Cal!NoCall /\ shown'[x] = Cal!End(shown[x])
        /\ \A id \in Call \ {x} : tracked'[id] = tracked[id] /\ shown'[id] = shown[id]
    BY <1>2 DEF Cal!Untrack, CallInv, Types
  <1>4. x \in Real => Over(x)
    BY <1>1, <1>2 DEF CallInv, JobsOK, JobOK, About
  <1>5. ASSUME NEW id \in Real, tracked[id] = Anchor(id) \/ Ended(id)
        PROVE  (tracked[id] = Anchor(id) \/ Ended(id))'
    <2>1. shown[id] \in {"active", "ended"}
      BY <1>5, AnchorShown DEF CallInv, Types
    <2> QED
      BY <1>3, <1>5, <2>1 DEF Cal!End, Ended, Anchor, Kind
  <1>6. EntriesOK'
    <2>1. ASSUME NEW id \in Real, id = x
          PROVE  /\ id \notin circuits' /\ tracked'[id] = Cal!NoCall
                 /\ shown'[id] # "active" /\ Over(id)'
      BY <1>3, <1>4, <2>1 DEF CallInv, EntriesOK, Cal!End, Over
    <2>2. ASSUME NEW id \in Real, id # x
          PROVE  /\ id \notin circuits' /\ tracked'[id] = tracked[id] /\ shown'[id] = shown[id]
                 /\ phone'[From[id]][id] = phone[From[id]][id]
      BY <1>3, <2>2 DEF CallInv, EntriesOK
    <2> QED
      BY <2>1, <2>2 DEF CallInv, EntriesOK, Anchor, Kind, Over, Ended
  <1>7. PhonesOK'
    <2>1. \A d \in Client : link'[d] = "ended" <=> job'[d].at = "tell"
      BY <1>1, <1>3 DEF CallInv, PhonesOK, Cal!Idle
    <2> QED
      BY <1>3, <1>5, <2>1 DEF CallInv, PhonesOK
  <1>8. UplinksOK'
    BY <1>3, UplinksKept DEF CallInv
  <1>9. ASSUME NEW id \in Real, NEW d \in Client
        PROVE  JobOK(d, id)'
    <2>1. CASE d = c
      BY <1>3, <2>1 DEF JobOK, About, Cal!Idle
    <2>2. CASE d # c
      <3>1. tracked[id] = Anchor(id) => tracked'[id] = Anchor(id) \/ Ended(id)'
        BY <1>5 DEF Anchor, Kind
      <3> QED
        BY <1>3, <2>2, <3>1, JobKept DEF CallInv, JobsOK
    <2> QED BY <2>1, <2>2
  <1>10. ASSUME NEW id \in Real
         PROVE  Closing(id)'
    <2>1. From[id] \in Client /\ id \in Call /\ Closing(id)
      BY DEF Cal!CallConstants, CallInv, ClosingOK
    <2>2. Tracking(id) => Tracking(id)'
      BY <1>1, <1>3, <2>1 DEF Tracking, About, Opening
    <2>3. CASE id = x
      <3>1. shown'[id] # "active" /\ (shown'[id] = "none" => shown[id] = "none")
        BY <1>3, <2>3 DEF Cal!End
      <3> QED
        BY <1>3, <2>1, <2>2, <3>1 DEF Closing, Over, Ending, Unopened, Open, Opening
    <2>4. CASE id # x
      <3>1. Releasing(id) => Releasing(id)'
        BY <1>2, <1>3, <2>4 DEF Releasing, About
      <3> QED
        BY <1>3, <2>1, <2>2, <2>4, <3>1, ClosingKept
    <2> QED BY <2>3, <2>4
  <1> QED
    BY <1>6, <1>7, <1>8, <1>9, <1>10 DEF ClosingOK, JobsOK

LEMMA DisconnectStep ==
    ASSUME Cal!CallConstants, CallInv, Types', Onward, NEW c \in Client, Cal!Disconnect(c)
    PROVE  EntriesOK' /\ PhonesOK' /\ UplinksOK' /\ JobsOK' /\ ClosingOK'
  <1> USE DEF Real
  <1>1. /\ link[c] = "broken" /\ job[c].at = "idle"
        /\ circuits' = circuits /\ phone' = phone /\ uplink' = uplink
        /\ link'[c] = "ended" /\ \A d \in Client \ {c} : link'[d] = link[d] /\ job'[d] = job[d]
        /\ job'[c].at = "tell" /\ DOMAIN job'[c].calls = Cal!Orphans(c)
        /\ \A id \in Cal!Orphans(c) : tracked'[id] = Cal!NoCall /\ shown'[id] = Cal!End(shown[id])
        /\ \A id \in Call \ Cal!Orphans(c) : tracked'[id] = tracked[id] /\ shown'[id] = shown[id]
    BY DEF Cal!Disconnect, CallInv, Types, Cal!Idle, Cal!Orphans
  <1>2. ASSUME NEW id \in Real, id \in Cal!Orphans(c)
        PROVE  /\ tracked[id] # Cal!NoCall /\ Over(id)
               /\ c # From[id] => Ended(id)
    <2>1. tracked[id].origin = c /\ tracked[id] # Cal!NoCall
      BY <1>2 DEF Cal!Orphans, Cal!NoCall, Cal!CallConstants
    <2>2. CASE tracked[id] = Anchor(id)
      <3>1. c = From[id] /\ phone[c][id] \in {"idle", "over"} /\ phone[c][id] # "idle"
        BY <1>1, <2>1, <2>2 DEF Anchor, CallInv, PhonesOK, EntriesOK
      <3> QED
        BY <2>1, <3>1 DEF Over
    <2>3. CASE tracked[id] # Anchor(id)
      BY <2>1, <2>3 DEF CallInv, EntriesOK
    <2> QED BY <2>2, <2>3
  <1>3. ASSUME NEW id \in Real, tracked[id] = Anchor(id) \/ Ended(id)
        PROVE  (tracked[id] = Anchor(id) \/ Ended(id))'
    <2>1. shown[id] \in {"active", "ended"}
      BY <1>3, AnchorShown DEF CallInv, Types
    <2> QED
      BY <1>1, <1>3, <2>1 DEF Cal!End, Ended, Anchor, Kind
  <1>4. EntriesOK'
    <2>1. ASSUME NEW id \in Real, id \in Cal!Orphans(c)
          PROVE  /\ id \notin circuits' /\ tracked'[id] = Cal!NoCall
                 /\ shown'[id] # "active" /\ Over(id)'
      BY <1>1, <1>2, <2>1 DEF CallInv, EntriesOK, Cal!End, Over
    <2>2. ASSUME NEW id \in Real, id \notin Cal!Orphans(c)
          PROVE  /\ id \notin circuits' /\ tracked'[id] = tracked[id] /\ shown'[id] = shown[id]
                 /\ phone'[From[id]][id] = phone[From[id]][id]
      BY <1>1, <2>2 DEF CallInv, EntriesOK
    <2> QED
      BY <2>1, <2>2 DEF CallInv, EntriesOK, Anchor, Kind, Over, Ended
  <1>5. PhonesOK'
    <2>1. \A d \in Client : link'[d] = "ended" <=> job'[d].at = "tell"
      BY <1>1 DEF CallInv, PhonesOK
    <2>2. \A d \in Client : link'[d] # "up" =>
             (\A id \in Call : phone'[d][id] \in {"idle", "over"}) /\ uplink'[d] = <<>>
      BY <1>1 DEF CallInv, PhonesOK
    <2> QED
      BY <1>1, <1>3, <2>1, <2>2 DEF CallInv, PhonesOK
  <1>6. UplinksOK'
    BY <1>1, UplinksKept DEF CallInv
  <1>7. ASSUME NEW id \in Real, NEW d \in Client
        PROVE  JobOK(d, id)'
    <2>1. CASE d = c
      BY <1>1, <1>2, <2>1 DEF JobOK, About, Onward
    <2>2. CASE d # c
      <3>1. tracked[id] = Anchor(id) => tracked'[id] = Anchor(id) \/ Ended(id)'
        BY <1>3 DEF Anchor, Kind
      <3> QED
        BY <1>1, <2>2, <3>1, JobKept DEF CallInv, JobsOK
    <2> QED BY <2>1, <2>2
  <1>8. ASSUME NEW id \in Real
        PROVE  Closing(id)'
    <2>1. From[id] \in Client /\ id \in Call /\ Closing(id)
      BY DEF Cal!CallConstants, CallInv, ClosingOK
    <2>2. \A d \in Client : About(d, id) => About(d, id)' /\ job'[d] = job[d]
      BY <1>1 DEF About
    <2>3. (Tracking(id) => Tracking(id)') /\ (Releasing(id) => Releasing(id)')
      BY <2>1, <2>2, ReleasingKept
    <2>4. CASE From[id] # c /\ id \notin Cal!Orphans(c)
      BY <1>1, <2>1, <2>3, <2>4, ClosingKept
    <2>5. CASE id \in Cal!Orphans(c)
      <3>1. shown'[id] # "active" /\ (shown'[id] = "none" => shown[id] = "none")
        BY <1>1, <2>5 DEF Cal!End
      <3>2. link'[From[id]] = "up" => link[From[id]] = "up"
        BY <1>1, <2>1
      <3>3. link[From[id]] # "up" => link'[From[id]] # "up"
        BY <1>1, <2>1
      <3> QED
        BY <1>1, <2>1, <2>3, <3>1, <3>2, <3>3 DEF Closing, Over, Ending, Unopened, Open, Opening
    <2>6. CASE From[id] = c /\ id \notin Cal!Orphans(c)
      <3>1. shown[id] # "active"
        <4>1. tracked[id] # Anchor(id)
          BY <2>1, <2>6 DEF Anchor, Cal!Orphans
        <4> QED
          BY <4>1 DEF CallInv, EntriesOK
      <3> QED
        BY <1>1, <2>1, <2>6, <3>1 DEF Closing
    <2> QED BY <2>4, <2>5, <2>6
  <1> QED
    BY <1>4, <1>5, <1>6, <1>7, <1>8 DEF ClosingOK, JobsOK

LEMMA TellStep ==
    ASSUME Cal!CallConstants, CallInv, Types', Onward, NEW c \in Client, NEW x \in Call, Cal!Tell(c, x)
    PROVE  EntriesOK' /\ PhonesOK' /\ UplinksOK' /\ JobsOK' /\ ClosingOK'
  <1> USE DEF Real
  <1>1. job[c] = [at |-> "tell", calls |-> job[c].calls] /\ x \in DOMAIN job[c].calls
    BY JobKinds DEF Cal!Tell, CallInv, Types, Working, Cal!Idle
  <1>2. PICK to \in SUBSET (Client \ {c}) :
           Cal!Deliver(to, x, "release") /\ \A d \in to : link[d] = "up"
    BY DEF Cal!Tell, Cal!Recipients
  <1>3. /\ tracked' = tracked /\ circuits' = circuits /\ shown' = shown /\ link' = link
        /\ uplink' = uplink
        /\ \A d \in Client \ {c} : job'[d] = job[d]
        /\ job[c].at = "tell" /\ job'[c].at = "tell"
        /\ DOMAIN job'[c].calls = DOMAIN job[c].calls \ {x}
    BY <1>1 DEF Cal!Tell, CallInv, Types
  <1>4. \A d \in Client, y \in Call :
           phone'[d][y] = IF d \in to /\ y = x THEN Cal!Hear(phone[d][y], "release") ELSE phone[d][y]
    <2>1. Types /\ "release" \in Cal!State /\ to \in SUBSET Client
      BY DEF CallInv, Cal!State
    <2> QED
      BY <1>2, <2>1, DeliverFacts
  <1>5. \A d \in Client, y \in Call :
           phone'[d][y] = phone[d][y] \/ (phone[d][y] # "idle" /\ phone'[d][y] = "over" /\ y = x)
    <2>1. \A d \in Client, y \in Call : phone[d][y] \in Standing
      BY DEF CallInv, Types
    <2>2. "release" \in Cal!State
      BY DEF Cal!State
    <2> QED
      BY <1>4, <2>1, <2>2, HearFacts
  <1>6. \A id \in Real : From[id] \in Client /\ id \in Call
    BY DEF Cal!CallConstants
  <1>7. ASSUME NEW id \in Real
        PROVE  phone'[From[id]][id] = phone[From[id]][id]
    <2>1. CASE c = From[id]
      BY <1>2, <1>4, <1>6, <2>1
    <2>2. CASE c # From[id] /\ id = x
      <3>1. Over(id)
        BY <1>1, <1>3, <2>2 DEF CallInv, JobsOK, JobOK, EntriesOK
      <3> QED
        BY <1>6, <3>1 DEF Over, Onward
    <2>3. CASE id # x
      BY <1>4, <1>6, <2>3
    <2> QED BY <2>1, <2>2, <2>3
  <1>8. EntriesOK'
    BY <1>3, <1>7 DEF EntriesOK, CallInv, Anchor, Kind, Over, Ended
  <1>9. PhonesOK'
    <2>1. ASSUME NEW id \in Real, NEW d \in Client \ {From[id]}, phone'[d][id] # "idle"
          PROVE  /\ phone'[From[id]][id] # "idle"
                 /\ (tracked[id] = Anchor(id) \/ Ended(id))'
                 /\ To[id] = Cal!Group => phone'[d][id] \in {"listening", "over"}
                 /\ To[id] # Cal!Group => phone'[d][id] \in {"ringing", "talking", "over"}
      <3>1. d \in Client /\ id \in Call /\ phone[d][id] # "idle"
        BY <1>5, <1>6, <2>1
      <3>2. /\ phone[From[id]][id] # "idle"
            /\ tracked[id] = Anchor(id) \/ Ended(id)
            /\ To[id] = Cal!Group => phone[d][id] \in {"listening", "over"}
            /\ To[id] # Cal!Group => phone[d][id] \in {"ringing", "talking", "over"}
        BY <2>1, <3>1 DEF CallInv, PhonesOK
      <3>3. phone'[d][id] = phone[d][id] \/ phone'[d][id] = "over"
        BY <1>5, <3>1
      <3>4. (tracked[id] = Anchor(id) \/ Ended(id))'
        BY <1>3, <3>2 DEF Anchor, Kind, Ended
      <3>5. phone'[From[id]][id] # "idle"
        BY <1>7, <3>2
      <3> QED BY <3>2, <3>3, <3>4, <3>5
    <2>2. \A d \in Client : link'[d] # "up" =>
             (\A id \in Call : phone'[d][id] \in {"idle", "over"}) /\ uplink'[d] = <<>>
      BY <1>3, <1>5 DEF CallInv, PhonesOK
    <2>3. \A d \in Client : link'[d] = "ended" <=> job'[d].at = "tell"
      BY <1>3 DEF CallInv, PhonesOK
    <2>4. \A id \in Real : phone'[From[id]][id] \in {"idle", "calling", "talking", "over"}
      BY <1>7 DEF CallInv, PhonesOK
    <2> QED
      BY <2>1, <2>2, <2>3, <2>4 DEF PhonesOK
  <1>10. UplinksOK'
    BY <1>3, UplinksKept DEF CallInv
  <1>11. ASSUME NEW id \in Real, NEW d \in Client
         PROVE  JobOK(d, id)'
    <2>1. CASE d = c
      BY <1>1, <1>3, <2>1 DEF JobOK, About, Onward, CallInv, JobsOK
    <2>2. CASE d # c
      BY <1>3, <2>2, JobKept DEF CallInv, JobsOK
    <2> QED BY <2>1, <2>2
  <1>12. ASSUME NEW id \in Real
         PROVE  Closing(id)'
    <2>1. \A d \in Client : About(d, id) => About(d, id)' /\ job'[d] = job[d]
      BY <1>3 DEF About
    <2>2. (Tracking(id) => Tracking(id)') /\ (Releasing(id) => Releasing(id)')
      BY <1>6, <2>1, ReleasingKept
    <2> QED
      BY <1>3, <1>7, <2>2, ClosingKept DEF CallInv, ClosingOK
  <1> QED
    BY <1>8, <1>9, <1>10, <1>11, <1>12 DEF ClosingOK, JobsOK

-----------------------------------------------------------------------------
(* The theorems                                                            *)

LEMMA InvInit ==
    ASSUME Cal!CallConstants, Cal!Init
    PROVE  CallInv
  <1>1. Types
    <2>1. uplink \in [Client -> Seq(Call \X Cal!State)]
      BY DEF Cal!Init
    <2> QED
      BY <2>1, NoCallType DEF Cal!Init, Types, Standing
  <1>2. \A id \in Call : From[id] \in Client
    BY DEF Cal!CallConstants
  <1>3. EntriesOK /\ JobsOK
    BY <1>2 DEF Cal!Init, EntriesOK, JobsOK, JobOK, About, Cal!Idle, Real, Ended, Over
  <1>4. PhonesOK
    BY <1>2 DEF Cal!Init, PhonesOK, Real, Cal!Idle
  <1>5. \A c \in Client : \A i \in DOMAIN uplink[c] : FALSE
    <2>1. \A c \in Client : uplink[c] = <<>>
      BY DEF Cal!Init
    <2> QED
      BY <2>1
  <1>6. UplinksOK
    BY <1>5 DEF UplinksOK
  <1>7. ClosingOK
    BY <1>2, <1>5 DEF Cal!Init, ClosingOK, Closing, Over, Real
  <1> QED
    BY <1>1, <1>3, <1>4, <1>6, <1>7 DEF CallInv

LEMMA InvNext ==
    ASSUME Cal!CallConstants, CallInv, [Cal!Next]_(Cal!vars)
    PROVE  CallInv'
  <1>1. CASE UNCHANGED Cal!vars
    <2>1. /\ tracked' = tracked /\ circuits' = circuits /\ shown' = shown /\ link' = link
          /\ phone' = phone /\ uplink' = uplink /\ job' = job
      BY <1>1 DEF Cal!vars
    <2>2. Types' /\ EntriesOK' /\ PhonesOK'
      BY <2>1 DEF CallInv, Types, EntriesOK, PhonesOK, Anchor, Kind, Over, Ended, Real
    <2>3. UplinksOK' /\ JobsOK'
      BY <2>1 DEF CallInv, UplinksOK, JobsOK, JobOK, About, MessageOK, Anchor, Kind, Opening,
                  Over, Ended, Real
    <2>4. ClosingOK'
      BY <2>1 DEF CallInv, ClosingOK, Closing, Tracking, Releasing, Unopened, Open, Ending, About,
                  Opening, Over, Real
    <2> QED
      BY <2>2, <2>3, <2>4 DEF CallInv
  <1>2. CASE Cal!Next
    <2>1. Types' /\ Onward
      BY <1>2, TypesStep, OnwardStep DEF CallInv
    <2>2. ASSUME NEW c \in Client, NEW id \in Call,
                 Cal!Place(c, id) \/ Cal!Alert(c, id) \/ Cal!Answer(c, id) \/ Cal!HangUp(c, id)
          PROVE  CallInv'
      <3>1. PICK state \in Cal!State, standing \in Standing : Sent(c, id, state, standing)
        BY <2>2, SendFacts
      <3> QED
        BY <2>1, <3>1, SendStep DEF CallInv
    <2>3. ASSUME NEW c \in Client, Cal!Break(c)
          PROVE  CallInv'
      BY <2>1, <2>3, BreakStep DEF CallInv
    <2>4. ASSUME NEW c \in Client, Cal!Lookup(c) \/ Cal!Track(c) \/ Cal!Virtual(c) \/ Cal!Forward(c)
          PROVE  CallInv'
      BY <2>1, <2>4, LookupStep, TrackStep, VirtualStep, ForwardStep DEF CallInv
    <2>5. ASSUME NEW c \in Client, Cal!Untrack(c) \/ Cal!Disconnect(c)
          PROVE  CallInv'
      BY <2>1, <2>5, UntrackStep, DisconnectStep DEF CallInv
    <2>6. ASSUME NEW c \in Client, NEW id \in Call, Cal!Tell(c, id)
          PROVE  CallInv'
      BY <2>1, <2>6, TellStep DEF CallInv
    <2> QED
      BY <1>2, <2>2, <2>3, <2>4, <2>5, <2>6 DEF Cal!Next, Cal!ReadLoop
  <1> QED BY <1>1, <1>2

\* The inductive invariant holds of every behaviour: what the entries, the radios,
\* the messages and the read loops say of a call agree.
THEOREM CallInvariant ==
    ASSUME Cal!CallConstants
    PROVE  Cal!Spec => []CallInv
  BY InvInit, InvNext, PTL DEF Cal!Spec

\* Every reachable state is of the types the model gives its variables.
THEOREM CallsTyped ==
    ASSUME Cal!CallConstants
    PROVE  Cal!Spec => []Cal!TypeOK
  <1>1. CallInv => Cal!TypeOK
    <2>1. SUFFICES ASSUME Types
                   PROVE  Cal!TypeOK
      BY DEF CallInv
    <2>2. \A id \in Call : tracked[id] \in EntrySet
      BY <2>1 DEF Types
    <2>3. ASSUME NEW c \in Client
          PROVE  /\ \A i \in 1..Len(uplink[c]) : uplink[c][i] \in Call \X Cal!State
                 /\ job[c].at \in {"idle", "track", "route", "untrack", "tell"}
      <3>1. uplink[c] \in Seq(Call \X Cal!State)
        BY <2>1 DEF Types
      <3> QED
        BY <2>1, <3>1, JobKinds
    <2> QED
      BY <2>1, <2>2, <2>3 DEF Types, Cal!TypeOK, EntrySet, Standing
  <1> QED
    BY <1>1, CallInvariant, PTL

\* Whatever an answer's payload says and however the read loops mix, the entry of a
\* call between two radios is the pair of its setup and the session it came from
\* until the caller has left (onCallControlFromClient's entry for an answer).
THEOREM AlwaysAnchored ==
    ASSUME Cal!CallConstants
    PROVE  Cal!Spec => []Anchored
  <1>1. CallInv => Anchored
    <2>1. SUFFICES ASSUME CallInv, NEW id \in Cal!Private, tracked[id] # Cal!NoCall,
                          phone[From[id]][id] # "over"
                   PROVE  tracked[id] = [src |-> From[id], dst |-> To[id], type |-> "subscriber",
                                         origin |-> From[id]]
      BY DEF Anchored, Cal!Anchored
    <2>2. id \in Real /\ Kind(id) = "subscriber"
      BY DEF Cal!Private, Real, Kind, Cal!CallConstants
    <2>3. ~Ended(id)
      BY <2>1, <2>2 DEF CallInv, EntriesOK, Over
    <2> QED
      BY <2>1, <2>2, <2>3 DEF CallInv, EntriesOK, Anchor
  <1> QED
    BY <1>1, CallInvariant, PTL

\* Once every message is handled the public page shows no call of radios or of a
\* group that its caller has left, also when an answer crossed the hang-up.
THEOREM AlwaysShownLive ==
    ASSUME Cal!CallConstants
    PROVE  Cal!Spec => []ShownLive
  <1>1. CallInv => Cal!ShownLive
    <2>1. SUFFICES ASSUME CallInv, Cal!Settled, NEW id \in Call, To[id] # Cal!Echo,
                          shown[id] = "active", phone[From[id]][id] = "over"
                   PROVE  FALSE
      BY DEF Cal!ShownLive
    <2>2. From[id] \in Client /\ Closing(id) /\ Over(id)
      BY <2>1 DEF Cal!CallConstants, CallInv, ClosingOK, Real, Over
    <2>3. link[From[id]] # "broken" /\ DOMAIN uplink[From[id]] = {}
      BY <2>1, <2>2 DEF Cal!Settled
    <2>4. ~Releasing(id)
      BY <2>1 DEF Cal!Settled, Releasing, About
    <2> QED
      BY <2>1, <2>2, <2>3, <2>4 DEF Closing
  <1> QED
    BY <1>1, CallInvariant, CallsTyped, PTL DEF ShownLive
=============================================================================
