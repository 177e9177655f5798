---------------------------- MODULE BrewProtocol ----------------------------
(***************************************************************************)
(* The packets of the Brew protocol on their way through servers.  Every   *)
(* server parses the bytes it reads and builds the packet it passes on     *)
(* anew from what it understood.  A packet is its class, its type and the  *)
(* bytes behind the call identifier (a subscriber, error or service packet *)
(* has no identifier); the identifier is copied and left out, and so are   *)
(* the packets too short to hold it, which every receiver refuses.         *)
(***************************************************************************)
EXTENDS SdsEnvelope

CONSTANTS Packet,   \* what base stations send
          Spoken,   \* subscriber and service messages a program sends
          CallRoute, \* the addresses of the call a short data message belongs to
          MaxHops   \* how often a packet is passed on

Byte == {n \in Nat : n < 256}
Word == {n \in Nat : n < 65536}

\* An identifier of a subscriber or a group, as it is kept in a message.
Identifier == [1..2 -> Word]

\* Whatever bytes a base station sends behind a header; a string of a service
\* message holds no zero.
ProtocolConstants ==
    /\ \A p \in Packet :
          /\ p.class \in {"subscriber", "call", "frame", "service", "error", "other"}
          /\ p.type \in Byte
          /\ p.body \in Seq(Byte)
          /\ p.class = "frame" => p.bits \in Word
    /\ \A m \in Spoken :
          \/ m \in [class : {"service"}, type : Byte, json : Seq(Byte \ {0})]
          \/ m \in [class : {"subscriber"}, type : Byte, number : Identifier, groups : Seq(Identifier)]
    /\ CallRoute \in [src : Nat, dst : Nat]

VARIABLES packet,   \* the packet on the wire
          first,    \* what the first receiver understood
          message,  \* what the last one did; NotRead while the packet is on its way
          hops

vars == <<packet, first, message, hops>>

NotRead == [class |-> "unread"]
Refused == [class |-> "refused"]

-----------------------------------------------------------------------------
(* Fields                                                                  *)

\* A field has a place, counted from 0, and a kind.
Field(at, kind) == [at |-> at, kind |-> kind]

Width(kind) ==
    CASE kind = "u8" -> 1
      [] kind = "u16" -> 2
      [] kind = "u32" -> 4
      [] kind = "u64" -> 8
      [] kind = "ipv6" -> 16
      [] kind = "name" -> 32

End(field) == field.at + Width(field.kind)

\* A number is kept in words of 16 bits, the lowest first.
Words(bytes) == [i \in 1..(Len(bytes) \div 2) |-> bytes[2 * i - 1] + 256 * bytes[2 * i]]
Octets(words) ==
    [i \in 1..(2 * Len(words)) |->
        IF i % 2 = 1 THEN words[(i + 1) \div 2] % 256 ELSE words[i \div 2] \div 256]

\* The bytes before the first zero, if there is one.
BeforeZero(bytes) ==
    LET zeros == {i \in 1..Len(bytes) : bytes[i] = 0}
    IN IF zeros = {} THEN bytes
       ELSE SubSeq(bytes, 1, (CHOOSE i \in zeros : \A j \in zeros : i <= j) - 1)

Zeros(n) == [i \in 1..n |-> 0]

ReadField(kind, bytes) ==
    CASE kind \in {"u16", "u32", "u64"} -> Words(bytes)
      [] kind = "name" -> BeforeZero(bytes)
      [] kind \in {"u8", "ipv6"} -> bytes

WriteField(kind, value) ==
    CASE kind \in {"u16", "u32", "u64"} -> Octets(value)
      [] kind = "name" -> value \o Zeros(32 - Len(value))
      [] kind \in {"u8", "ipv6"} -> value

\* How many bytes the fields of a layout take.
Size(layout) == IF layout = <<>> THEN 0 ELSE End(layout[Len(layout)])

Read(layout, bytes) ==
    [i \in 1..Len(layout) |->
        ReadField(layout[i].kind, SubSeq(bytes, layout[i].at + 1, End(layout[i])))]

\* The field a byte belongs to.
FieldOf(layout, k) == CHOOSE i \in 1..Len(layout) : k \in layout[i].at + 1..End(layout[i])

Write(layout, fields) ==
    [k \in 1..Size(layout) |->
        LET i == FieldOf(layout, k)
        IN WriteField(layout[i].kind, fields[i])[k - layout[i].at]]

-----------------------------------------------------------------------------
(* Call control: states by their numbers in the protocol                   *)

GroupTX == 2
ShortTransfer == 11
PDPRequest == 14
PDPAccept == 15

\* Octets from one place on.
Octet(at, n) == [i \in 1..n |-> Field(at + i - 1, "u8")]

Circular == <<Field(0, "u32"), Field(4, "u32"), Field(8, "name")>> \o Octet(40, 11)

\* A short transfer has two forms, told apart by their lengths.
ShortData == <<Field(0, "u32"), Field(4, "u32"), Field(8, "name")>>
Status == <<Field(0, "u16")>>
ShortForm(body) == IF Len(body) >= Size(ShortData) THEN ShortData ELSE Status

\* The fields of a call control payload; what follows them is kept by a packet
\* request and by the states the server does not know, and is dropped otherwise.
Layout(state, body) ==
    CASE state = GroupTX -> <<Field(0, "u32"), Field(4, "u32"), Field(8, "u8"), Field(9, "u8"), Field(10, "u16")>>
      [] state \in {3, 6, 10, 16, 17} -> Octet(0, 1)
      [] state \in {4, 8} -> Circular
      [] state \in {9, 12, 13} -> Octet(0, 2)
      [] state = ShortTransfer -> ShortForm(body)
      [] state = PDPRequest -> <<Field(0, "u32"), Field(4, "u8"), Field(5, "u32")>>
      [] state = PDPAccept -> <<Field(0, "u8"), Field(1, "u32"), Field(5, "ipv6"), Field(21, "u32")>>
      [] OTHER -> <<>>

KeepsRest(state) == state = PDPRequest \/ state \notin 2..17

ParseCallControl(p) ==
    LET layout == Layout(p.type, p.body)
    IN IF Len(p.body) < Size(layout) THEN Refused
       ELSE [class |-> "call", type |-> p.type, layout |-> layout, fields |-> Read(layout, p.body),
             rest |-> IF KeepsRest(p.type) THEN SubSeq(p.body, Size(layout) + 1, Len(p.body)) ELSE <<>>]

BuildCallControl(m) ==
    [class |-> "call", type |-> m.type, body |-> Write(m.layout, m.fields) \o m.rest]

-----------------------------------------------------------------------------
(* Frames                                                                  *)

Traffic == 0
SDSTransfer == 1
SDSReport == 2
DTMFData == 3
PacketData == 4
IsSDS(type) == type \in {SDSTransfer, SDSReport}

PayloadBytes(bits) == (bits + 7) \div 8

\* validateFramePayload; the DTMF characters are digits, *, # and A to D.
Valid(type, data) ==
    CASE type \in {Traffic, SDSTransfer} -> Len(data) # 0
      [] type = SDSReport -> Len(data) = 1 \/ Len(data) >= 9
      [] type = DTMFData -> Len(data) = 1 /\ data[1] \in (48..57) \cup {42, 35} \cup (65..68)
      [] type = PacketData -> Len(data) # 0 /\ data[1] \div 16 \in {4, 6}
      [] OTHER -> TRUE

\* Variant: the length is taken at its word.
KeptExact(type, bits, data) == PayloadBytes(bits)

\* How much of a frame counts: what its length says, and eight bytes of addresses
\* that a short data message may have besides.
Kept(type, bits, data) ==
    LET expected == PayloadBytes(bits)
    IN IF IsSDS(type) /\ Len(data) >= expected + 8 THEN expected + 8 ELSE expected

ParseFrame(p) ==
    LET data == SubSeq(p.body, 1, Kept(p.type, p.bits, p.body))
    IN IF Len(p.body) < PayloadBytes(p.bits) \/ ~Valid(p.type, data) THEN Refused
       ELSE [class |-> "frame", type |-> p.type, bits |-> p.bits, data |-> data]

\* normalizeFramePayload: too little data is filled up with zeros.
Normalized(type, bits, data) ==
    LET kept == Kept(type, bits, data)
    IN IF PayloadBytes(bits) = 0 THEN <<>>
       ELSE IF Len(data) >= kept THEN SubSeq(data, 1, kept)
       ELSE data \o Zeros(kept - Len(data))

\* A length of zero is computed.
LengthOf(bits, data) ==
    IF bits # 0 \/ data = <<>> THEN bits
    ELSE IF Len(data) * 8 > 65535 THEN 65535 ELSE Len(data) * 8

BuildFrame(type, bits, data) ==
    [class |-> "frame", type |-> type, bits |-> LengthOf(bits, data),
     body |-> Normalized(type, LengthOf(bits, data), data)]

\* What is seen in a short data message: the message within its addresses, if they
\* are recognised, and the addresses it goes out with.
Content(m) == Unwrap(m.data).payload
Source(m) == LET src == Unwrap(m.data).src IN IF src = NoAddress THEN LittleEndian(CallRoute.src) ELSE src
Dest(m) == LET dst == Unwrap(m.data).dst IN IF dst = NoAddress THEN LittleEndian(CallRoute.dst) ELSE dst

\* onVoiceFrameFromClient: a short data message goes out with addresses, its own
\* or the call's, and with the length it came with.
ForwardFrame(m) ==
    BuildFrame(m.type, m.bits, IF IsSDS(m.type) THEN Source(m) \o Dest(m) \o Content(m) ELSE m.data)

-----------------------------------------------------------------------------
(* Subscribers and services                                                *)

SubscriberHead == <<Field(0, "u32"), Field(4, "u64"), Field(12, "u32")>>
GroupList(n) == [i \in 1..n |-> Field(4 * i - 4, "u32")]

\* The groups are as many as fit.  A message is built with the time it is sent.
ParseSubscriber(p) ==
    LET rest == SubSeq(p.body, Size(SubscriberHead) + 1, Len(p.body))
    IN IF Len(p.body) < Size(SubscriberHead) THEN Refused
       ELSE [class |-> "subscriber", type |-> p.type, number |-> Read(SubscriberHead, p.body)[1],
             groups |-> Read(GroupList(Len(rest) \div 4), rest)]

BuildSubscriber(m, now) ==
    [class |-> "subscriber", type |-> m.type,
     body |-> Write(SubscriberHead, <<m.number>> \o now) \o Write(GroupList(Len(m.groups)), m.groups)]

\* A service message ends at the first zero, which its builder appends.
ParseService(p) == [class |-> "service", type |-> p.type, json |-> BeforeZero(p.body)]
BuildService(m) == [class |-> "service", type |-> m.type, body |-> m.json \o <<0>>]

-----------------------------------------------------------------------------

\* ParseMessage.
Parse(p) ==
    CASE p.class = "subscriber" -> ParseSubscriber(p)
      [] p.class = "call" -> ParseCallControl(p)
      [] p.class = "frame" -> ParseFrame(p)
      [] p.class = "service" -> ParseService(p)
      [] p.class = "error" -> p
      [] OTHER -> Refused

Now == <<<<1, 2, 0, 0>>, <<9, 0>>>>

\* A base station sends a packet, or a program builds one.
Init ==
    /\ hops = 0
    /\ message = NotRead
    /\ \/ packet \in Packet /\ first = NotRead
       \/ /\ first \in Spoken
          /\ packet = IF first.class = "service" THEN BuildService(first) ELSE BuildSubscriber(first, Now)

\* The read loop: a packet that is refused is logged and the next one read.
Receive ==
    /\ message = NotRead
    /\ message' = Parse(packet)
    /\ first' = IF first = NotRead THEN message' ELSE first
    /\ UNCHANGED <<packet, hops>>

\* The server passes calls and frames on to other sessions.
Forward ==
    /\ hops < MaxHops
    /\ message.class \in {"call", "frame"}
    /\ packet' = IF message.class = "call" THEN BuildCallControl(message) ELSE ForwardFrame(message)
    /\ message' = NotRead
    /\ hops' = hops + 1
    /\ UNCHANGED first

Next == Receive \/ Forward
Spec == Init /\ [][Next]_vars

-----------------------------------------------------------------------------
(* Properties                                                              *)

\* Addresses are seen for what they are if there are any and the message starts like
\* a protocol and the source does not.
Recognised(m) ==
    /\ Source(m) # NoAddress \/ Dest(m) # NoAddress
    /\ ~IsProtocol(Source(m)[1])
    /\ IsProtocol(Content(m)[1])

\* Nothing in front of the message is taken for a part of it: the length left no
\* room for addresses, or they were recognised.
Apart(m) == Len(m.data) = PayloadBytes(m.bits) \/ Content(m) # m.data

\* A call, a frame and what a program tells the server are understood by the last
\* receiver as by the first one, however many servers build the packet anew: no
\* string, address, number or length is lost, and no packet that one server
\* accepts is refused by the next.  A short data message is delivered whole by the
\* first hop, and by every hop if its addresses are recognised; the exception is
\* one whose addresses were taken for content, which loses its last eight bytes
\* (protocol.go parseFrame, BuildFrame; service.go onVoiceFrameFromClient).
RelayFaithful ==
    message # NotRead /\ first # Refused =>
        /\ message # Refused
        /\ IF message.class = "frame" /\ IsSDS(message.type)
           THEN Apart(first) =>
                    /\ Recognised(first) => Content(message) = Content(first)
                    /\ hops = 1 => SubSeq(message.data, 9, Len(message.data)) = Content(first)
           ELSE message = first
=============================================================================
