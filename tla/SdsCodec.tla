------------------------------ MODULE SdsCodec ------------------------------
(***************************************************************************)
(* The bytes of call-outs, in their two layouts, within the frame that     *)
(* wraps a short data message in its addresses (SdsEnvelope).  A message   *)
(* is a sequence of bytes; one is built, put on the wire and parsed.       *)
(* Input is the set of messages to build.                                  *)
(***************************************************************************)
EXTENDS SdsEnvelope

CONSTANT Input  \* records of the fields below, flags as 0 or 1, text as bytes

\* What the builder's masks leave of the fields, and a text of any length.
Flag == 0..1
Callouts ==
    [type : 0..15, report : 0..3, storage : Flag, ref : 0..255, v2 : Flag, scheme : 0..127,
     function : 0..15, number : 0..255, severity : 0..15, group : 0..3, stamp : Flag,
     receipt : Flag, status : Flag, end : Flag, noPtt : Flag, text : Seq(0..255)]

\* "destination must be > 0".
CodecConstants ==
    \A i \in Input : i \in [src : Nat, dst : Nat, m : Callouts] /\ LittleEndian(i.dst) # NoAddress

VARIABLES input,   \* what is to be sent
          frame,   \* the bytes on the wire
          output   \* what the receiver makes of it

vars == <<input, frame, output>>

-----------------------------------------------------------------------------
(* Bytes                                                                   *)

Bits(byte, low, count) == (byte \div 2^low) % 2^count

\* looksLikeCalloutText.
LooksLikeText(s) ==
    \E i, j \in 1..8 : i < j /\ j <= Len(s) /\ s[i] \in 32..126 /\ s[j] \in 32..126

-----------------------------------------------------------------------------
(* Call-outs                                                               *)

\* The number's octet in the new layout: with its upper half lost, and whole.
NumberOctetNarrow(m) == m.number % 16
NumberOctet(m) == m.number

\* buildCalloutPayload; ref is nextSDSMessageRef's.
BuildCallout(m) ==
    LET control == 128 * m.status + 64 * m.end + 32 * m.noPtt
        levels == 64 * (m.group % 4) + 32 * m.stamp + 16 * m.receipt + (m.severity % 16)
        head == <<ProtocolCallout, 16 * (m.type % 16) + 4 * (m.report % 4) + m.storage, m.ref>>
    IN IF m.v2 = 1
       THEN head \o <<128 + m.scheme, 16 * (m.function % 16), NumberOctet(m), levels, control>> \o m.text
       ELSE head \o <<m.scheme, 16 * (m.function % 16) + (m.number % 16), levels, control>> \o m.text

\* parseCalloutPayload: what it accepts, and what it reads.  In the old layout
\* the control byte may be missing, which shows in text where it should be.
IsCallout(p) == Len(p) >= 6 /\ p[1] = ProtocolCallout
ParseCallout(p) ==
    LET v2 == Len(p) >= 8 /\ p[4] >= 128
        short == ~v2 /\ (Len(p) < 7 \/ (Bits(p[7], 0, 5) # 0 /\ LooksLikeText(SubSeq(p, 7, Len(p)))))
        levels == IF v2 THEN p[7] ELSE p[6]
        control == IF v2 THEN p[8] ELSE IF short THEN 0 ELSE p[7]
        start == IF v2 THEN 9 ELSE IF short THEN 7 ELSE 8
    IN [type |-> Bits(p[2], 4, 4), report |-> Bits(p[2], 2, 2), storage |-> Bits(p[2], 0, 1),
        ref |-> p[3], v2 |-> Bits(p[4], 7, 1), scheme |-> Bits(p[4], 0, 7),
        function |-> Bits(p[5], 4, 4), number |-> IF v2 THEN p[6] ELSE Bits(p[5], 0, 4),
        severity |-> Bits(levels, 0, 4), group |-> Bits(levels, 6, 2),
        stamp |-> Bits(levels, 5, 1), receipt |-> Bits(levels, 4, 1),
        status |-> Bits(control, 7, 1), end |-> Bits(control, 6, 1), noPtt |-> Bits(control, 5, 1),
        text |-> SubSeq(p, start, Len(p))]

-----------------------------------------------------------------------------

Nothing == [src |-> NoAddress, dst |-> NoAddress, payload |-> <<>>]

Init == input \in Input /\ frame = <<>> /\ output = Nothing

\* The message goes out wrapped, as the server sends it, or bare, as some base
\* stations do.
Send(wrapped) ==
    /\ frame = <<>>
    /\ frame' = IF wrapped THEN Wrap(input.src, input.dst, BuildCallout(input.m))
               ELSE BuildCallout(input.m)
    /\ UNCHANGED <<input, output>>

Receive ==
    /\ frame # <<>> /\ output = Nothing
    /\ output' = Unwrap(frame)
    /\ UNCHANGED <<input, frame>>

Next == (\E wrapped \in BOOLEAN : Send(wrapped)) \/ Receive
Spec == Init /\ [][Next]_vars

-----------------------------------------------------------------------------
(* Properties                                                              *)

Bare == frame = BuildCallout(input.m)
Message == [input.m EXCEPT !.number = IF input.m.v2 = 1 THEN @ ELSE @ % 16]

\* A call-out arrives with every field and its text as it was sent, in both
\* layouts; of the number the old one carries the lower four bits.
CalloutArrives ==
    output # Nothing =>
        \/ IsCallout(output.payload) /\ ParseCallout(output.payload) = Message
        \/ ~Bare /\ IsProtocol(input.src % 256)

\* A message without addresses is never taken for one with addresses, and a
\* wrapped one keeps its addresses unless the lowest byte of its source looks
\* like a protocol: then it is not recognised as wrapped.
AddressesArrive ==
    output # Nothing =>
        /\ Bare => output.src = NoAddress /\ output.dst = NoAddress
        /\ ~Bare => \/ output.src = LittleEndian(input.src) /\ output.dst = LittleEndian(input.dst)
                    \/ output.payload = frame /\ IsProtocol(input.src % 256)

\* Both.
SdsArrives == CalloutArrives /\ AddressesArrive
=============================================================================
