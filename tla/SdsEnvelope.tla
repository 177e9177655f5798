---------------------------- MODULE SdsEnvelope ----------------------------
(***************************************************************************)
(* The addresses in front of a short data message: how the server puts     *)
(* them there and how a receiver tells them from the message itself.       *)
(* Bytes are numbers, a message is a sequence of them.                     *)
(***************************************************************************)
EXTENDS Naturals, Sequences

ProtocolCallout == 195

\* The four bytes of an address, the lowest first (binary.LittleEndian); what is
\* read back is compared in this form.
LittleEndian(n) == <<n % 256, (n \div 256) % 256, (n \div 65536) % 256, (n \div 16777216) % 256>>
NoAddress == LittleEndian(0)

\* isLikelySDSProtocolID.
IsProtocol(byte) == byte \in (1..14) \cup {24, 25} \cup {220, ProtocolCallout} \cup (130..141)

\* buildSDSFramePayload.
Wrap(src, dst, p) == LittleEndian(src) \o LittleEndian(dst) \o p

\* Variant: only the ninth byte is looked at.
UnwrapGuess(data) ==
    LET src == SubSeq(data, 1, 4)
        dst == SubSeq(data, 5, 8)
    IN IF Len(data) >= 9 /\ IsProtocol(data[9])
       THEN [src |-> src, dst |-> dst, payload |-> SubSeq(data, 9, Len(data))]
       ELSE [src |-> NoAddress, dst |-> NoAddress, payload |-> data]

\* parseSDSFrameEnvelope: addresses are taken for a header only if the first byte
\* does not look like a protocol and the ninth does.
Unwrap(data) ==
    LET src == SubSeq(data, 1, 4)
        dst == SubSeq(data, 5, 8)
    IN IF Len(data) >= 9 /\ (src # NoAddress \/ dst # NoAddress) /\ ~IsProtocol(data[1]) /\ IsProtocol(data[9])
       THEN [src |-> src, dst |-> dst, payload |-> SubSeq(data, 9, Len(data))]
       ELSE [src |-> NoAddress, dst |-> NoAddress, payload |-> data]
=============================================================================
