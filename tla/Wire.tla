-------------------------------- MODULE Wire --------------------------------
(***************************************************************************)
(* What crosses the wire: QUIC variable-length integers (varint.rs), the   *)
(* TCP request and response of HY2 (tcp.rs), its UDP messages and their    *)
(* fragments (udp.rs), and the Salamander obfuscation of whole datagrams   *)
(* (salamander.rs, salamander_socket.rs).  Pure operators: UdpPath and     *)
(* TcpStream use them.                                                     *)
(*                                                                         *)
(* A byte is a digit to the base Base, so that the four widths of a varint,*)
(* the wrap of an id and the 255 fragments are all met by small messages;  *)
(* the code has Base = 256.                                                *)
(***************************************************************************)
EXTENDS Integers, Sequences, SequencesExt

CONSTANTS
    Base,
    FRAME_TYPE_TCP_REQUEST,
    MAX_ADDRESS_LENGTH, MAX_PADDING_LENGTH, MAX_MESSAGE_LENGTH, MAX_UDP_SIZE,
    SessionWidth, PacketWidth,   \* bytes of a session_id and of a packet_id
    SALT_LENGTH

ASSUME WireAssumption ==
    /\ Base \in Nat /\ Base >= 8 /\ Base % 4 = 0
    /\ {FRAME_TYPE_TCP_REQUEST, MAX_PADDING_LENGTH, MAX_UDP_SIZE} \subseteq Nat
    /\ {MAX_ADDRESS_LENGTH, MAX_MESSAGE_LENGTH, SessionWidth, PacketWidth, SALT_LENGTH}
         \subseteq Nat \ {0}

MaxByte == Base - 1

\* The first n bytes of a slice, and the rest of it.
Taken(s, n) == SubSeq(s, 1, n)
Dropped(s, n) == SubSeq(s, n + 1, Len(s))

\* Every decoder returns a record: an error, or ok and what it read.
Error == [ok |-> FALSE]

----------------------------------------------------------------------------
(* Integers.                                                                *)

\* Base to the n.
Power(n) ==
    LET power[i \in 0 .. n] == IF i = 0 THEN 1 ELSE power[i - 1] * Base
    IN  power[n]

to_be_bytes(value, width) == [i \in 1 .. width |-> (value \div Power(width - i)) % Base]
from_be_bytes(bytes) ==
    LET value[n \in 0 .. Len(bytes)] == IF n = 0 THEN 0 ELSE value[n - 1] * Base + bytes[n]
    IN  value[Len(bytes)]

\* The widths of a varint; two bits of its first byte say which.
Widths == <<1, 2, 4, 8>>
Fits(value, width) == 4 * value < Power(width)
varint_size(value) == CHOOSE w \in ToSet(Widths) :
    Fits(value, w) /\ \A v \in ToSet(Widths) : Fits(value, v) => w <= v

encode_varint(value) ==
    LET code  == CHOOSE c \in DOMAIN Widths : Widths[c] = varint_size(value)
        bytes == to_be_bytes(value, Widths[code])
    IN  [bytes EXCEPT ![1] = @ + (code - 1) * (Base \div 4)]

\* The width that a first byte announces.
varint_width(first) == Widths[first \div (Base \div 4) + 1]

decode_varint(input) ==
    IF input = <<>> \/ Len(input) < varint_width(input[1])
    THEN Error
    ELSE LET bytes == Taken(input, varint_width(input[1])) IN
         [ok |-> TRUE, rest |-> Dropped(input, Len(bytes)),
          value |-> from_be_bytes([bytes EXCEPT ![1] = @ % (Base \div 4)])]

\* A length always fits.
ASSUME LengthsFit ==
    \A n \in {MAX_ADDRESS_LENGTH, MAX_PADDING_LENGTH, MAX_MESSAGE_LENGTH} : Fits(n, 8)

----------------------------------------------------------------------------
(* The TCP request and response.                                            *)

write_bytes(bytes) == encode_varint(Len(bytes)) \o bytes

read_limited(input, maximum) ==
    LET length == decode_varint(input) IN
    IF ~length.ok \/ length.value > maximum \/ Len(length.rest) < length.value
    THEN Error
    ELSE [ok |-> TRUE, value |-> Taken(length.rest, length.value),
          rest |-> Dropped(length.rest, length.value)]

TcpRequest_encode(destination, padding, payload) ==
    IF Len(destination) \notin 1 .. MAX_ADDRESS_LENGTH \/ Len(padding) > MAX_PADDING_LENGTH
    THEN Error
    ELSE [ok |-> TRUE, bytes |-> encode_varint(FRAME_TYPE_TCP_REQUEST)
                                   \o write_bytes(destination) \o write_bytes(padding) \o payload]

TcpRequest_decode(input) ==
    LET frame_type == decode_varint(input) IN
    IF ~frame_type.ok \/ frame_type.value # FRAME_TYPE_TCP_REQUEST THEN Error ELSE
    LET address == read_limited(frame_type.rest, MAX_ADDRESS_LENGTH) IN
    IF ~address.ok \/ address.value = <<>> THEN Error ELSE
    LET padding == read_limited(address.rest, MAX_PADDING_LENGTH) IN
    IF ~padding.ok THEN Error
    ELSE [ok |-> TRUE, destination |-> address.value, payload |-> padding.rest]

\* status is 0 for Ok and 1 for Error; the server's responses carry no payload.
TcpResponse_encode(status, message, padding) ==
    IF Len(message) > MAX_MESSAGE_LENGTH \/ Len(padding) > MAX_PADDING_LENGTH
    THEN Error
    ELSE [ok |-> TRUE, bytes |-> <<status>> \o write_bytes(message) \o write_bytes(padding)]

----------------------------------------------------------------------------
(* UDP messages.                                                            *)

HeaderWidth == SessionWidth + PacketWidth + 2

validate_message(destination, payload) ==
    /\ Len(destination) \in 1 .. MAX_ADDRESS_LENGTH
    /\ Len(payload) <= MAX_UDP_SIZE

\* Of a message that is valid.
UdpMessage_encode(m) ==
    to_be_bytes(m.session_id, SessionWidth) \o to_be_bytes(m.packet_id, PacketWidth)
      \o <<m.fragment_id, m.fragment_count>> \o write_bytes(m.destination) \o m.payload

UdpMessage_decode(input) ==
    IF Len(input) < HeaderWidth + 1 THEN Error ELSE
    LET destination == read_limited(Dropped(input, HeaderWidth), MAX_ADDRESS_LENGTH)
        field(from, to) == from_be_bytes(SubSeq(input, from, to))
    IN  IF ~destination.ok \/ destination.value = <<>> \/ Len(destination.rest) > MAX_UDP_SIZE
        THEN Error
        ELSE [ok |-> TRUE,
              session_id |-> field(1, SessionWidth),
              packet_id |-> field(SessionWidth + 1, SessionWidth + PacketWidth),
              fragment_id |-> input[HeaderWidth - 1],
              fragment_count |-> input[HeaderWidth],
              destination |-> destination.value,
              payload |-> destination.rest]

DivCeil(a, b) == (a + b - 1) \div b
chunks(s, size) ==
    [k \in 1 .. DivCeil(Len(s), size) |->
        SubSeq(s, (k - 1) * size + 1, IF k * size < Len(s) THEN k * size ELSE Len(s))]

\* What a datagram of the given size leaves for payload; nothing if <= 0.
payload_per_fragment(destination, maximum_datagram_size) ==
    maximum_datagram_size - (HeaderWidth + varint_size(Len(destination)) + Len(destination))
\* Mutant of encode_fragments: a count of 256 is let through and wraps to 0.
WrappingEncodeFragments(session_id, packet_id, destination, payload, maximum_datagram_size) ==
    LET room   == payload_per_fragment(destination, maximum_datagram_size)
        pieces == IF payload = <<>> THEN <<payload>> ELSE chunks(payload, room)
    IN  IF \/ ~validate_message(destination, payload) \/ room <= 0 \/ Len(pieces) > Base
        THEN Error
        ELSE [ok |-> TRUE, datagrams |->
               [k \in DOMAIN pieces |->
                  UdpMessage_encode(
                    [session_id |-> session_id, packet_id |-> packet_id,
                     fragment_id |-> k - 1, fragment_count |-> Len(pieces) % Base,
                     destination |-> destination, payload |-> pieces[k]])]]

encode_fragments(session_id, packet_id, destination, payload, maximum_datagram_size) ==
    LET room   == payload_per_fragment(destination, maximum_datagram_size)
        pieces == IF payload = <<>> THEN <<payload>> ELSE chunks(payload, room)
    IN  IF \/ ~validate_message(destination, payload) \/ room <= 0 \/ Len(pieces) > MaxByte
        THEN Error
        ELSE [ok |-> TRUE, datagrams |->
               [k \in DOMAIN pieces |->
                  UdpMessage_encode(
                    [session_id |-> session_id, packet_id |-> packet_id,
                     fragment_id |-> k - 1, fragment_count |-> Len(pieces),
                     destination |-> destination, payload |-> pieces[k]])]]

----------------------------------------------------------------------------
(* Salamander.  The key stream is a perfect one: a byte that was masked     *)
(* with one salt at one place is unmasked by that salt at that place only.  *)

SaltBytes(salt) == [k \in 1 .. SALT_LENGTH |-> [salt |-> salt, at |-> k]]

apply_keystream(salt, bytes) == [k \in DOMAIN bytes |-> [mask |-> <<salt, k>>, byte |-> bytes[k]]]
unapply_keystream(saltBytes, bytes) ==
    [k \in DOMAIN bytes |->
        IF \E salt \in {saltBytes[1].salt} : saltBytes = SaltBytes(salt) /\ bytes[k].mask = <<salt, k>>
        THEN bytes[k].byte ELSE bytes[k]]

\* One transmit of quinn: contents cut into segments of segment_size, each of
\* which gets a salt of its own.
encrypt_transmit(contents, segment_size) ==
    LET segments == chunks(contents, segment_size) IN
    [contents |-> FlattenSeq([k \in DOMAIN segments |->
                                 SaltBytes(k) \o apply_keystream(k, segments[k])]),
     segment_size |-> segment_size + SALT_LENGTH]

\* A batch of received buffers, each of segments stride bytes apart (the last
\* may be shorter): a buffer with a segment too short for its salt is left out,
\* the others move up.
decrypt_receive_batch(batch) ==
    LET good(b) == /\ b.stride > SALT_LENGTH
                   /\ \A k \in DOMAIN chunks(b.contents, b.stride) :
                        Len(chunks(b.contents, b.stride)[k]) > SALT_LENGTH
        plain(b) == LET segments == chunks(b.contents, b.stride) IN
            [contents |-> FlattenSeq([k \in DOMAIN segments |->
                 unapply_keystream(Taken(segments[k], SALT_LENGTH),
                                   Dropped(segments[k], SALT_LENGTH))]),
             stride |-> b.stride - SALT_LENGTH]
        kept[n \in 0 .. Len(batch)] ==
            IF n = 0 THEN <<>>
            ELSE IF good(batch[n]) THEN Append(kept[n - 1], plain(batch[n])) ELSE kept[n - 1]
    IN  kept[Len(batch)]
=============================================================================
