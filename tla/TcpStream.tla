----------------------------- MODULE TcpStream -----------------------------
(***************************************************************************)
(* One proxied stream from its first byte to its end: relay_tcp_stream of  *)
(* server.rs for a QUIC stream of HY2; tcp_server.rs and vless_server.rs   *)
(* for a TCP connection, which is told to be SSH or TLS by its first bytes *)
(* and in the second case carries VLESS; outbound.rs for the connection to *)
(* the destination.                                                        *)
(*                                                                         *)
(* Reading a header has no effect before its last field is read, so a      *)
(* header is read in one step, as soon as the bytes that arrived decide    *)
(* whether it is right.  Bytes are those of Wire; the fields of VLESS keep *)
(* their order and have the widths below.                                  *)
(***************************************************************************)
EXTENDS Wire

CONSTANTS
    Scenarios,    \* [client, ssh, mode, lookup, answer]: a client; whether an
                  \* SSH server is configured; the mode of the outbound; the
                  \* addresses [family, host] that lookup_host returns; what
                  \* the destination sends.  A client is [kind |-> "hy2" or
                  \* "tcp", bytes |-> all it ever sends, asks |-> "tcp", "udp"
                  \* or "nothing" that can be served, payload |-> what it wants
                  \* its destination to get].
    VlessUsers,   \* ids of the configured users
    SshBanner,    \* what an SSH client sends first
    ClientHello,  \* stands for the client's part of the TLS handshake
    COMMAND_TCP, COMMAND_UDP,
    AddressWidth, \* address type |-> width; 0: a length byte precedes it
    Paddings,     \* that random_padding returns
    RELAY_BUFFER_SIZE

Byte == 0 .. MaxByte
Address == [family : {"ipv4", "ipv6"}, host : Nat]

ASSUME StreamAssumption ==
    /\ RELAY_BUFFER_SIZE \in Nat \ {0}
    /\ Paddings # {} /\ Paddings \subseteq Seq(Byte)
    /\ \A padding \in Paddings : Len(padding) <= MAX_PADDING_LENGTH
    /\ {SshBanner, ClientHello} \subseteq Seq(Byte) \ {<<>>} /\ SshBanner[1] # ClientHello[1]
    /\ \A k \in DOMAIN AddressWidth : AddressWidth[k] \in Nat

VARIABLES
    client, ssh, mode, lookup, answer,   \* chosen at the start
    arrived, fin,        \* bytes of the client that arrived; open, fin, reset
    answered, destFin,   \* the same of the destination
    pc, pos,             \* where the server is, and how much it has read
    tried, dest,         \* addresses tried; the one that is connected
    up, upBuf,           \* copy or shut; what was read from the client and
    down, downBuf,       \* not written; the same from the destination
    downPos,
    toDest, toClient,    \* all that was written
    destEnd, clientEnd,  \* how the server ended it: open, fin, cut
    uploaded, downloaded

chosen == <<client, ssh, mode, lookup, answer>>
peers == <<arrived, fin, answered, destFin>>
outbound == <<tried, dest>>
upload == <<up, upBuf, toDest, destEnd, uploaded>>
download == <<down, downBuf, downPos, toClient, clientEnd, downloaded>>
streamVars == <<chosen, peers, pc, pos, outbound, upload, download>>

NoDest == [family |-> "none"]
Over == {"done", "failed"}

----------------------------------------------------------------------------
(* Headers.  A reader gets the bytes that arrived so far and says that it    *)
(* needs more of them, that they are wrong, or what they are.                *)

More == [is |-> "more"]
Wrong == [is |-> "wrong"]
IsUtf8(bytes) == MaxByte \notin ToSet(bytes)

\* A reader goes on where the one before it stopped, if that one has read: a byte,
\* a varint of the allowed ones, or as many bytes as the value read before says.
\* (Each binds what it continues from, so that TLC evaluates it once.)
Start(input, length) == [is |-> "read", value |-> length, rest |-> input]
read_u8(from) ==
    CHOOSE r \in {IF f.is # "read" THEN f
                  ELSE IF f.rest = <<>> THEN More
                  ELSE [is |-> "read", value |-> f.rest[1], rest |-> Dropped(f.rest, 1)]
                  : f \in {from}} : TRUE
read_varint(from, allowed) ==
    CHOOSE r \in {IF f.is # "read" THEN f
                  ELSE LET varint == decode_varint(f.rest) IN
                       IF ~varint.ok THEN More
                       ELSE IF varint.value \notin allowed THEN Wrong
                       ELSE [is |-> "read", value |-> varint.value, rest |-> varint.rest]
                  : f \in {from}} : TRUE
read_exact(from) ==
    CHOOSE r \in {IF f.is # "read" THEN f
                  ELSE IF Len(f.rest) < f.value THEN More
                  ELSE [is |-> "read", value |-> Taken(f.rest, f.value),
                        rest |-> Dropped(f.rest, f.value)]
                  : f \in {from}} : TRUE
\* Mutant of read_tcp_request: the padding stays in the stream.
PaddedReadTcpRequest(input) ==
    LET frame_type     == read_varint(Start(input, 0), {FRAME_TYPE_TCP_REQUEST})
        address        == read_exact(read_varint(frame_type, 1 .. MAX_ADDRESS_LENGTH))
        padding_length == read_varint(address, 0 .. MAX_PADDING_LENGTH)
    IN  IF padding_length.is # "read" THEN padding_length
        ELSE [is |-> "read", rest |-> padding_length.rest, destination |-> address.value]

\* read_tcp_request up to the early payload, with the frame type before it.
read_tcp_request(input) ==
    LET frame_type == read_varint(Start(input, 0), {FRAME_TYPE_TCP_REQUEST})
        address    == read_exact(read_varint(frame_type, 1 .. MAX_ADDRESS_LENGTH))
        padding    == read_exact(read_varint(address, 0 .. MAX_PADDING_LENGTH))
    IN  IF padding.is # "read" THEN padding
        ELSE [is |-> "read", rest |-> padding.rest, destination |-> address.value]

\* Version and user id.
read_prefix(input) ==
    LET prefix == read_exact(Start(input, 2)) IN
    IF prefix.is = "read" /\ (prefix.value[1] # 0 \/ prefix.value[2] \notin VlessUsers)
    THEN Wrong ELSE prefix

\* How long an address of the type just read is: the type or the next byte says so.
read_address_length(from) ==
    CHOOSE r \in {IF f.is # "read" THEN f
                  ELSE IF f.value \notin DOMAIN AddressWidth THEN Wrong
                  ELSE IF AddressWidth[f.value] > 0
                       THEN [is |-> "read", value |-> AddressWidth[f.value], rest |-> f.rest]
                  ELSE LET length == read_u8(f) IN
                       IF length.is = "read" /\ length.value = 0 THEN Wrong ELSE length
                  : f \in {from}} : TRUE
\* Port, address type and address.
read_destination(from) ==
    LET kind    == read_u8(read_u8(from))
        address == read_exact(read_address_length(kind))
    IN  IF address.is = "read" /\ kind.value = 2 /\ ~IsUtf8(address.value)
        THEN Wrong ELSE address
\* Addons length, command and destination.  Addons are read and then refused; the
\* command is looked at once everything is read.
read_vless_header(input) ==
    LET addons      == read_exact(read_u8(Start(input, 0)))
        command     == read_u8(addons)
        destination == read_destination(command)
    IN  IF addons.is = "read" /\ addons.value # <<>> THEN Wrong
        ELSE IF destination.is # "read" THEN destination
        ELSE IF command.value \notin {COMMAND_TCP, COMMAND_UDP} THEN Wrong
        ELSE [is |-> "read", rest |-> destination.rest, command |-> command.value]

\* The whole of what a VLESS client sends before its payload.
VlessRequest(bytes) ==
    LET hello  == read_exact(Start(bytes, Len(ClientHello)))
        prefix == read_prefix(hello.rest)
    IN  IF hello.is # "read" \/ hello.value # ClientHello THEN Wrong
        ELSE IF prefix.is # "read" THEN prefix
        ELSE read_vless_header(prefix.rest)

\* UDP packets in a stream, each behind its length.
Frames(packets) == FlattenSeq([k \in DOMAIN packets |-> <<Len(packets[k])>> \o packets[k]])

\* The packets of a stream: all that it holds whole, up to one of length 0.
Packets(stream, packets) ==
    LET left == Dropped(stream, Len(Frames(packets))) IN
    /\ packets \in Seq(Seq(Byte) \ {<<>>})
    /\ IsPrefix(Frames(packets), stream)
    /\ left = <<>> \/ left[1] = 0 \/ Len(left) <= left[1]

\* asks and payload of a client describe its bytes.
Described(c) ==
    /\ c.bytes \in Seq(Byte) /\ c.kind \in {"hy2", "tcp"}
    /\ c.kind = "hy2" =>
         LET request == TcpRequest_decode(c.bytes) IN
         IF request.ok /\ IsUtf8(request.destination)
         THEN c.asks = "tcp" /\ c.payload = request.payload
         ELSE c.asks = "nothing"
    /\ c.kind = "tcp" =>
         LET request == VlessRequest(c.bytes) IN
         IF request.is # "read" THEN c.asks = "nothing"
         ELSE IF request.command = COMMAND_TCP THEN c.asks = "tcp" /\ c.payload = request.rest
         ELSE c.asks = "udp" /\ Packets(request.rest, c.payload)

ASSUME ScenariosAssumption ==
    \A s \in Scenarios :
        /\ Described(s.client)
        /\ s.ssh \in BOOLEAN
        /\ s.mode \in {"prefer_ipv4", "ipv4_only", "ipv6_only"}
        /\ s.lookup \in Seq(Address)
        /\ s.answer \in Seq(Byte)

----------------------------------------------------------------------------
(* Addresses.                                                               *)

\* The addresses of one family, each once.
Family(addresses, family) ==
    LET target[n \in 0 .. Len(addresses)] ==
          IF n = 0 THEN <<>>
          ELSE LET before == target[n - 1] IN
               IF addresses[n].family = family /\ addresses[n] \notin ToSet(before)
               THEN Append(before, addresses[n]) ELSE before
    IN  target[Len(addresses)]
\* Mutant of order_addresses: the two lists are joined the other way round.
SwappedOrderAddresses(addresses, outboundMode) ==
    CASE outboundMode = "prefer_ipv4" -> Family(addresses, "ipv6") \o Family(addresses, "ipv4")
      [] outboundMode = "ipv4_only"   -> Family(addresses, "ipv4")
      [] outboundMode = "ipv6_only"   -> Family(addresses, "ipv6")

order_addresses(addresses, outboundMode) ==
    CASE outboundMode = "prefer_ipv4" -> Family(addresses, "ipv4") \o Family(addresses, "ipv6")
      [] outboundMode = "ipv4_only"   -> Family(addresses, "ipv4")
      [] outboundMode = "ipv6_only"   -> Family(addresses, "ipv6")

----------------------------------------------------------------------------
StreamInit ==
    /\ \E s \in Scenarios :
         client = s.client /\ ssh = s.ssh /\ mode = s.mode /\ lookup = s.lookup /\ answer = s.answer
    /\ arrived = 0 /\ fin = "open" /\ answered = 0 /\ destFin = "open"
    /\ pc = IF client.kind = "hy2" THEN "request" ELSE IF ssh THEN "sniff" ELSE "tls"
    /\ pos = 0
    /\ tried = <<>> /\ dest = NoDest
    /\ up = "copy" /\ upBuf = <<>> /\ toDest = <<>> /\ destEnd = "open" /\ uploaded = 0
    /\ down = "copy" /\ downBuf = <<>> /\ downPos = 0
    /\ toClient = <<>> /\ clientEnd = "open" /\ downloaded = 0

\* What arrived and was not read.
Unread == SubSeq(client.bytes, pos + 1, arrived)
UnreadAnswer == SubSeq(answer, downPos + 1, answered)

----------------------------------------------------------------------------
(* The peers.                                                               *)

ClientSends ==
    /\ fin = "open" /\ pc \notin Over /\ arrived < Len(client.bytes)
    /\ arrived' \in arrived + 1 .. Len(client.bytes)
    /\ UNCHANGED <<chosen, fin, answered, destFin, pc, pos, outbound, upload, download>>
ClientEnds ==
    /\ fin = "open" /\ pc \notin Over
    /\ \/ fin' = "reset"
       \/ fin' = "fin" /\ arrived = Len(client.bytes)
    /\ UNCHANGED <<chosen, arrived, answered, destFin, pc, pos, outbound, upload, download>>
DestSends ==
    /\ dest # NoDest /\ destFin = "open" /\ pc \notin Over /\ answered < Len(answer)
    /\ answered' \in answered + 1 .. Len(answer)
    /\ UNCHANGED <<chosen, arrived, fin, destFin, pc, pos, outbound, upload, download>>
DestEnds ==
    /\ dest # NoDest /\ destFin = "open" /\ pc \notin Over
    /\ \/ destFin' = "reset"
       \/ destFin' = "fin" /\ answered = Len(answer)
    /\ UNCHANGED <<chosen, arrived, fin, answered, pc, pos, outbound, upload, download>>

----------------------------------------------------------------------------
(* The start of a stream.                                                   *)

\* The handler returns an error and drops what it holds.  quinn finishes a send
\* stream that is dropped, so that an HY2 client sees an orderly end; TLS does
\* not.  A dropped socket ends the destination's side.  Of a buffer that is being
\* written, some part may have gone out.
Fails ==
    /\ pc' = "failed"
    /\ \E k \in 0 .. Len(upBuf) :
         toDest' = toDest \o Taken(upBuf, IF pc \in {"forward", "relay"} THEN k ELSE 0)
    /\ \E k \in 0 .. Len(downBuf) : toClient' = toClient \o Taken(downBuf, k)
    /\ clientEnd' = IF clientEnd # "open" THEN clientEnd
                    ELSE IF client.kind = "hy2" THEN "fin" ELSE "cut"
    /\ destEnd' = IF dest = NoDest THEN "open" ELSE "fin"
    /\ UNCHANGED <<chosen, peers, pos, outbound, up, upBuf, uploaded,
                   down, downBuf, downPos, downloaded>>

\* is_ssh_connection peeks and consumes nothing.  A connection that stays silent,
\* or stops within the banner, is SSH once the time is over.
Seen == Taken(client.bytes, IF arrived < Len(SshBanner) THEN arrived ELSE Len(SshBanner))
NotSsh == Seen # Taken(SshBanner, Len(Seen)) \/ (Seen = <<>> /\ fin = "fin")
Sniff ==
    /\ pc = "sniff"
    /\ pc' = IF NotSsh THEN "tls" ELSE "ssh"
    /\ UNCHANGED <<chosen, peers, pos, outbound, upload, download>>

\* The TLS handshake.
Handshake ==
    /\ pc = "tls"
    /\ Len(Unread) >= Len(ClientHello) /\ Taken(Unread, Len(ClientHello)) = ClientHello
    /\ pc' = "prefix" /\ pos' = Len(ClientHello)
    /\ UNCHANGED <<chosen, peers, outbound, upload, download>>

\* The header that is read at pc, and what it leads to.
Header ==
    CASE pc = "request" -> read_tcp_request(Unread)
      [] pc = "prefix"  -> read_prefix(Unread)
      [] pc = "header"  -> read_vless_header(Unread)
Reads == pc \in {"request", "prefix", "header"}
ReadHeader ==
    /\ Reads
    /\ LET header == Header IN
         /\ header.is = "read"
         /\ pc' = CASE pc = "request" -> "early"
                    [] pc = "prefix"  -> "header"
                    [] pc = "header"  -> IF header.command = COMMAND_TCP THEN "connect" ELSE "bind"
         /\ pos' = arrived - Len(header.rest)
    /\ UNCHANGED <<chosen, peers, outbound, upload, download>>

\* The destination of a request that was read.
Destination == read_tcp_request(client.bytes).destination

\* The header is wrong, or ends early; the handshake fails; the TLS handshake or
\* the user id takes longer than HANDSHAKE_TIMEOUT; the client is gone.
HeaderFails ==
    /\ pc \in {"sniff", "tls", "prefix", "header", "request", "early"}
    /\ \/ fin = "reset"
       \/ pc \in {"tls", "prefix"}
       \/ Reads /\ Header.is \in IF fin = "fin" THEN {"wrong", "more"} ELSE {"wrong"}
    /\ Fails
\* Mutant of ReadEarly: only a piece of payload is waited for.
PatientReadEarly ==
    /\ pc = "early"
    /\ \E n \in 1 .. Len(Unread) : upBuf' = Taken(Unread, n) /\ pos' = pos + n
    /\ pc' = IF IsUtf8(Destination) THEN "connect" ELSE "abort"
    /\ UNCHANGED <<chosen, peers, outbound, up, toDest, destEnd, uploaded, download>>

\* read_tcp_request waits for the first piece of payload, or the end of the
\* stream, before anything is connected or answered.
ReadEarly ==
    /\ pc = "early"
    /\ \/ \E n \in 1 .. Len(Unread) : upBuf' = Taken(Unread, n) /\ pos' = pos + n
       \/ Unread = <<>> /\ fin = "fin" /\ UNCHANGED <<upBuf, pos>>
    /\ pc' = IF IsUtf8(Destination) THEN "connect" ELSE "abort"
    /\ UNCHANGED <<chosen, peers, outbound, up, toDest, destEnd, uploaded, download>>

\* The destination is not UTF-8.
Abort == pc = "abort" /\ Fails

----------------------------------------------------------------------------
(* The outbound connection.                                                 *)

Addresses == order_addresses(lookup, mode)

\* connect_address answers for the next address.
Connect ==
    /\ pc = "connect" /\ Len(tried) < Len(Addresses)
    /\ LET address == Addresses[Len(tried) + 1] IN
         /\ tried' = Append(tried, address)
         /\ \/ dest' = address /\ pc' = "respond"
            \/ UNCHANGED <<dest, pc>>
    /\ UNCHANGED <<chosen, peers, pos, upload, download>>

\* No address is left, or there was none: HY2 answers, VLESS just closes.
ConnectFails ==
    /\ pc = "connect" /\ Len(tried) = Len(Addresses)
    /\ \/ client.kind = "tcp" /\ Fails
       \/ /\ client.kind = "hy2" /\ fin # "reset"
          /\ \E padding \in Paddings :
               toClient' = TcpResponse_encode(1, <<1>>, padding).bytes
          /\ clientEnd' = "fin" /\ pc' = "done"
          /\ UNCHANGED <<chosen, peers, pos, outbound, upload, down, downBuf, downPos, downloaded>>
       \/ client.kind = "hy2" /\ fin = "reset" /\ Fails

\* The SSH server behind this one; it is not an outbound of the configuration.
SshUpstream == [family |-> "ssh"]
ConnectSsh ==
    /\ pc = "ssh"
    /\ \/ /\ dest' = SshUpstream /\ pc' = "relay"
          /\ UNCHANGED <<chosen, peers, pos, tried, upload, download>>
       \/ Fails

\* open_udp; the socket stands for the destination.
UdpDest == [family |-> "udp"]
OpenUdp ==
    /\ pc = "bind"
    /\ \/ /\ dest' = UdpDest /\ pc' = "respond"
          /\ UNCHANGED <<chosen, peers, pos, tried, upload, download>>
       \/ Fails

\* The positive response.
Respond ==
    /\ pc = "respond"
    /\ \/ /\ client.kind = "hy2"
          /\ \E padding \in Paddings :
               toClient' = TcpResponse_encode(0, <<>>, padding).bytes
          /\ pc' = "forward"
       \/ /\ client.kind = "tcp"
          /\ toClient' = <<0, 0>>
          /\ pc' = IF dest = UdpDest THEN "udp" ELSE "relay"
    /\ UNCHANGED <<chosen, peers, pos, outbound, upload, down, downBuf, downPos,
                   clientEnd, downloaded>>

\* The early payload goes to the destination before the copying starts.
Forward ==
    /\ pc = "forward"
    /\ toDest' = upBuf /\ uploaded' = Len(upBuf) /\ upBuf' = <<>>
    /\ pc' = "relay"
    /\ UNCHANGED <<chosen, peers, pos, outbound, up, destEnd, download>>

----------------------------------------------------------------------------
(* The relay: two loops under try_join, each ends its own direction.         *)

Counted == dest.family # "ssh"
Relaying == pc = "relay"

UpRead ==
    /\ Relaying /\ up = "copy" /\ upBuf = <<>>
    /\ \E n \in 1 .. Len(Unread) :
         n <= RELAY_BUFFER_SIZE /\ upBuf' = Taken(Unread, n) /\ pos' = pos + n
    /\ UNCHANGED <<chosen, peers, pc, outbound, up, toDest, destEnd, uploaded, download>>
UpWrite ==
    /\ Relaying /\ upBuf # <<>>
    /\ toDest' = toDest \o upBuf
    /\ uploaded' = uploaded + IF Counted THEN Len(upBuf) ELSE 0
    /\ upBuf' = <<>>
    /\ UNCHANGED <<chosen, peers, pc, pos, outbound, up, destEnd, download>>
UpEof ==
    /\ Relaying /\ up = "copy" /\ upBuf = <<>>
    /\ fin = "fin" /\ Unread = <<>>
    /\ up' = "shut" /\ destEnd' = "fin"
    /\ UNCHANGED <<chosen, peers, pc, pos, outbound, upBuf, toDest, uploaded, download>>

DownRead ==
    /\ Relaying /\ down = "copy" /\ downBuf = <<>>
    /\ \E n \in 1 .. Len(UnreadAnswer) :
         n <= RELAY_BUFFER_SIZE /\ downBuf' = Taken(UnreadAnswer, n) /\ downPos' = downPos + n
    /\ UNCHANGED <<chosen, peers, pc, pos, outbound, upload, down, toClient, clientEnd, downloaded>>
DownWrite ==
    /\ Relaying /\ downBuf # <<>>
    /\ toClient' = toClient \o downBuf
    /\ downloaded' = downloaded + IF Counted THEN Len(downBuf) ELSE 0
    /\ downBuf' = <<>>
    /\ UNCHANGED <<chosen, peers, pc, pos, outbound, upload, down, downPos, clientEnd>>
DownEof ==
    /\ Relaying /\ down = "copy" /\ downBuf = <<>>
    /\ destFin = "fin" /\ UnreadAnswer = <<>>
    /\ down' = "shut" /\ clientEnd' = "fin"
    /\ UNCHANGED <<chosen, peers, pc, pos, outbound, upload, downBuf, downPos, toClient, downloaded>>
\* Mutant of RelayDone: the first direction to end ends the relay.
SelectRelayDone ==
    /\ Relaying /\ "shut" \in {up, down}
    /\ pc' = "done"
    /\ UNCHANGED <<chosen, peers, pos, outbound, upload, download>>

RelayDone ==
    /\ Relaying /\ up = "shut" /\ down = "shut"
    /\ pc' = "done"
    /\ UNCHANGED <<chosen, peers, pos, outbound, upload, download>>

----------------------------------------------------------------------------
(* VLESS UDP: packets behind their length, to and from one destination.      *)

\* A remote host's packet, for a byte of answer.
Packet(byte) == [k \in 1 .. byte |-> byte]

UdpUp ==
    /\ pc = "udp" /\ Unread # <<>>
    /\ Unread[1] > 0 /\ Len(Unread) > Unread[1]
    /\ toDest' = Append(toDest, SubSeq(Unread, 2, Unread[1] + 1))
    /\ uploaded' = uploaded + Unread[1]
    /\ pos' = pos + Unread[1] + 1
    /\ UNCHANGED <<chosen, peers, pc, outbound, up, upBuf, destEnd, download>>
UdpDown ==
    /\ pc = "udp" /\ UnreadAnswer # <<>>
    /\ LET packet == Packet(UnreadAnswer[1]) IN
         /\ toClient' = toClient \o <<Len(packet)>> \o packet
         /\ downloaded' = downloaded + Len(packet)
    /\ downPos' = downPos + 1
    /\ UNCHANGED <<chosen, peers, pc, pos, outbound, upload, down, downBuf, clientEnd>>

----------------------------------------------------------------------------
\* An error on either side ends both directions: a reset, a failing send_to, a
\* packet length of 0.  UDP ends no other way: the client leaves, or no packet
\* comes within udp_timeout.
RelayFails ==
    /\ \/ pc \in {"respond", "relay"} /\ fin = "reset"
       \/ pc \in {"forward", "relay"} /\ destFin = "reset"
       \/ pc = "udp"
    /\ Fails

Server ==
    \/ Sniff \/ Handshake \/ ReadHeader \/ HeaderFails \/ ReadEarly \/ Abort
    \/ Connect \/ ConnectFails \/ ConnectSsh \/ OpenUdp \/ Respond \/ Forward
    \/ UpRead \/ UpWrite \/ UpEof \/ DownRead \/ DownWrite \/ DownEof \/ RelayDone
    \/ UdpUp \/ UdpDown \/ RelayFails
StreamNext ==
    \/ ClientSends \/ ClientEnds \/ DestSends \/ DestEnds
    \/ Server

StreamSpec == StreamInit /\ [][StreamNext]_streamVars

\* Tasks that can run are scheduled and timers fire.  A connect and a write come
\* to an end: the peer answers and reads, or its connection breaks.  Nothing else
\* is assumed of the peers.
FairStreamSpec == StreamSpec /\ WF_streamVars(Server)

----------------------------------------------------------------------------
(* Properties.                                                              *)

StreamTypeOK ==
    /\ \E s \in Scenarios :
         client = s.client /\ ssh = s.ssh /\ mode = s.mode /\ lookup = s.lookup /\ answer = s.answer
    /\ arrived \in 0 .. Len(client.bytes) /\ pos \in 0 .. arrived
    /\ answered \in 0 .. Len(answer) /\ downPos \in 0 .. answered
    /\ fin \in {"open", "fin", "reset"} /\ destFin \in {"open", "fin", "reset"}
    /\ pc \in {"sniff", "ssh", "tls", "prefix", "header", "request", "early", "abort", "connect",
               "bind", "respond", "forward", "relay", "udp", "done", "failed"}
    /\ tried \in Seq(Address) /\ dest \in Address \cup {NoDest, SshUpstream, UdpDest}
    /\ up \in {"copy", "shut"} /\ down \in {"copy", "shut"}
    /\ {upBuf, downBuf, toClient} \subseteq Seq(Byte)
    /\ toDest \in IF dest = UdpDest THEN Seq(Seq(Byte)) ELSE Seq(Byte)
    /\ destEnd \in {"open", "fin"} /\ clientEnd \in {"open", "fin", "cut"}
    /\ uploaded \in Nat /\ downloaded \in Nat

\* What comes out on either side is what went in on the other, nothing lost,
\* added or moved, wherever the pieces were cut: the destination gets the payload
\* behind the header and not a byte of the header, the SSH server the whole
\* stream with the banner that was peeked at, the client its response and then
\* the answer.  A client whose header is wrong reaches no destination, and a
\* request read field by field from a stream is the one that TcpRequest::decode
\* finds in the whole of it.
Responses ==
    IF dest = SshUpstream THEN {<<>>}
    ELSE IF client.kind = "tcp" THEN {<<0, 0>>}
    ELSE {TcpResponse_encode(0, <<>>, padding).bytes : padding \in Paddings}
Framed == Frames([k \in DOMAIN answer |-> Packet(answer[k])])
Faithful ==
    /\ dest # NoDest =>
         /\ IsPrefix(toDest, IF dest = SshUpstream THEN client.bytes ELSE client.payload)
         /\ \E response \in Responses :
              IsPrefix(toClient, response \o (IF dest = UdpDest THEN Framed ELSE answer))
         /\ client.asks = "nothing" => dest = SshUpstream
         /\ client.asks = "udp" => dest \in {UdpDest, SshUpstream}
         /\ client.kind = "hy2" =>
              LET request == TcpRequest_decode(client.bytes) IN
              request.ok /\ request.destination = Destination /\ request.payload = client.payload
    /\ dest = NoDest => toDest = <<>>

\* Either direction may end before the other, and the other still runs to its
\* own end: the destination is told of the client's end after it has got
\* everything, a relay that ends without an error has carried all of both
\* directions, and the traffic of the user counts exactly the bytes that were
\* carried, or at most one buffer less when the relay fails while it writes.
Bytes(delivered) == IF dest = UdpDest THEN Len(FlattenSeq(delivered)) ELSE Len(delivered)
CarriedWhole ==
    /\ destEnd = "fin" /\ pc # "failed" /\ dest # SshUpstream => toDest = client.payload
    /\ pc = "done" /\ dest # NoDest =>
         /\ \E response \in Responses : toClient = response \o answer
         /\ dest # SshUpstream => uploaded = Len(client.payload) /\ downloaded = Len(answer)
    /\ dest.family \notin {"none", "ssh"} =>
         /\ uploaded <= Bytes(toDest)
         /\ Bytes(toDest) <= uploaded + (IF pc = "failed" THEN Len(upBuf) ELSE 0)
    /\ dest = SshUpstream => uploaded = 0 /\ downloaded = 0

\* IPv6 is a fallback of the automatic mode and not a choice of the resolver's
\* order: it is tried once every IPv4 address has failed; an explicit mode never
\* leaves its family; no address is tried twice; and a connection is given up
\* only when every address that the mode allows has failed.
Usable == {a \in ToSet(lookup) : \/ mode = "prefer_ipv4"
                                 \/ mode = "ipv4_only" /\ a.family = "ipv4"
                                 \/ mode = "ipv6_only" /\ a.family = "ipv6"}
Fallback ==
    /\ ToSet(tried) \subseteq Usable
    /\ \A j, k \in DOMAIN tried :
         /\ j # k => tried[j] # tried[k]
         /\ j < k => ~(tried[j].family = "ipv6" /\ tried[k].family = "ipv4")
    /\ \A k \in DOMAIN tried, a \in Usable :
         tried[k].family = "ipv6" /\ a.family = "ipv4" => a \in ToSet(tried)
    /\ pc = "done" /\ dest = NoDest => ToSet(tried) = Usable

\* When the client has ended its side and no destination is left to wait for, the
\* handler ends, whatever it was doing: a stream is not kept by a header that
\* will never be complete, an early payload that will never come, or one half of
\* a relay waiting for the other.
Idle == fin # "open" /\ (dest = NoDest \/ destFin # "open")
StreamReleased == Idle ~> (pc \in Over \/ ~Idle)
=============================================================================
