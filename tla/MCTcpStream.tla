---------------------------- MODULE MCTcpStream ----------------------------
(* A small instance of TcpStream for TLC. *)
EXTENDS TcpStream

Banner == <<3, 4>>
Hello == <<6>>
Widths4And6 == <<1, 0, 2>>

Request(bytes, asks, payload) ==
    [kind |-> "hy2", bytes |-> bytes, asks |-> asks, payload |-> payload]
Tcp(bytes, asks, payload) ==
    [kind |-> "tcp", bytes |-> bytes, asks |-> asks, payload |-> payload]
Vless(header, payload) == Tcp(Hello \o <<0, 5>> \o header \o payload, "tcp", payload)
Wrongly(bytes) == Tcp(Hello \o bytes, "nothing", <<>>)

\* HY2: with and without early payload and padding; another frame type, no
\* address, an address and a padding that are too long, an address that is not
\* UTF-8, a stream that ends within the header.
Hy2Clients ==
    {Request(TcpRequest_encode(<<1>>, <<0>>, <<3, 4, 5>>).bytes, "tcp", <<3, 4, 5>>),
     Request(TcpRequest_encode(<<1, 2>>, <<>>, <<>>).bytes, "tcp", <<>>)}
    \cup {Request(bytes, "nothing", <<>>) : bytes \in
            {encode_varint(8) \o <<1, 1, 0>>,
             encode_varint(9) \o <<0, 0, 1>>,
             encode_varint(9) \o <<1>> \o encode_varint(3) \o <<1, 2, 3, 1>>,
             encode_varint(9) \o encode_varint(3) \o <<1, 2, 3, 0, 1>>,
             TcpRequest_encode(<<7>>, <<>>, <<1>>).bytes,
             encode_varint(9) \o <<1>>}}
\* TCP: VLESS to an IPv4, an IPv6 and a domain address and over UDP; another
\* version, an unknown user, addons, an unknown command, an unknown address type,
\* an empty domain; SSH; a few bytes that could become SSH; silence.
TcpClients ==
    {Vless(<<0, 1, 2, 1, 4>>, <<1, 2>>),
     Vless(<<0, 1, 2, 3, 4, 4>>, <<>>),
     Vless(<<0, 1, 2, 2, 1, 4>>, <<1>>),
     Tcp(Hello \o <<0, 5, 0, 2, 2, 1, 4, 2, 3, 3, 1, 7>>, "udp", <<<<3, 3>>, <<7>>>>),
     Tcp(Hello \o <<0, 5, 0, 2, 2, 1, 4, 0>>, "udp", <<>>)}
    \cup {Wrongly(bytes) : bytes \in
            {<<1, 5, 0>>, <<0, 4, 0>>, <<0, 5, 2, 1, 1>>, <<0, 5, 0, 3, 2, 1, 4>>,
             <<0, 5, 0, 1, 2, 4, 1>>, <<0, 5, 0, 1, 2, 2, 0>>, <<0, 5, 0, 1, 2, 2, 1, 7>>}}
    \cup {Tcp(bytes, "nothing", <<>>) : bytes \in {Banner \o <<1, 2>>, <<3>>, <<>>}}

V4(host) == [family |-> "ipv4", host |-> host]
V6(host) == [family |-> "ipv6", host |-> host]
Resolved == <<V6(1), V4(1), V6(1), V4(2)>>
Scenario(c, s, m, l, a) ==
    [client |-> c, ssh |-> s, mode |-> m, lookup |-> l, answer |-> a]

\* Every client, with and without an SSH server; a few against every outbound.
Early == Request(TcpRequest_encode(<<1>>, <<0>>, <<3>>).bytes, "tcp", <<3>>)
AllScenarios ==
    {Scenario(c, FALSE, "prefer_ipv4", <<V4(1)>>, <<2, 0>>) : c \in Hy2Clients}
    \cup {Scenario(c, s, "prefer_ipv4", <<V4(1)>>, <<2, 0>>) : c \in TcpClients, s \in BOOLEAN}
    \cup {Scenario(c, FALSE, m, l, <<>>) :
            c \in {Early, Vless(<<0, 1, 2, 1, 4>>, <<>>)},
            m \in {"prefer_ipv4", "ipv4_only", "ipv6_only"},
            l \in {<<>>, <<V6(1)>>, Resolved}}
Padded == {<<1, 1>>}
=============================================================================
