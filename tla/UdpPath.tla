------------------------------ MODULE UdpPath ------------------------------
(***************************************************************************)
(* The way back of a UDP packet, from the socket of a session to the       *)
(* client: UdpSessions composed with the codecs of Wire.                   *)
(*                                                                         *)
(* The contents are followed for one session object, Watched; the others   *)
(* run as in UdpSessions, and any of them could be the watched one.  Its   *)
(* task takes maximum_datagram_size from the connection once, when it is   *)
(* spawned, while path MTU discovery goes on; it queues the fragments of a *)
(* packet one by one, and the connection may change or end between two of  *)
(* them.  Every step is a step of UdpSessions or leaves it alone.          *)
(***************************************************************************)
EXTENDS UdpSessions, Wire, TLC

CONSTANTS
    Watched,
    Mtus,      \* what max_datagram_size of the connection may return
    Sources,   \* encoded addresses of remote hosts
    Lengths    \* of the packets that remote hosts send

ASSUME PathAssumption ==
    /\ Watched \in Objs
    /\ Ids \subseteq 0 .. Power(SessionWidth) - 1
    /\ Mtus \subseteq Nat /\ Lengths \subseteq Nat
    /\ Sources \subseteq Seq(0 .. MaxByte)

VARIABLES
    mtu,              \* max_datagram_size of the connection
    maximum_datagram_size,  \* as the task captured it; 0: no task
    next_packet_id,
    packet,           \* being relayed: packet_id, source, length
    sent, rest        \* its fragments, queued on the connection and not yet

path == <<mtu, maximum_datagram_size, next_packet_id, packet, sent, rest>>
allVars == <<vars, path>>

NoPacket == [packet_id |-> 0, source |-> <<>>, length |-> 0]
\* The bytes of a packet, told apart by their place.
Content(length) == [k \in 1 .. length |-> k % Base]

PathInit ==
    /\ Init
    /\ mtu \in Mtus
    /\ maximum_datagram_size = 0 /\ next_packet_id = 0
    /\ packet = NoPacket /\ sent = <<>> /\ rest = <<>>

----------------------------------------------------------------------------
\* Path MTU discovery or a lost probe: the connection takes larger or only
\* smaller datagrams from now on.
MtuChanges ==
    /\ mtu' \in Mtus \ {mtu}
    /\ UNCHANGED <<vars, maximum_datagram_size, next_packet_id, packet, sent, rest>>

\* What is kept of a session whose task starts or ends: nothing.
Started(limit) ==
    /\ maximum_datagram_size' = limit /\ next_packet_id' = 0
    /\ packet' = NoPacket /\ sent' = <<>> /\ rest' = <<>>
    /\ UNCHANGED mtu
\* Mutant of WatchedOpened: the limit is a constant of the server.
FixedWatchedOpened ==
    /\ Opened(Watched)
    /\ Started(CHOOSE m \in Mtus : \A n \in Mtus : n <= m)

\* get_udp_session captures the limit of the moment for the whole session.
WatchedOpened ==
    /\ Opened(Watched)
    /\ Started(mtu)

\* recv_from returns a packet, which takes the next id and is encoded.
WatchedReceives ==
    /\ TaskReceives(Watched)
    /\ \E source \in Sources, length \in Lengths :
         LET encoded == encode_fragments(idOf[Watched], next_packet_id, source,
                                         Content(length), maximum_datagram_size)
         IN  /\ task'[Watched] = IF encoded.ok THEN "relay" ELSE "huge"
             /\ packet' = [packet_id |-> next_packet_id, source |-> source, length |-> length]
             /\ rest' = IF encoded.ok THEN encoded.datagrams ELSE <<>>
    /\ next_packet_id' = (next_packet_id + 1) % Power(PacketWidth)
    /\ sent' = <<>>
    /\ UNCHANGED <<mtu, maximum_datagram_size>>

\* send_datagram takes what the connection carries at this moment.
Sendable == task[Watched] = "relay" /\ loop # "done" /\ Len(Head(rest)) <= mtu

\* One fragment of several is queued.
WatchedQueues ==
    /\ Sendable /\ Len(rest) > 1
    /\ sent' = Append(sent, Head(rest))
    /\ rest' = Tail(rest)
    /\ UNCHANGED <<vars, mtu, maximum_datagram_size, next_packet_id, packet>>

\* The last fragment is queued: the packet is counted and the next one awaited.
WatchedSends ==
    /\ Sendable /\ Len(rest) = 1
    /\ TaskSends(Watched)
    /\ packet' = NoPacket /\ sent' = <<>> /\ rest' = <<>>
    /\ UNCHANGED <<mtu, maximum_datagram_size, next_packet_id>>

\* The packet does not encode and is dropped.
WatchedDiscards ==
    /\ TaskDiscards(Watched)
    /\ packet' = NoPacket
    /\ UNCHANGED <<mtu, maximum_datagram_size, next_packet_id, sent, rest>>
\* Mutant of WatchedEnds: the rest of a packet that fails half way is given up
\* and the task goes on.
StubbornWatchedEnds ==
    /\ task[Watched] \in {"recv", "relay"}
    /\ task' = [task EXCEPT ![Watched] = IF sent # <<>> THEN "recv" ELSE "none"]
    /\ expired' = IF loop = "done" \/ sent # <<>> THEN expired ELSE expired \cup {Watched}
    /\ UNCHANGED <<loop, cur, held, sessions, idOf>>
    /\ Started(maximum_datagram_size)

\* recv_from failed; or send_datagram did: the fragment is too large by now, or
\* the connection is lost, whether or not the loop has noticed.
WatchedEnds ==
    /\ TaskEnds(Watched)
    /\ Started(0)

\* The loop and the other sessions.
Elsewhere ==
    /\ \/ \E i \in Ids : Datagram(i)
       \/ \E o \in Objs : Expire(o)
       \/ Sent \/ LoopEnds
       \/ \E o \in Objs \ {Watched} :
            Opened(o) \/ TaskReceives(o) \/ TaskSends(o) \/ TaskDiscards(o) \/ TaskEnds(o)
    /\ UNCHANGED path

PathNext ==
    \/ MtuChanges
    \/ WatchedOpened \/ WatchedReceives \/ WatchedQueues \/ WatchedSends
    \/ WatchedDiscards \/ WatchedEnds
    \/ Elsewhere

PathSpec == PathInit /\ [][PathNext]_allVars

\* That of UdpSessions; the watched task queues fragment after fragment.
PathFairness ==
    /\ WF_allVars(loop = "send" /\ (Sent \/ LoopEnds) /\ UNCHANGED path)
    /\ WF_allVars(loop = "open" /\ (WatchedOpened \/ Elsewhere) /\ loop' # "open")
    /\ \A o \in Objs : SF_allVars(Expire(o) /\ UNCHANGED path)
    /\ \A o \in Objs \ {Watched} :
         WF_allVars((TaskSends(o) \/ TaskDiscards(o) \/ TaskEnds(o)) /\ UNCHANGED path)
    /\ WF_allVars(WatchedQueues \/ WatchedSends \/ WatchedDiscards \/ WatchedEnds)

FairPathSpec == PathSpec /\ PathFairness

----------------------------------------------------------------------------
(* Properties.                                                              *)

\* With its contents and fragment by fragment, the relay is still the relay of
\* UdpSessions, fairness included: what holds of sessions, tasks and expirations
\* there holds here, although a packet is now many sends.
ImplementsSessions == FairSpec

\* What a client makes of one transmit with the given datagrams, as segments of
\* equal size but for the last, that Salamander masks on this side and unmasks
\* on the other: the messages, in order.
Received(datagrams) ==
    LET masked  == encrypt_transmit(FlattenSeq(datagrams), Len(datagrams[1]))
        batch   == decrypt_receive_batch(
                     <<[contents |-> masked.contents, stride |-> masked.segment_size]>>)
        arrived == chunks(batch[1].contents, batch[1].stride)
    IN  [k \in DOMAIN arrived |-> UdpMessage_decode(arrived[k])]

\* The fragments of a packet, the queued ones followed by the others, are the
\* packet: none exceeds the limit of the session, all carry its session id,
\* packet id and source, they are numbered from 0 below a count that one byte
\* holds, and what they carry, taken through the obfuscation and decoded again,
\* is what the remote host sent.
ReplyWhole ==
    task[Watched] = "relay" =>
        LET all == Received(sent \o rest) IN
        /\ \A k \in DOMAIN rest : Len(rest[k]) <= maximum_datagram_size
        /\ Len(all) \in 1 .. MaxByte
        /\ \A k \in DOMAIN all :
             /\ all[k].ok
             /\ all[k].session_id = idOf[Watched] /\ sessions[all[k].session_id] \in {Watched, None}
             /\ all[k].packet_id = packet.packet_id
             /\ all[k].destination = packet.source
             /\ all[k].fragment_id = k - 1 /\ all[k].fragment_count = Len(all)
        /\ FlattenSeq([k \in DOMAIN all |-> all[k].payload]) = Content(packet.length)

\* A session that cannot send because its captured limit is out of date does not
\* stay so: it ends, and the next session of the id has the limit of its time.
\* Packets are lost to an outdated limit again and again only if the limit of
\* the connection changes again and again.
Outdated == task[Watched] = "relay" /\ loop # "done" /\ Len(Head(rest)) > mtu
LimitRenewed == []<>Outdated => []<><<MtuChanges>>_allVars
=============================================================================
