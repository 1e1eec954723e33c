--------------------------- MODULE UdpReassembler ---------------------------
(***************************************************************************)
(* The fragment table of one HY2 connection (UdpReassembler of             *)
(* protocol/udp.rs) and the client that sends it fragments.                *)
(*                                                                         *)
(* The client (external) sends the fragments of its current message under  *)
(* a key (session id, packet id) in any order, any number of times, or not *)
(* at all.  Packet ids are 16 bits wide, so keys are reused.  Time is kept *)
(* as the age of each entry, the time since its last fragment.             *)
(***************************************************************************)
EXTENDS Integers, FiniteSets

CONSTANTS
    Keys,        \* (session id, packet id) pairs
    Dests,       \* destinations
    MaxCount,    \* bound: fragments of one message (255 in the code)
    MaxPackets,  \* MAX_INCOMPLETE_PACKETS
    Timeout,     \* REASSEMBLY_TIMEOUT in ticks
    Gens         \* tags that tell apart the successive messages of one key

ASSUME ReassemblerAssumption ==
    /\ MaxCount \in Nat \ {0}
    /\ MaxPackets \in Nat \ {0}
    /\ Timeout \in Nat \ {0}

VARIABLES
    present,   \* keys of UdpReassembler.packets
    age,       \* time since PartialPacket.updated_at
    shape,     \* destination and number of fragments of each entry
    got,       \* fragments of each entry, by the tag of the message they are of
    message,   \* the client's current message under each key
    delivered  \* the fragments of the message push returned last

tableVars == <<present, age, shape, got, message, delivered>>

Index  == 0 .. MaxCount - 1
Shapes == [dest : Dests, count : 1 .. MaxCount]

\* A message the client sends: its tag and its shape.
Messages == [gen : Gens, shape : Shapes]

Missing == "missing"
Nothing == [i \in Index |-> Missing]

TableTypeOK ==
    /\ present \in SUBSET Keys
    /\ age \in [Keys -> 0 .. Timeout]
    /\ shape \in [Keys -> Shapes]
    /\ got \in [Keys -> [Index -> Gens \cup {Missing}]]
    /\ message \in [Keys -> Messages]
    /\ delivered \in [Index -> Gens \cup {Missing}]

TableInit ==
    /\ present = {}
    /\ age = [k \in Keys |-> 0]
    /\ message \in [Keys -> Messages]
    /\ shape = [k \in Keys |-> message[k].shape]
    /\ got = [k \in Keys |-> Nothing]
    /\ delivered = Nothing

----------------------------------------------------------------------------
\* Mutant of Kept: an entry is kept for one tick too long.
LateKept == {k \in present : age[k] <= Timeout}

\* The entries retain leaves: updated less than the timeout ago.
Kept == {k \in present : age[k] < Timeout}
\* Mutant of Oldest: nothing is displaced.
NoOldest(k, base) == base = Kept

\* A new key in a full table displaces an entry that was updated longest ago.
Oldest(k, base) ==
    IF k \notin Kept /\ Cardinality(Kept) >= MaxPackets
      THEN \E v \in Kept : /\ \A q \in Kept : age[q] <= age[v]
                           /\ base = Kept \ {v}
      ELSE base = Kept

\* An error ends serve_udp_datagrams and with it the connection; the next
\* connection starts with an empty table.
Fail ==
    /\ present' = {}
    /\ delivered' = Nothing
    /\ UNCHANGED <<age, shape, got, message>>

\* push of a message that is not fragmented.
PushWhole(k) ==
    /\ message[k].shape.count <= 1
    /\ present' = Kept
    /\ delivered' = [Nothing EXCEPT ![0] = message[k].gen]
    /\ UNCHANGED <<age, shape, got, message>>

\* push of a fragment that does not agree with the entry of its key.
PushMismatch(k) ==
    /\ message[k].shape.count > 1
    /\ k \in Kept /\ shape[k] # message[k].shape
    /\ Fail

\* push of a fragment whose number is out of range.
PushOutOfRange == Fail
\* Mutant of WithFragment: the row of a new entry has a slot too many.
LongWithFragment(k, i) ==
    IF k \in Kept THEN [got[k] EXCEPT ![i] = message[k].gen]
                  ELSE [j \in 0 .. MaxCount |-> IF j = i THEN message[k].gen ELSE Missing]

\* The fragments of the entry of k once fragment i of the current message is in.
WithFragment(k, i) ==
    IF k \in Kept THEN [got[k] EXCEPT ![i] = message[k].gen]
                  ELSE [Nothing EXCEPT ![i] = message[k].gen]

Complete(k, fragments) ==
    \A j \in Index : j < message[k].shape.count => fragments[j] # Missing

\* push of fragment i, the entry being new or of the same shape.  The payloads
\* put together may exceed MAX_UDP_SIZE.
PushFragment(k, i) ==
    /\ message[k].shape.count > 1 /\ i < message[k].shape.count
    /\ k \in Kept => shape[k] = message[k].shape
    /\ \/ /\ ~Complete(k, WithFragment(k, i))
          /\ \E base \in SUBSET Kept :
               /\ Oldest(k, base)
               /\ present' = base \cup {k}
          /\ age' = [age EXCEPT ![k] = 0]
          /\ shape' = [shape EXCEPT ![k] = message[k].shape]
          /\ got' = [got EXCEPT ![k] = WithFragment(k, i)]
          /\ delivered' = Nothing
          /\ UNCHANGED message
       \/ /\ Complete(k, WithFragment(k, i))
          /\ \E base \in SUBSET Kept :
               /\ Oldest(k, base)
               /\ present' = base \ {k}
          /\ delivered' = WithFragment(k, i)
          /\ UNCHANGED <<age, shape, got, message>>
       \/ /\ Complete(k, WithFragment(k, i))
          /\ Fail

----------------------------------------------------------------------------
(* The client and time.                                                     *)

\* The client moves on to another message under the same key (packet ids wrap,
\* sessions restart).  Assumed of it: while the server can still hold an
\* unexpired entry of the same shape under this key, the key is not reused.
NewMessage(k, m) ==
    /\ k \in present /\ age[k] < Timeout => shape[k] # m.shape
    /\ m.gen # message[k].gen
    /\ message' = [message EXCEPT ![k] = m]
    /\ UNCHANGED <<present, age, shape, got, delivered>>

Tick ==
    /\ \E k \in present : age[k] < Timeout
    /\ age' = [k \in Keys |-> IF k \in present /\ age[k] < Timeout
                                THEN age[k] + 1 ELSE age[k]]
    /\ UNCHANGED <<present, shape, got, message, delivered>>

TableNext ==
    \/ \E k \in Keys : PushWhole(k) \/ PushMismatch(k)
    \/ PushOutOfRange
    \/ \E k \in Keys, i \in Index : PushFragment(k, i)
    \/ \E k \in Keys, m \in Messages : NewMessage(k, m)
    \/ Tick

TableSpec == TableInit /\ [][TableNext]_tableVars

----------------------------------------------------------------------------
(* Properties.                                                              *)

\* MAX_INCOMPLETE_PACKETS: a client that only ever sends first fragments cannot
\* make the table grow beyond its limit.
TableBounded == Cardinality(present) <= MaxPackets

\* A message that push returns is made of the fragments of one message: neither
\* loss, duplication, reordering and eviction, nor the reuse of a packet id
\* after the timeout, mixes two messages of one key.
NoMixedMessage ==
    \A i, j \in Index :
        delivered[i] # Missing /\ delivered[j] # Missing => delivered[i] = delivered[j]

\* The inductive form of NoMixedMessage: the fragments of an entry are of one
\* message, the client's current one if an unexpired entry has its shape.
EntriesPure ==
    \A k \in present : \A i \in Index : got[k][i] # Missing =>
        /\ \A j \in Index : got[k][j] \in {Missing, got[k][i]}
        /\ age[k] < Timeout /\ shape[k] = message[k].shape => got[k][i] = message[k].gen
=============================================================================
