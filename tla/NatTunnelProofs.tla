-------------------------- MODULE NatTunnelProofs --------------------------
(***************************************************************************)
(* Proofs about NatTunnel for every number of tunnels, public connections, *)
(* workers, every pool capacity and every bound on attempts.               *)
(***************************************************************************)
EXTENDS NatTunnel, FiniteSetTheorems, SequenceTheorems, TLAPS

(***************************************************************************)
(* Type correctness.                                                       *)
(***************************************************************************)

\* Writing, reading and discarding keep a wire a sequence of bytes of its kind.
LEMMA WireOperations ==
    ASSUME NEW Byte, NEW wire \in [Tunnels -> Seq(Byte)], NEW other,
           NEW t \in Tunnels
    PROVE  /\ \A b \in Byte : Carried(wire, other, t, b) \in [Tunnels -> Seq(Byte)]
           /\ [wire EXCEPT ![t] = <<>>] \in [Tunnels -> Seq(Byte)]
           /\ wire[t] # <<>> => [wire EXCEPT ![t] = Tail(@)] \in [Tunnels -> Seq(Byte)]
  <1>1. ASSUME NEW b \in Byte PROVE Carried(wire, other, t, b) \in [Tunnels -> Seq(Byte)]
    BY DEF Carried
  <1>2. [wire EXCEPT ![t] = <<>>] \in [Tunnels -> Seq(Byte)]
    OBVIOUS
  <1>3. ASSUME wire[t] # <<>>
        PROVE  [wire EXCEPT ![t] = Tail(@)] \in [Tunnels -> Seq(Byte)]
    BY <1>3
  <1> QED BY <1>1, <1>2, <1>3

\* The same for the two wires of a tunnel, byte by byte.
LEMMA ToClientOperations ==
    ASSUME toClient \in ToClientWires, NEW t \in Tunnels
    PROVE  /\ \A b \in Control \cup {"DATA"} :
                Carried(toClient, cl, t, b) \in ToClientWires
           /\ [toClient EXCEPT ![t] = <<>>] \in ToClientWires
           /\ toClient[t] # <<>> => [toClient EXCEPT ![t] = Tail(@)] \in ToClientWires
  BY WireOperations DEF ToClientWires

\* The same operations keep the type of the wires to the gateway.
LEMMA ToGatewayOperations ==
    ASSUME toGateway \in ToGatewayWires, NEW t \in Tunnels
    PROVE  /\ \A b \in Reply \cup {"DATA"} :
                Carried(toGateway, gw, t, b) \in ToGatewayWires
           /\ [toGateway EXCEPT ![t] = <<>>] \in ToGatewayWires
           /\ toGateway[t] # <<>> => [toGateway EXCEPT ![t] = Tail(@)] \in ToGatewayWires
  BY WireOperations DEF ToGatewayWires

\* Initially every variable has its type.
LEMMA InitType == Init => TypeOK
  <1> SUFFICES ASSUME Init PROVE TypeOK
    OBVIOUS
  <1>1. toClient \in ToClientWires /\ toGateway \in ToGatewayWires /\ ahead \in Orders
    BY DEF Init, ToClientWires, ToGatewayWires, Orders
  <1> QED
    BY <1>1, ConstantsAssumption
    DEF ConstantsAssumption, Init, TypeOK, GatewayStates, ClientStates, PublicStates

\* No step of the client, the gateway or a public connection leaves the types.
LEMMA NextType == TypeOK /\ [Next]_vars => TypeOK'
  <1> SUFFICES ASSUME TypeOK, [Next]_vars PROVE TypeOK'
    OBVIOUS
  <1> USE ConstantsAssumption DEF ConstantsAssumption, TypeOK, GatewayStates, ClientStates,
          PublicStates, gatewayVars, wireVars, poolVars, publicVars
  <1>1. ASSUME NEW t \in Tunnels, ClientNext(t) PROVE TypeOK'
    <2>0. /\ \A b \in Reply \cup {"DATA"} : Carried(toGateway, gw, t, b) \in ToGatewayWires
          /\ [toClient EXCEPT ![t] = <<>>] \in ToClientWires
          /\ [toGateway EXCEPT ![t] = <<>>] \in ToGatewayWires
          /\ toClient[t] # <<>> => [toClient EXCEPT ![t] = Tail(@)] \in ToClientWires
      BY ToClientOperations, ToGatewayOperations
    <2>1. CASE Connect(t)
      <3>1. toClient' \in ToClientWires
        BY <2>1 DEF Connect, ToClientWires, Control
      <3>2. toGateway' \in ToGatewayWires
        BY <2>0, <2>1 DEF Connect
      <3> QED BY <2>1, <3>1, <3>2 DEF Connect
    <2>2. CASE ClientAnswers(t)
      <3>1. toClient' \in ToClientWires /\ toGateway' \in ToGatewayWires
        BY <2>0, <2>2 DEF ClientAnswers, Reply
      <3> QED BY <2>2, <3>1 DEF ClientAnswers
    <2>3. CASE ClientAdmitted(t)
      <3>1. toClient' \in ToClientWires /\ toGateway' \in ToGatewayWires
        BY <2>0, <2>3 DEF ClientAdmitted, ClientCloses
      <3>2. cl' \in [Tunnels -> ClientStates]
        BY <2>3 DEF ClientAdmitted, ClientCloses
      <3> QED BY <2>3, <3>1, <3>2 DEF ClientAdmitted
    <2>4. CASE ClientCommand(t)
      <3>1. toClient' \in ToClientWires
        BY <2>0, <2>4 DEF ClientCommand, ClientCloses
      <3>2. toGateway' \in ToGatewayWires
        BY <2>0, <2>4 DEF ClientCommand, Reply
      <3>3. cl' \in [Tunnels -> ClientStates]
        BY <2>4 DEF ClientCommand, ClientCloses
      <3> QED BY <2>4, <3>1, <3>2, <3>3 DEF ClientCommand
    <2>5. CASE ClientReady(t)
      <3>1. toClient' \in ToClientWires /\ toGateway' \in ToGatewayWires
        BY <2>0, <2>5 DEF ClientReady, Reply
      <3> QED BY <2>5, <3>1 DEF ClientReady
    <2>6. CASE ClientEnds(t)
      <3>1. toClient' \in ToClientWires /\ toGateway' \in ToGatewayWires
        BY <2>0, <2>6 DEF ClientEnds, ClientCloses
      <3> QED BY <2>6, <3>1 DEF ClientEnds, ClientCloses
    <2>7. CASE ClientWrites(t)
      <3>1. toClient' \in ToClientWires /\ toGateway' \in ToGatewayWires
        BY <2>0, <2>7 DEF ClientWrites
      <3> QED BY <2>7, <3>1 DEF ClientWrites
    <2>8. CASE ClientReads(t)
      <3>1. toClient' \in ToClientWires /\ toGateway' \in ToGatewayWires
        BY <2>0, <2>8 DEF ClientReads
      <3> QED BY <2>8, <3>1 DEF ClientReads
    <2> QED BY <1>1, <2>1, <2>2, <2>3, <2>4, <2>5, <2>6, <2>7, <2>8 DEF ClientNext
  <1>2. ASSUME NEW t \in Tunnels, GatewayNext(t) PROVE TypeOK'
    <2>0. /\ \A b \in Control \cup {"DATA"} : Carried(toClient, cl, t, b) \in ToClientWires
          /\ [toGateway EXCEPT ![t] = <<>>] \in ToGatewayWires
          /\ toGateway[t] # <<>> => [toGateway EXCEPT ![t] = Tail(@)] \in ToGatewayWires
      BY ToClientOperations, ToGatewayOperations
    <2>1. CASE GatewayAuthenticates(t)
      <3>1. toClient' \in ToClientWires
        BY <2>0, <2>1 DEF GatewayAuthenticates, Control
      <3>2. toGateway' \in ToGatewayWires
        BY <2>0, <2>1 DEF GatewayAuthenticates, GatewayCloses
      <3>3. gw' \in [Tunnels -> GatewayStates]
        <4>1. \/ gw' = [gw EXCEPT ![t] = "admit"]
              \/ gw' = [gw EXCEPT ![t] = "closed"]
          BY <2>1 DEF GatewayAuthenticates, GatewayCloses
        <4> QED BY <4>1
      <3> QED BY <2>1, <3>1, <3>2, <3>3 DEF GatewayAuthenticates
    <2>2. CASE GatewayAuthFails(t)
      <3>1. toClient' \in ToClientWires /\ toGateway' \in ToGatewayWires
        BY <2>0, <2>2 DEF GatewayAuthFails, GatewayCloses
      <3> QED BY <2>2, <3>1 DEF GatewayAuthFails, GatewayCloses
    <2>3. CASE Register(t)
      <3>1. [u \in Tunnels |-> IF u = t THEN Retained ELSE ahead[u] \ {t}] \in Orders
        BY DEF Orders, Retained
      <3>2. ahead' \in Orders
        BY <2>3, <3>1 DEF Register
      <3>3. idle' \in SUBSET Tunnels /\ live' \in SUBSET Tunnels
        BY <2>3 DEF Register, Retained
      <3>4. toClient' \in ToClientWires /\ toGateway' \in ToGatewayWires
        BY <2>0, <2>3 DEF Register, GatewayCloses
      <3>5. gw' \in [Tunnels -> GatewayStates]
        BY <2>3 DEF Register, GatewayCloses
      <3> QED BY <2>3, <3>1, <3>2, <3>3, <3>4, <3>5 DEF Register
    <2>4. CASE Announce(t)
      <3> QED BY <2>4 DEF Announce, NotifyOne
    <2>5. CASE Heartbeat(t)
      <3>1. toClient' \in ToClientWires /\ toGateway' \in ToGatewayWires
        BY <2>0, <2>5 DEF Heartbeat, Control
      <3> QED BY <2>5, <3>1 DEF Heartbeat
    <2>6. CASE HeartbeatReply(t)
      <3>1. toClient' \in ToClientWires /\ toGateway' \in ToGatewayWires
        BY <2>0, <2>6 DEF HeartbeatReply, ManagerBreaks, DropAssignment, GatewayCloses
      <3>2. gw' \in [Tunnels -> GatewayStates] /\ live' \in SUBSET Tunnels
        BY <2>6 DEF HeartbeatReply, ManagerBreaks, DropAssignment, GatewayCloses
      <3>3. /\ queue' \in [Tunnels -> Publics \cup {None}]
            /\ serving' \in [Tunnels -> Publics \cup {None}]
        BY <2>6 DEF HeartbeatReply, ManagerBreaks
      <3>4. resp' \in [Publics -> {"none", "ok", "err"}]
        BY <2>6 DEF HeartbeatReply, ManagerBreaks, DropAssignment
      <3> QED BY <2>6, <3>1, <3>2, <3>3, <3>4 DEF HeartbeatReply
    <2>7. CASE HeartbeatFails(t)
      <3>1. toClient' \in ToClientWires /\ toGateway' \in ToGatewayWires
        BY <2>0, <2>7 DEF HeartbeatFails, ManagerBreaks, DropAssignment, GatewayCloses
      <3> QED BY <2>7, <3>1 DEF HeartbeatFails, ManagerBreaks, DropAssignment, GatewayCloses
    <2>8. CASE Activate(t)
      <3>1. toClient' \in ToClientWires /\ toGateway' \in ToGatewayWires
        BY <2>0, <2>8 DEF Activate, Control
      <3> QED BY <2>8, <3>1 DEF Activate
    <2>9. CASE ActivationReply(t)
      <3>1. toClient' \in ToClientWires /\ toGateway' \in ToGatewayWires
        BY <2>0, <2>9 DEF ActivationReply, ActivationOk, ActivationErr, DropAssignment, GatewayCloses
      <3>2. gw' \in [Tunnels -> GatewayStates] /\ live' \in SUBSET Tunnels
        BY <2>9 DEF ActivationReply, ActivationOk, ActivationErr, DropAssignment, GatewayCloses
      <3>3. /\ queue' \in [Tunnels -> Publics \cup {None}]
            /\ serving' \in [Tunnels -> Publics \cup {None}]
        BY <2>9 DEF ActivationReply, ActivationOk, ActivationErr
      <3>4. resp' \in [Publics -> {"none", "ok", "err"}]
        BY <2>9 DEF ActivationReply, ActivationOk, ActivationErr, DropAssignment
      <3> QED BY <2>9, <3>1, <3>2, <3>3, <3>4 DEF ActivationReply, ActivationOk, ActivationErr
    <2>10. CASE ActivationFails(t)
      <3>1. toClient' \in ToClientWires /\ toGateway' \in ToGatewayWires
        BY <2>0, <2>10 DEF ActivationFails, ActivationErr, DropAssignment, GatewayCloses
      <3> QED BY <2>10, <3>1 DEF ActivationFails, ActivationErr, DropAssignment, GatewayCloses
    <2> QED BY <1>2, <2>1, <2>2, <2>3, <2>4, <2>5, <2>6, <2>7, <2>8, <2>9, <2>10
            DEF GatewayNext
  <1>3. ASSUME NEW p \in Publics, PublicNext(p) PROVE TypeOK'
    <2>0. ASSUME NEW t \in Tunnels
          PROVE  /\ Carried(toClient, cl, t, "DATA") \in ToClientWires
                 /\ [toGateway EXCEPT ![t] = <<>>] \in ToGatewayWires
                 /\ toGateway[t] # <<>> => [toGateway EXCEPT ![t] = Tail(@)] \in ToGatewayWires
      BY ToClientOperations, ToGatewayOperations
    <2>1. CASE Accept(p)
      <3> QED BY <2>1 DEF Accept
    <2>2. CASE Acquire(p)
      <3> QED BY <2>2 DEF Acquire, Retained
    <2>3. CASE Park(p)
      <3> QED BY <2>3 DEF Park
    <2>4. CASE AcquireTimeout(p)
      <3> QED BY <2>4 DEF AcquireTimeout, PublicCloses
    <2>5. CASE Assign(p)
      <3> QED BY <2>5 DEF Assign, Retry, PublicCloses
    <2>6. CASE ResponseOk(p)
      <3> QED BY <2>6 DEF ResponseOk
    <2>7. CASE ResponseErr(p)
      <3> QED BY <2>7 DEF ResponseErr, Retry, PublicCloses
    <2>8. CASE ResponseTimeout(p)
      <3>0. wants[p] \in Tunnels
        BY <2>8 DEF ResponseTimeout
      <3>1. toClient' \in ToClientWires /\ toGateway' \in ToGatewayWires
        <4>1. \/ toGateway' = toGateway
              \/ toGateway' = [toGateway EXCEPT ![wants[p]] = <<>>]
          BY <2>8 DEF ResponseTimeout, GatewayCloses
        <4>2. [toGateway EXCEPT ![wants[p]] = <<>>] \in ToGatewayWires
          BY <2>0, <3>0
        <4> QED BY <2>8, <4>1, <4>2 DEF ResponseTimeout
      <3>2. gw' \in [Tunnels -> GatewayStates]
        BY <2>8 DEF ResponseTimeout, GatewayCloses
      <3> QED BY <2>8, <3>1, <3>2 DEF ResponseTimeout, Retry, PublicCloses
    <2>9. CASE RelayEnds(p)
      <3>1. toClient' \in ToClientWires /\ toGateway' \in ToGatewayWires
        BY <2>0, <2>9 DEF RelayEnds, GatewayCloses
      <3>2. gw' \in [Tunnels -> GatewayStates]
        BY <2>9 DEF RelayEnds, GatewayCloses
      <3> QED BY <2>9, <3>1, <3>2 DEF RelayEnds, PublicCloses
    <2>10. CASE PublicWrites(p)
      <3>1. toClient' \in ToClientWires /\ toGateway' \in ToGatewayWires
        BY <2>0, <2>10 DEF PublicWrites
      <3> QED BY <2>10, <3>1 DEF PublicWrites
    <2>11. CASE PublicReads(p)
      <3>1. toClient' \in ToClientWires /\ toGateway' \in ToGatewayWires
        BY <2>0, <2>11 DEF PublicReads
      <3> QED BY <2>11, <3>1 DEF PublicReads
    <2> QED BY <1>3, <2>1, <2>2, <2>3, <2>4, <2>5, <2>6, <2>7, <2>8, <2>9, <2>10, <2>11
            DEF PublicNext
  <1>4. ASSUME NEW t \in Tunnels, BreakLink(t) PROVE TypeOK'
    BY <1>4 DEF BreakLink
  <1>5. CASE UNCHANGED vars
    BY <1>5 DEF vars
  <1> QED BY <1>1, <1>2, <1>3, <1>4, <1>5 DEF Next

\* In every reachable state every variable of the tunnel has its type.
THEOREM TypeCorrect == Spec => []TypeOK
  BY InitType, NextType, PTL DEF Spec

(***************************************************************************)
(* The pool never exceeds its capacity.                                    *)
(***************************************************************************)

\* Only register adds a handle, and it first counts what retain has left.
LEMMA NextPoolBounded == TypeOK /\ PoolBounded /\ [Next]_vars => PoolBounded'
  <1> SUFFICES ASSUME TypeOK, PoolBounded, [Next]_vars PROVE PoolBounded'
    OBVIOUS
  <1> USE ConstantsAssumption DEF ConstantsAssumption, PoolBounded
  <1>1. IsFiniteSet(idle) /\ Cardinality(idle) \in Nat /\ idle \subseteq Tunnels
    BY FS_Subset, FS_CardinalityType DEF TypeOK
  <1>2. ASSUME NEW S \in SUBSET idle
        PROVE  IsFiniteSet(S) /\ Cardinality(S) \in Nat /\ Cardinality(S) <= Cardinality(idle)
    BY <1>1, FS_Subset, FS_CardinalityType
  <1>3. ASSUME idle' \in SUBSET idle PROVE PoolBounded'
    BY <1>1, <1>2, <1>3
  <1>4. ASSUME NEW t \in Tunnels, Register(t) PROVE PoolBounded'
    <2>1. Retained \in SUBSET idle
      BY DEF Retained
    <2>2. CASE idle' = Retained
      BY <1>3, <2>1, <2>2
    <2>3. CASE idle' = Retained \cup {t} /\ Cardinality(Retained) < Capacity
      <3>1. Cardinality(Retained \cup {t}) <= Cardinality(Retained) + 1
        BY <1>2, <2>1, FS_AddElement
      <3>2. Cardinality(Retained \cup {t}) \in Nat
        BY <1>2, <2>1, FS_AddElement, FS_CardinalityType
      <3> QED BY <1>2, <2>1, <2>3, <3>1, <3>2
    <2> QED BY <1>4, <2>2, <2>3 DEF Register
  <1>5. ASSUME NEW p \in Publics, Acquire(p) PROVE PoolBounded'
    BY <1>3, <1>5 DEF Acquire, Retained
  <1>6. ASSUME idle' = idle PROVE PoolBounded'
    BY <1>6
  <1>7. \/ idle' = idle
        \/ \E t \in Tunnels : Register(t)
        \/ \E p \in Publics : Acquire(p)
    BY DEF vars, poolVars, Next, ClientNext, GatewayNext, PublicNext, BreakLink, Connect,
           ClientAnswers, ClientAdmitted, ClientCommand, ClientReady, ClientEnds,
           ClientWrites, ClientReads, GatewayAuthenticates, GatewayAuthFails, Announce,
           Heartbeat, HeartbeatReply, HeartbeatFails, Activate, ActivationReply,
           ActivationFails, Accept, Park, AcquireTimeout, Assign, ResponseOk, ResponseErr,
           ResponseTimeout, RelayEnds, PublicWrites, PublicReads
  <1> QED BY <1>4, <1>5, <1>6, <1>7

\* TunnelPool.idle never holds more than capacity handles.
THEOREM PoolNeverOverflows == Spec => []PoolBounded
  <1>1. Init => PoolBounded
    BY ConstantsAssumption, FS_EmptySet DEF ConstantsAssumption, Init, PoolBounded
  <1> QED BY <1>1, NextPoolBounded, TypeCorrect, PTL DEF Spec

(***************************************************************************)
(* Ownership of tunnels.                                                   *)
(***************************************************************************)

\* Initially nothing is owned.
LEMMA InitOwnership == Init => Ownership
  BY ConstantsAssumption
  DEF ConstantsAssumption, Init, Ownership, TunnelOwned, PublicOwned, Managed

\* A step that leaves the gateway tasks, the pool and the public connections
\* alone leaves ownership alone.
LEMMA FrameOwnership ==
    ASSUME Ownership, UNCHANGED <<gw, live, queue, serving, idle, pc, wants, resp>>
    PROVE  Ownership'
  BY DEF Ownership, TunnelOwned, PublicOwned

\* Every step preserves ownership.
LEMMA NextOwnership == TypeOK /\ Ownership /\ [Next]_vars => Ownership'
  <1> SUFFICES ASSUME TypeOK, Ownership, [Next]_vars PROVE Ownership'
    OBVIOUS
  <1> USE ConstantsAssumption DEF ConstantsAssumption, TypeOK, GatewayStates, PublicStates,
          Managed, Ownership, gatewayVars, poolVars, publicVars
  <1>1. ASSUME NEW t \in Tunnels, ClientNext(t) PROVE Ownership'
    <2>1. CASE Connect(t)
      <3>1. ASSUME NEW u \in Tunnels PROVE TunnelOwned(u)'
        BY <2>1 DEF Connect, Forgotten, TunnelOwned, PublicOwned
      <3>2. ASSUME NEW q \in Publics PROVE PublicOwned(q)'
        BY <2>1 DEF Connect, Forgotten, TunnelOwned, PublicOwned
      <3> QED BY <3>1, <3>2
    <2>2. CASE UNCHANGED <<gw, live, queue, serving, idle, pc, wants, resp>>
      BY <2>2, FrameOwnership
    <2> QED BY <1>1, <2>1, <2>2
            DEF ClientNext, ClientAnswers, ClientAdmitted, ClientCommand, ClientReady,
                ClientEnds, ClientWrites, ClientReads
  <1>2. ASSUME NEW t \in Tunnels, GatewayNext(t) PROVE Ownership'
    <2>1. CASE GatewayAuthenticates(t)
      <3>1. ASSUME NEW u \in Tunnels PROVE TunnelOwned(u)'
        BY <2>1 DEF GatewayAuthenticates, GatewayCloses, TunnelOwned, PublicOwned
      <3>2. ASSUME NEW q \in Publics PROVE PublicOwned(q)'
        BY <2>1 DEF GatewayAuthenticates, GatewayCloses, TunnelOwned, PublicOwned
      <3> QED BY <3>1, <3>2
    <2>2. CASE GatewayAuthFails(t)
      <3>1. ASSUME NEW u \in Tunnels PROVE TunnelOwned(u)'
        BY <2>2 DEF GatewayAuthFails, GatewayCloses, TunnelOwned, PublicOwned
      <3>2. ASSUME NEW q \in Publics PROVE PublicOwned(q)'
        BY <2>2 DEF GatewayAuthFails, GatewayCloses, TunnelOwned, PublicOwned
      <3> QED BY <3>1, <3>2
    <2>3. CASE Register(t)
      <3>1. ASSUME NEW u \in Tunnels PROVE TunnelOwned(u)'
        BY <2>3 DEF Register, Retained, GatewayCloses, TunnelOwned, PublicOwned
      <3>2. ASSUME NEW q \in Publics PROVE PublicOwned(q)'
        BY <2>3 DEF Register, Retained, GatewayCloses, TunnelOwned, PublicOwned
      <3> QED BY <3>1, <3>2
    <2>4. CASE Announce(t)
      <3>1. ASSUME NEW u \in Tunnels PROVE TunnelOwned(u)'
        BY <2>4 DEF Announce, NotifyOne, TunnelOwned, PublicOwned
      <3>2. ASSUME NEW q \in Publics PROVE PublicOwned(q)'
        BY <2>4 DEF Announce, NotifyOne, TunnelOwned, PublicOwned
      <3> QED BY <3>1, <3>2
    <2>5. CASE Heartbeat(t)
      <3>1. ASSUME NEW u \in Tunnels PROVE TunnelOwned(u)'
        BY <2>5 DEF Heartbeat, TunnelOwned, PublicOwned
      <3>2. ASSUME NEW q \in Publics PROVE PublicOwned(q)'
        BY <2>5 DEF Heartbeat, TunnelOwned, PublicOwned
      <3> QED BY <3>1, <3>2
    <2>6. CASE HeartbeatReply(t)
      <3>1. ASSUME NEW u \in Tunnels PROVE TunnelOwned(u)'
        BY <2>6 DEF HeartbeatReply, ManagerBreaks, DropAssignment, GatewayCloses, TunnelOwned, PublicOwned
      <3>2. ASSUME NEW q \in Publics PROVE PublicOwned(q)'
        BY <2>6 DEF HeartbeatReply, ManagerBreaks, DropAssignment, GatewayCloses, TunnelOwned, PublicOwned
      <3> QED BY <3>1, <3>2
    <2>7. CASE HeartbeatFails(t)
      <3>1. ASSUME NEW u \in Tunnels PROVE TunnelOwned(u)'
        BY <2>7 DEF HeartbeatFails, ManagerBreaks, DropAssignment, GatewayCloses, TunnelOwned, PublicOwned
      <3>2. ASSUME NEW q \in Publics PROVE PublicOwned(q)'
        BY <2>7 DEF HeartbeatFails, ManagerBreaks, DropAssignment, GatewayCloses, TunnelOwned, PublicOwned
      <3> QED BY <3>1, <3>2
    <2>8. CASE Activate(t)
      <3>1. ASSUME NEW u \in Tunnels PROVE TunnelOwned(u)'
        BY <2>8 DEF Activate, TunnelOwned, PublicOwned
      <3>2. ASSUME NEW q \in Publics PROVE PublicOwned(q)'
        BY <2>8 DEF Activate, TunnelOwned, PublicOwned
      <3> QED BY <3>1, <3>2
    <2>9. CASE ActivationReply(t)
      <3>1. ASSUME NEW u \in Tunnels PROVE TunnelOwned(u)'
        BY <2>9 DEF ActivationReply, ActivationOk, ActivationErr, DropAssignment, GatewayCloses, TunnelOwned, PublicOwned
      <3>2. ASSUME NEW q \in Publics PROVE PublicOwned(q)'
        BY <2>9 DEF ActivationReply, ActivationOk, ActivationErr, DropAssignment, GatewayCloses, TunnelOwned, PublicOwned
      <3> QED BY <3>1, <3>2
    <2>10. CASE ActivationFails(t)
      <3>1. ASSUME NEW u \in Tunnels PROVE TunnelOwned(u)'
        BY <2>10 DEF ActivationFails, ActivationErr, DropAssignment, GatewayCloses, TunnelOwned, PublicOwned
      <3>2. ASSUME NEW q \in Publics PROVE PublicOwned(q)'
        BY <2>10 DEF ActivationFails, ActivationErr, DropAssignment, GatewayCloses, TunnelOwned, PublicOwned
      <3> QED BY <3>1, <3>2
    <2> QED BY <1>2, <2>1, <2>2, <2>3, <2>4, <2>5, <2>6, <2>7, <2>8, <2>9, <2>10
            DEF GatewayNext
  <1>3. ASSUME NEW p \in Publics, PublicNext(p) PROVE Ownership'
    <2>1. CASE Accept(p)
      <3>1. ASSUME NEW u \in Tunnels PROVE TunnelOwned(u)'
        BY <2>1 DEF Accept, TunnelOwned, PublicOwned
      <3>2. ASSUME NEW q \in Publics PROVE PublicOwned(q)'
        BY <2>1 DEF Accept, TunnelOwned, PublicOwned
      <3> QED BY <3>1, <3>2
    <2>2. CASE Acquire(p)
      <3>1. ASSUME NEW u \in Tunnels PROVE TunnelOwned(u)'
        BY <2>2 DEF Acquire, Retained, TunnelOwned, PublicOwned
      <3>2. ASSUME NEW q \in Publics PROVE PublicOwned(q)'
        BY <2>2 DEF Acquire, Retained, TunnelOwned, PublicOwned
      <3> QED BY <3>1, <3>2
    <2>3. CASE Park(p)
      <3>1. ASSUME NEW u \in Tunnels PROVE TunnelOwned(u)'
        BY <2>3 DEF Park, TunnelOwned, PublicOwned
      <3>2. ASSUME NEW q \in Publics PROVE PublicOwned(q)'
        BY <2>3 DEF Park, TunnelOwned, PublicOwned
      <3> QED BY <3>1, <3>2
    <2>4. CASE AcquireTimeout(p)
      <3>1. ASSUME NEW u \in Tunnels PROVE TunnelOwned(u)'
        BY <2>4 DEF AcquireTimeout, PublicCloses, TunnelOwned, PublicOwned
      <3>2. ASSUME NEW q \in Publics PROVE PublicOwned(q)'
        BY <2>4 DEF AcquireTimeout, PublicCloses, TunnelOwned, PublicOwned
      <3> QED BY <3>1, <3>2
    <2>5. CASE Assign(p)
      <3>1. ASSUME NEW u \in Tunnels PROVE TunnelOwned(u)'
        BY <2>5 DEF Assign, Retry, PublicCloses, TunnelOwned, PublicOwned
      <3>2. ASSUME NEW q \in Publics PROVE PublicOwned(q)'
        BY <2>5 DEF Assign, Retry, PublicCloses, TunnelOwned, PublicOwned
      <3> QED BY <3>1, <3>2
    <2>6. CASE ResponseOk(p)
      <3>1. ASSUME NEW u \in Tunnels PROVE TunnelOwned(u)'
        BY <2>6 DEF ResponseOk, TunnelOwned, PublicOwned
      <3>2. ASSUME NEW q \in Publics PROVE PublicOwned(q)'
        BY <2>6 DEF ResponseOk, TunnelOwned, PublicOwned
      <3> QED BY <3>1, <3>2
    <2>7. CASE ResponseErr(p)
      <3>1. ASSUME NEW u \in Tunnels PROVE TunnelOwned(u)'
        BY <2>7 DEF ResponseErr, Retry, PublicCloses, TunnelOwned, PublicOwned
      <3>2. ASSUME NEW q \in Publics PROVE PublicOwned(q)'
        BY <2>7 DEF ResponseErr, Retry, PublicCloses, TunnelOwned, PublicOwned
      <3> QED BY <3>1, <3>2
    <2>8. CASE ResponseTimeout(p)
      <3>1. ASSUME NEW u \in Tunnels PROVE TunnelOwned(u)'
        <4>1. CASE resp[p] = "ok"
          <5>1. /\ gw[wants[p]] = "given"
                /\ gw' = [gw EXCEPT ![wants[p]] = "closed"]
                /\ UNCHANGED <<live, queue, serving, idle>>
            BY <2>8, <4>1 DEF ResponseTimeout, GatewayCloses, PublicOwned
          <5>2. \A q \in Publics : q # p => wants'[q] = wants[q]
            BY <2>8 DEF ResponseTimeout, Retry, PublicCloses
          <5>3. CASE u = wants[p]
            BY <5>1, <5>3 DEF TunnelOwned
          <5>4. CASE u # wants[p]
            BY <5>1, <5>2, <5>4 DEF TunnelOwned
          <5> QED BY <5>3, <5>4
        <4>2. CASE resp[p] # "ok"
          <5>1. gw[wants[p]] # "given" /\ UNCHANGED <<gw, live, queue, serving, idle>>
            BY <2>8, <4>2 DEF ResponseTimeout, poolVars, TunnelOwned, PublicOwned
          <5>2. \A q \in Publics : q # p => wants'[q] = wants[q]
            BY <2>8 DEF ResponseTimeout, Retry, PublicCloses
          <5> QED BY <5>1, <5>2 DEF TunnelOwned
        <4> QED BY <4>1, <4>2
      <3>2. ASSUME NEW q \in Publics PROVE PublicOwned(q)'
        BY <2>8 DEF ResponseTimeout, Retry, PublicCloses, GatewayCloses, TunnelOwned, PublicOwned
      <3> QED BY <3>1, <3>2
    <2>9. CASE RelayEnds(p)
      <3>1. ASSUME NEW u \in Tunnels PROVE TunnelOwned(u)'
        BY <2>9 DEF RelayEnds, PublicCloses, GatewayCloses, TunnelOwned, PublicOwned
      <3>2. ASSUME NEW q \in Publics PROVE PublicOwned(q)'
        BY <2>9 DEF RelayEnds, PublicCloses, GatewayCloses, TunnelOwned, PublicOwned
      <3> QED BY <3>1, <3>2
    <2>10. CASE UNCHANGED <<gw, live, queue, serving, idle, pc, wants, resp>>
      BY <2>10, FrameOwnership
    <2> QED BY <1>3, <2>1, <2>2, <2>3, <2>4, <2>5, <2>6, <2>7, <2>8, <2>9, <2>10
            DEF PublicNext, PublicWrites, PublicReads
  <1>4. ASSUME NEW t \in Tunnels, BreakLink(t) PROVE Ownership'
    BY <1>4, FrameOwnership DEF BreakLink
  <1>5. CASE UNCHANGED vars
    BY <1>5, FrameOwnership DEF vars
  <1> QED BY <1>1, <1>2, <1>3, <1>4, <1>5 DEF Next

\* Ownership is an invariant: it is the inductive invariant of the pool.
THEOREM OwnershipHolds == Spec => []Ownership
  BY InitOwnership, NextOwnership, TypeCorrect, PTL DEF Spec

\* Each public connection has its tunnel to itself, from acquire to the end of
\* the relay, for any number of connections, timeouts and retries.
THEOREM TunnelIsDedicated == Spec => []DedicatedTunnel
  <1>1. Ownership => DedicatedTunnel
    BY DEF Ownership, PublicOwned, DedicatedTunnel
  <1> QED BY <1>1, OwnershipHolds, PTL

\* The one-slot assignment channel of a candidate is always free.
THEOREM AssignmentNeverBlocks == Spec => []AssignmentHasRoom
  <1>1. Ownership => AssignmentHasRoom
    BY DEF Ownership, PublicOwned, AssignmentHasRoom
  <1> QED BY <1>1, OwnershipHolds, PTL

\* A waiting public connection always has somebody who owes it an answer.
THEOREM AssignmentNotForgotten == Spec => []AssignmentPending
  <1>1. Ownership => AssignmentPending
    BY DEF Ownership, PublicOwned, AssignmentPending
  <1> QED BY <1>1, OwnershipHolds, PTL

(***************************************************************************)
(* The conversation on a tunnel.  WireClean is not inductive: whether the  *)
(* next byte is the right one depends on everything that is still on the   *)
(* way in both directions and on what a dead link has swallowed.  Talk     *)
(* says, for every pair of states of the two ends, exactly what the two    *)
(* wires may hold.                                                         *)
(***************************************************************************)

\* READY and then payload: the client began to copy before READY was read.
ReadyFirst(wire) == wire # <<>> /\ Head(wire) = "READY" /\ DataOnly(Tail(wire))

\* What the gateway end in state g may still have to read.
GatewayHears(g, tg) ==
    /\ g = "auth" => tg \in {<<>>, <<"MAC_OK">>, <<"MAC_BAD">>}
    /\ g = "pinging" => tg \in {<<>>, <<"PONG">>}
    /\ g = "starting" => tg = <<>> \/ ReadyFirst(tg)
    /\ g = "given" => DataOnly(tg)
    /\ g \in {"closed", "admit", "pushed", "idle"} => tg = <<>>

\* The client has answered the challenge: the verdict is first on its wire, or
\* was lost with the link, and at most one command follows it.
Answered(g, tc, tg, l) ==
    /\ g # "given"
    /\ g # "auth" => tg = <<>>
    /\ g = "auth" => tc = <<>>
    /\ g \in {"admit", "pushed", "idle"} =>
         \/ tc = <<"AUTH_OK">>
         \/ tc = <<>> /\ l = "down"
    /\ g = "pinging" => tc \in {<<>>, <<"AUTH_OK">>, <<"AUTH_OK", "PING">>}
    /\ g = "starting" => tc \in {<<>>, <<"AUTH_OK">>, <<"AUTH_OK", "START">>}
    /\ g = "closed" => tc \in {<<>>, <<"AUTH_FAILED">>, <<"AUTH_OK">>,
                               <<"AUTH_OK", "PING">>, <<"AUTH_OK", "START">>}

\* The client waits for a command: at most one question or its answer is out.
Waiting(g, tc, tg) ==
    /\ g \notin {"auth", "given"}
    /\ g \in {"admit", "pushed", "idle"} => tc = <<>>
    /\ g = "pinging" => tc = <<>> \/ (tc = <<"PING">> /\ tg = <<>>)
    /\ g = "starting" => tc \in {<<>>, <<"START">>} /\ tg = <<>>
    /\ g = "closed" => tc \in {<<>>, <<"PING">>, <<"START">>}

\* What the wires of a tunnel hold when its ends are in states g and c.
Talk(g, c, tc, tg, l) ==
    /\ GatewayHears(g, tg)
    /\ c = "closed" => tc = <<>>
    /\ c = "auth" => g \in {"auth", "closed"} /\ tc = <<"CHALLENGE">> /\ tg = <<>>
    /\ c = "answered" => Answered(g, tc, tg, l)
    /\ c = "waiting" => Waiting(g, tc, tg)
    /\ c = "dialing" => g \in {"starting", "closed"} /\ tc = <<>> /\ tg = <<>>
    /\ c = "relay" =>
         /\ g \in {"starting", "given", "closed"}
         /\ DataOnly(tc)
         /\ g = "starting" => ReadyFirst(tg) \/ (tg = <<>> /\ l = "down")

\* Every tunnel's conversation is in order.
Conversation ==
    \A t \in Tunnels : Talk(gw[t], cl[t], toClient[t], toGateway[t], link[t])

\* Reading and writing wires of at most two bytes.
LEMMA ShortWires ==
    ASSUME NEW a, NEW b
    PROVE  /\ Append(<<>>, a) = <<a>> /\ Append(<<a>>, b) = <<a, b>>
           /\ Head(<<a>>) = a /\ Tail(<<a>>) = <<>> /\ <<a>> # <<>>
           /\ Head(<<a, b>>) = a /\ Tail(<<a, b>>) = <<b>> /\ <<a, b>> # <<>>
  <1>1. <<a>> \in Seq({a, b}) /\ <<a, b>> \in Seq({a, b}) /\ <<b>> \in Seq({a, b})
    OBVIOUS
  <1>2. Append(<<>>, a) = <<a>>
    OBVIOUS
  <1>3. Append(<<a>>, b) = <<a, b>>
    <2>1. /\ Append(<<a>>, b) \in Seq({a, b}) /\ Len(Append(<<a>>, b)) = 2
          /\ Append(<<a>>, b)[1] = a /\ Append(<<a>>, b)[2] = b
      BY <1>1
    <2>2. \A i \in 1 .. Len(Append(<<a>>, b)) : Append(<<a>>, b)[i] = <<a, b>>[i]
      BY <2>1
    <2> QED BY <1>1, <2>1, <2>2, SeqEqual
  <1>4. Tail(<<a>>) = <<>>
    BY <1>1
  <1>5. Tail(<<a, b>>) = <<b>>
    BY <1>1
  <1>6. Head(<<a>>) = a /\ <<a>> # <<>> /\ Head(<<a, b>>) = a /\ <<a, b>> # <<>>
    OBVIOUS
  <1> QED BY <1>2, <1>3, <1>4, <1>5, <1>6

\* A wire of payload stays one when payload is written to it or read from it,
\* and so does one that READY still precedes.
LEMMA DataWires ==
    ASSUME NEW Byte, NEW w \in Seq(Byte)
    PROVE  /\ DataOnly(<<>>) /\ ReadyFirst(<<"READY">>)
           /\ DataOnly(w) => DataOnly(Append(w, "DATA"))
           /\ DataOnly(w) /\ w # <<>> => DataOnly(Tail(w))
           /\ ReadyFirst(w) => ReadyFirst(Append(w, "DATA"))
  <1>1. DataOnly(<<>>) /\ ReadyFirst(<<"READY">>)
    BY ShortWires DEF DataOnly, ReadyFirst
  <1>2. DataOnly(w) => DataOnly(Append(w, "DATA"))
    BY DEF DataOnly
  <1>3. DataOnly(w) /\ w # <<>> => DataOnly(Tail(w))
    BY DEF DataOnly
  <1>4. ASSUME ReadyFirst(w) PROVE ReadyFirst(Append(w, "DATA"))
    <2>1. w # <<>> /\ Head(w) = "READY" /\ DataOnly(Tail(w))
      BY <1>4 DEF ReadyFirst
    <2>2. Append(w, "DATA") # <<>> /\ Head(Append(w, "DATA")) = "READY"
      BY <2>1
    <2>3. Tail(w) \in Seq(Byte) /\ Tail(Append(w, "DATA")) = Append(Tail(w), "DATA")
      BY <2>1
    <2>4. DataOnly(Append(Tail(w), "DATA"))
      BY <2>1, <2>3 DEF DataOnly
    <2> QED BY <2>2, <2>3, <2>4 DEF ReadyFirst
  <1> QED BY <1>1, <1>2, <1>3, <1>4

\* What Carried does to the wire it writes, and to no other.
LEMMA CarriedByte ==
    ASSUME NEW Byte, NEW wire \in [Tunnels -> Seq(Byte)], NEW other, NEW b,
           NEW t \in Tunnels
    PROVE  /\ link[t] = "up" /\ other[t] # "closed" =>
                Carried(wire, other, t, b)[t] = Append(wire[t], b)
           /\ ~(link[t] = "up" /\ other[t] # "closed") =>
                Carried(wire, other, t, b)[t] = wire[t]
           /\ \A u \in Tunnels \ {t} : Carried(wire, other, t, b)[u] = wire[u]
  BY DEF Carried

\* A step concerns one tunnel: the others' conversations do not move.
LEMMA OneConversation ==
    ASSUME Conversation, NEW t \in Tunnels,
           \A u \in Tunnels \ {t} :
             /\ gw'[u] = gw[u] /\ cl'[u] = cl[u] /\ link'[u] = link[u]
             /\ toClient'[u] = toClient[u] /\ toGateway'[u] = toGateway[u],
           Talk(gw'[t], cl'[t], toClient'[t], toGateway'[t], link'[t])
    PROVE  Conversation'
  BY DEF Conversation

\* The gateway end may close at any time: what it wrote stays on the wire.
LEMMA TalkAfterGatewayCloses ==
    ASSUME NEW g, NEW c \in ClientStates, NEW tc, NEW tg, NEW l, NEW l2,
           Talk(g, c, tc, tg, l), g \in GatewayStates
    PROVE  Talk("closed", c, tc, <<>>, l2)
  BY DEF Talk, GatewayHears, Answered, Waiting, GatewayStates

\* The client end may close at any time: what it wrote stays on the wire.
LEMMA TalkAfterClientCloses ==
    ASSUME NEW g, NEW c, NEW tc, NEW tg, NEW l, Talk(g, c, tc, tg, l)
    PROVE  Talk(g, "closed", <<>>, tg, l)
  BY DEF Talk

\* The wires of a tunnel whose manager is at its select.
IdleTalk(t) ==
    /\ toGateway[t] = <<>>
    /\ \/ cl[t] = "answered" /\ toClient[t] = <<"AUTH_OK">>
       \/ cl[t] = "answered" /\ toClient[t] = <<>> /\ link[t] = "down"
       \/ cl[t] \in {"waiting", "closed"} /\ toClient[t] = <<>>

\* The same wires once the manager has written a command, which a dead link or
\* a closed client end swallows.
AskedTalk(t, command) ==
    \/ cl[t] = "answered" /\ toClient'[t] \in {<<>>, <<"AUTH_OK">>, <<"AUTH_OK", command>>}
    \/ cl[t] = "waiting" /\ toClient'[t] \in {<<>>, <<command>>}
    \/ cl[t] = "closed" /\ toClient'[t] = <<>>

\* Initially nothing is on any wire.
LEMMA InitConversation == Init => Conversation
  BY DEF Init, Conversation, Talk, GatewayHears

\* Every step keeps every conversation in order.
LEMMA NextConversation ==
    TypeOK /\ Ownership /\ Conversation /\ [Next]_vars => Conversation'
  <1> SUFFICES ASSUME TypeOK, Ownership, Conversation, [Next]_vars PROVE Conversation'
    OBVIOUS
  <1> DEFINE Now(u)   == Talk(gw[u], cl[u], toClient[u], toGateway[u], link[u])
             After(u) == Talk(gw'[u], cl'[u], toClient'[u], toGateway'[u], link'[u])
             Frame(t) == \A u \in Tunnels \ {t} :
                           /\ gw'[u] = gw[u] /\ cl'[u] = cl[u] /\ link'[u] = link[u]
                           /\ toClient'[u] = toClient[u] /\ toGateway'[u] = toGateway[u]
  <1>a. /\ gw \in [Tunnels -> GatewayStates] /\ cl \in [Tunnels -> ClientStates]
        /\ link \in [Tunnels -> {"up", "down"}]
        /\ toClient \in [Tunnels -> Seq(Control \cup {"DATA"})]
        /\ toGateway \in [Tunnels -> Seq(Reply \cup {"DATA"})]
    BY DEF TypeOK, ToClientWires, ToGatewayWires
  <1>b. \A u \in Tunnels : Now(u)
    BY DEF Conversation
  <1>c. ASSUME NEW t \in Tunnels, Frame(t), After(t) PROVE Conversation'
    BY <1>c, OneConversation
  <1>d. ASSUME NEW t \in Tunnels, GatewayCloses(t), UNCHANGED <<cl, toClient, link>>
        PROVE  Conversation'
    <2>1. /\ gw'[t] = "closed" /\ toGateway'[t] = <<>>
          /\ cl'[t] = cl[t] /\ toClient'[t] = toClient[t] /\ link'[t] = link[t]
      BY <1>a, <1>d DEF GatewayCloses
    <2>2. After(t)
      BY <1>a, <1>b, <2>1, TalkAfterGatewayCloses
    <2>3. Frame(t)
      BY <1>a, <1>d DEF GatewayCloses
    <2> QED BY <1>c, <2>2, <2>3
  <1>e. ASSUME NEW t \in Tunnels, ClientCloses(t), UNCHANGED <<gw, toGateway, link>>
        PROVE  Conversation'
    <2>1. /\ cl'[t] = "closed" /\ toClient'[t] = <<>>
          /\ gw'[t] = gw[t] /\ toGateway'[t] = toGateway[t] /\ link'[t] = link[t]
      BY <1>a, <1>e DEF ClientCloses
    <2>2. After(t)
      BY <1>b, <2>1, TalkAfterClientCloses
    <2>3. Frame(t)
      BY <1>a, <1>e DEF ClientCloses
    <2> QED BY <1>c, <2>2, <2>3
  <1>f. ASSUME UNCHANGED <<gw, cl, toClient, toGateway, link>> PROVE Conversation'
    BY <1>f DEF Conversation
  <1>g. ASSUME NEW t \in Tunnels, NEW b
        PROVE  /\ link[t] = "up" /\ cl[t] # "closed" =>
                    Carried(toClient, cl, t, b)[t] = Append(toClient[t], b)
               /\ ~(link[t] = "up" /\ cl[t] # "closed") =>
                    Carried(toClient, cl, t, b)[t] = toClient[t]
               /\ \A u \in Tunnels \ {t} : Carried(toClient, cl, t, b)[u] = toClient[u]
    BY <1>a, CarriedByte
  <1>h. ASSUME NEW t \in Tunnels, NEW b
        PROVE  /\ link[t] = "up" /\ gw[t] # "closed" =>
                    Carried(toGateway, gw, t, b)[t] = Append(toGateway[t], b)
               /\ ~(link[t] = "up" /\ gw[t] # "closed") =>
                    Carried(toGateway, gw, t, b)[t] = toGateway[t]
               /\ \A u \in Tunnels \ {t} : Carried(toGateway, gw, t, b)[u] = toGateway[u]
    BY <1>a, CarriedByte
  <1> HIDE DEF Frame
  <1> USE DEF gatewayVars, wireVars, poolVars, publicVars
  <1>1. ASSUME NEW t \in Tunnels, ClientNext(t) PROVE Conversation'
    <2>1. CASE Connect(t)
      <3>1. Frame(t)
        BY <1>a, <2>1 DEF Frame, Connect
      <3>2. /\ gw'[t] = "auth" /\ cl'[t] = "auth" /\ toClient'[t] = <<"CHALLENGE">>
            /\ toGateway'[t] = <<>>
        BY <1>a, <2>1 DEF Connect
      <3>3. After(t)
        BY <3>2 DEF Talk, GatewayHears
      <3> QED BY <1>c, <3>1, <3>3
    <2>2. CASE ClientAnswers(t)
      <3>1. /\ cl[t] = "auth" /\ toClient[t] = <<"CHALLENGE">> /\ toGateway[t] = <<>>
            /\ gw[t] \in {"auth", "closed"}
        BY <1>b, <2>2 DEF ClientAnswers, Talk
      <3>2. PICK mac \in {"MAC_OK", "MAC_BAD"} : toGateway' = Carried(toGateway, gw, t, mac)
        BY <2>2 DEF ClientAnswers
      <3>3. Frame(t)
        BY <1>a, <2>2, <3>2, <1>h DEF Frame, ClientAnswers
      <3>4. gw'[t] = gw[t] /\ cl'[t] = "answered" /\ toClient'[t] = <<>>
        BY <1>a, <2>2, <3>1, ShortWires DEF ClientAnswers
      <3>5. /\ toGateway'[t] \in {<<>>, <<mac>>}
            /\ gw[t] = "closed" => toGateway'[t] = <<>>
        <4>1. Append(<<>>, mac) = <<mac>>
          BY ShortWires
        <4> QED BY <3>1, <3>2, <4>1, <1>h
      <3>6. After(t)
        BY <3>1, <3>2, <3>4, <3>5 DEF Talk, GatewayHears, Answered
      <3> QED BY <1>c, <3>3, <3>6
    <2>3. CASE ClientAdmitted(t)
      <3>1. CASE ClientCloses(t)
        BY <1>e, <2>3, <3>1 DEF ClientAdmitted
      <3>2. CASE /\ Head(toClient[t]) = "AUTH_OK" /\ cl' = [cl EXCEPT ![t] = "waiting"]
                 /\ toClient' = [toClient EXCEPT ![t] = Tail(@)]
        <4>1. Frame(t)
          BY <1>a, <2>3, <3>2 DEF Frame, ClientAdmitted
        <4>2. /\ gw'[t] = gw[t] /\ cl'[t] = "waiting" /\ link'[t] = link[t]
              /\ toClient'[t] = Tail(toClient[t]) /\ toGateway'[t] = toGateway[t]
          BY <1>a, <2>3, <3>2 DEF ClientAdmitted
        <4>3. /\ Answered(gw[t], toClient[t], toGateway[t], link[t])
              /\ toClient[t] # <<>> /\ GatewayHears(gw[t], toGateway[t])
          BY <1>b, <2>3 DEF ClientAdmitted, Talk
        <4>4. /\ toClient[t] \in {<<"AUTH_OK">>, <<"AUTH_OK", "PING">>, <<"AUTH_OK", "START">>}
              /\ gw[t] \in {"admit", "pushed", "idle", "pinging", "starting", "closed"}
              /\ gw[t] \in {"admit", "pushed", "idle"} => toClient[t] = <<"AUTH_OK">>
              /\ gw[t] = "pinging" => toClient[t] \in {<<"AUTH_OK">>, <<"AUTH_OK", "PING">>}
              /\ gw[t] = "starting" => toClient[t] \in {<<"AUTH_OK">>, <<"AUTH_OK", "START">>}
          BY <1>a, <3>2, <4>3, ShortWires DEF Answered, GatewayStates
        <4>5. /\ Tail(toClient[t]) \in {<<>>, <<"PING">>, <<"START">>}
              /\ gw[t] \in {"admit", "pushed", "idle"} => Tail(toClient[t]) = <<>>
              /\ gw[t] = "pinging" => Tail(toClient[t]) \in {<<>>, <<"PING">>}
              /\ gw[t] = "starting" => Tail(toClient[t]) \in {<<>>, <<"START">>}
          <5>1. /\ Tail(<<"AUTH_OK">>) = <<>> /\ Tail(<<"AUTH_OK", "PING">>) = <<"PING">>
                /\ Tail(<<"AUTH_OK", "START">>) = <<"START">>
            BY ShortWires
          <5> QED BY <4>4, <5>1
        <4>6. toGateway[t] = <<>>
          BY <4>3, <4>4 DEF Answered
        <4>7. After(t)
          BY <4>2, <4>3, <4>4, <4>5, <4>6 DEF Talk, Waiting
        <4> QED BY <1>c, <4>1, <4>7
      <3> QED BY <2>3, <3>1, <3>2 DEF ClientAdmitted
    <2>4. CASE ClientCommand(t)
      <3>1. /\ Waiting(gw[t], toClient[t], toGateway[t]) /\ cl[t] = "waiting"
            /\ toClient[t] # <<>> /\ GatewayHears(gw[t], toGateway[t])
        BY <1>b, <2>4 DEF ClientCommand, Talk
      <3>2. /\ toClient[t] \in {<<"PING">>, <<"START">>} /\ toGateway[t] = <<>>
            /\ gw[t] \in {"pinging", "starting", "closed"}
            /\ gw[t] = "pinging" => toClient[t] = <<"PING">>
            /\ gw[t] = "starting" => toClient[t] = <<"START">>
        BY <1>a, <3>1 DEF Waiting, GatewayHears, GatewayStates
      <3>3. CASE /\ Head(toClient[t]) = "PING" /\ UNCHANGED cl
                 /\ toClient' = [toClient EXCEPT ![t] = Tail(@)]
                 /\ toGateway' = Carried(toGateway, gw, t, "PONG")
        <4>1. Frame(t)
          BY <1>a, <2>4, <3>3, <1>h DEF Frame, ClientCommand
        <4>2. gw[t] \in {"pinging", "closed"} /\ toClient[t] = <<"PING">>
          BY <3>2, <3>3, ShortWires
        <4>3. gw'[t] = gw[t] /\ cl'[t] = "waiting" /\ toClient'[t] = <<>>
          BY <1>a, <2>4, <3>1, <3>3, <4>2, ShortWires DEF ClientCommand
        <4>4. /\ toGateway'[t] \in {<<>>, <<"PONG">>}
              /\ gw[t] = "closed" => toGateway'[t] = <<>>
          BY <1>a, <3>2, <3>3, <1>h, ShortWires
        <4>5. After(t)
          BY <4>2, <4>3, <4>4 DEF Talk, GatewayHears, Waiting
        <4> QED BY <1>c, <4>1, <4>5
      <3>4. CASE /\ Head(toClient[t]) = "START" /\ UNCHANGED toGateway
                 /\ toClient' = [toClient EXCEPT ![t] = Tail(@)]
                 /\ cl' = [cl EXCEPT ![t] = "dialing"]
        <4>1. Frame(t)
          BY <1>a, <2>4, <3>4 DEF Frame, ClientCommand
        <4>2. gw[t] \in {"starting", "closed"} /\ toClient[t] = <<"START">>
          BY <3>2, <3>4, ShortWires
        <4>3. /\ gw'[t] = gw[t] /\ cl'[t] = "dialing" /\ toClient'[t] = <<>>
              /\ toGateway'[t] = <<>>
          BY <1>a, <2>4, <3>2, <3>4, <4>2, ShortWires DEF ClientCommand
        <4>4. After(t)
          BY <4>2, <4>3 DEF Talk, GatewayHears
        <4> QED BY <1>c, <4>1, <4>4
      <3>5. CASE ClientCloses(t) /\ UNCHANGED toGateway
        BY <1>e, <2>4, <3>5 DEF ClientCommand
      <3> QED BY <2>4, <3>3, <3>4, <3>5 DEF ClientCommand
    <2>5. CASE ClientReady(t)
      <3>1. Frame(t)
        BY <1>a, <2>5, <1>h DEF Frame, ClientReady
      <3>2. gw[t] \in {"starting", "closed"} /\ toClient[t] = <<>> /\ toGateway[t] = <<>>
        BY <1>b, <2>5 DEF ClientReady, Talk
      <3>3. gw'[t] = gw[t] /\ cl'[t] = "relay" /\ link'[t] = link[t] /\ toClient'[t] = <<>>
        BY <1>a, <2>5, <3>2 DEF ClientReady
      <3>4. \/ toGateway'[t] = <<"READY">> /\ gw[t] # "closed"
            \/ toGateway'[t] = <<>> /\ (link[t] = "down" \/ gw[t] = "closed")
        BY <1>a, <2>5, <3>2, <1>h, ShortWires DEF ClientReady
      <3>5. After(t)
        BY <1>a, <3>2, <3>3, <3>4, DataWires DEF Talk, GatewayHears
      <3> QED BY <1>c, <3>1, <3>5
    <2>6. CASE ClientEnds(t)
      BY <1>e, <2>6 DEF ClientEnds
    <2>7. CASE ClientWrites(t)
      <3>1. Frame(t)
        BY <1>a, <2>7, <1>h DEF Frame, ClientWrites
      <3>2. /\ gw[t] \in {"starting", "given", "closed"} /\ DataOnly(toClient[t])
            /\ gw[t] = "starting" =>
                 ReadyFirst(toGateway[t]) \/ (toGateway[t] = <<>> /\ link[t] = "down")
            /\ gw[t] = "given" => DataOnly(toGateway[t])
            /\ gw[t] = "closed" => toGateway[t] = <<>>
        BY <1>b, <2>7 DEF ClientWrites, Talk, GatewayHears
      <3>3. /\ gw'[t] = gw[t] /\ cl'[t] = "relay" /\ link'[t] = link[t]
            /\ toClient'[t] = toClient[t]
        BY <1>a, <2>7 DEF ClientWrites
      <3>4. /\ ReadyFirst(toGateway[t]) => ReadyFirst(Append(toGateway[t], "DATA"))
            /\ DataOnly(toGateway[t]) => DataOnly(Append(toGateway[t], "DATA"))
        BY <1>a, DataWires
      <3>5. \/ toGateway'[t] = toGateway[t]
            \/ /\ toGateway'[t] = Append(toGateway[t], "DATA")
               /\ link[t] = "up" /\ gw[t] # "closed"
        BY <1>a, <2>7, <1>h DEF ClientWrites
      <3>6. After(t)
        BY <3>2, <3>3, <3>4, <3>5 DEF Talk, GatewayHears
      <3> QED BY <1>c, <3>1, <3>6
    <2>8. CASE ClientReads(t)
      <3>1. Frame(t)
        BY <1>a, <2>8 DEF Frame, ClientReads
      <3>2. /\ gw'[t] = gw[t] /\ cl'[t] = "relay" /\ cl[t] = "relay" /\ link'[t] = link[t]
            /\ toClient'[t] = Tail(toClient[t]) /\ toGateway'[t] = toGateway[t]
        BY <1>a, <2>8 DEF ClientReads
      <3>3. DataOnly(toClient[t]) /\ toClient[t] # <<>>
        BY <1>b, <2>8 DEF ClientReads, Talk
      <3>4. DataOnly(Tail(toClient[t]))
        BY <1>a, <3>3, DataWires
      <3>5. After(t)
        BY <1>b, <3>2, <3>4 DEF Talk
      <3> QED BY <1>c, <3>1, <3>5
    <2> QED BY <1>1, <2>1, <2>2, <2>3, <2>4, <2>5, <2>6, <2>7, <2>8 DEF ClientNext
  <1>2. ASSUME NEW t \in Tunnels, GatewayNext(t) PROVE Conversation'
    <2>1. CASE GatewayAuthenticates(t)
      <3>1. Frame(t)
        BY <1>a, <2>1, <1>g DEF Frame, GatewayAuthenticates, GatewayCloses
      <3>2. /\ gw[t] = "auth" /\ toGateway[t] \in {<<"MAC_OK">>, <<"MAC_BAD">>}
            /\ cl[t] \in {"answered", "closed"} /\ toClient[t] = <<>>
            /\ cl'[t] = cl[t] /\ link'[t] = link[t]
        BY <1>a, <1>b, <2>1
        DEF GatewayAuthenticates, Talk, GatewayHears, Answered, Waiting, ClientStates
      <3>3. ASSUME NEW b, toClient' = Carried(toClient, cl, t, b)
            PROVE  \/ toClient'[t] = <<b>> /\ cl[t] # "closed"
                   \/ toClient'[t] = <<>> /\ (link[t] = "down" \/ cl[t] = "closed")
        BY <1>a, <3>2, <3>3, <1>g, ShortWires
      <3>4. CASE /\ gw' = [gw EXCEPT ![t] = "admit"]
                 /\ toGateway' = [toGateway EXCEPT ![t] = Tail(@)]
                 /\ toClient' = Carried(toClient, cl, t, "AUTH_OK")
        <4>1. gw'[t] = "admit" /\ toGateway'[t] = <<>>
          BY <1>a, <3>2, <3>4, ShortWires
        <4>2. After(t)
          BY <3>2, <3>3, <3>4, <4>1 DEF Talk, GatewayHears, Answered
        <4> QED BY <1>c, <3>1, <4>2
      <3>5. CASE GatewayCloses(t) /\ toClient' = Carried(toClient, cl, t, "AUTH_FAILED")
        <4>1. gw'[t] = "closed" /\ toGateway'[t] = <<>>
          BY <1>a, <3>5 DEF GatewayCloses
        <4>2. After(t)
          BY <3>2, <3>3, <3>5, <4>1 DEF Talk, GatewayHears, Answered
        <4> QED BY <1>c, <3>1, <4>2
      <3> QED BY <2>1, <3>4, <3>5 DEF GatewayAuthenticates
    <2>2. CASE GatewayAuthFails(t)
      BY <1>d, <2>2 DEF GatewayAuthFails
    <2>3. CASE Register(t)
      <3>1. CASE GatewayCloses(t)
        BY <1>d, <2>3, <3>1 DEF Register
      <3>2. CASE gw' = [gw EXCEPT ![t] = "pushed"] /\ UNCHANGED toGateway
        <4>1. Frame(t)
          BY <1>a, <2>3, <3>2 DEF Frame, Register
        <4>2. /\ gw[t] = "admit" /\ gw'[t] = "pushed" /\ cl'[t] = cl[t] /\ link'[t] = link[t]
              /\ toClient'[t] = toClient[t] /\ toGateway'[t] = toGateway[t]
          BY <1>a, <2>3, <3>2 DEF Register
        <4>3. After(t)
          BY <1>b, <4>2 DEF Talk, GatewayHears, Answered, Waiting
        <4> QED BY <1>c, <4>1, <4>3
      <3> QED BY <2>3, <3>1, <3>2 DEF Register
    <2>4. CASE Announce(t)
      <3>1. Frame(t)
        BY <1>a, <2>4 DEF Frame, Announce
      <3>2. /\ gw[t] = "pushed" /\ gw'[t] = "idle" /\ cl'[t] = cl[t] /\ link'[t] = link[t]
            /\ toClient'[t] = toClient[t] /\ toGateway'[t] = toGateway[t]
        BY <1>a, <2>4 DEF Announce
      <3>3. After(t)
        BY <1>b, <3>2 DEF Talk, GatewayHears, Answered, Waiting
      <3> QED BY <1>c, <3>1, <3>3
    <2>5. CASE Heartbeat(t)
      <3>1. Frame(t)
        BY <1>a, <2>5, <1>g DEF Frame, Heartbeat
      <3>2. gw'[t] = "pinging" /\ cl'[t] = cl[t] /\ toGateway'[t] = toGateway[t]
        BY <1>a, <2>5 DEF Heartbeat
      <3>3. IdleTalk(t)
        BY <1>a, <1>b, <2>5 DEF Heartbeat, IdleTalk, Talk, GatewayHears, Answered, Waiting, ClientStates
      <3>4. AskedTalk(t, "PING")
        <4>1. /\ Append(<<>>, "PING") = <<"PING">>
              /\ Append(<<"AUTH_OK">>, "PING") = <<"AUTH_OK", "PING">>
          BY ShortWires
        <4>2. toClient' = Carried(toClient, cl, t, "PING")
          BY <2>5 DEF Heartbeat
        <4> QED BY <1>a, <3>3, <4>1, <4>2, <1>g DEF IdleTalk, AskedTalk
      <3>5. After(t)
        BY <3>2, <3>3, <3>4 DEF IdleTalk, AskedTalk, Talk, GatewayHears, Answered, Waiting
      <3> QED BY <1>c, <3>1, <3>5
    <2>6. CASE HeartbeatReply(t)
      <3>1. CASE ManagerBreaks(t)
        BY <1>d, <2>6, <3>1 DEF HeartbeatReply, ManagerBreaks
      <3>2. CASE /\ gw' = [gw EXCEPT ![t] = "idle"]
                 /\ toGateway' = [toGateway EXCEPT ![t] = Tail(@)]
        <4>1. Frame(t)
          BY <1>a, <2>6, <3>2 DEF Frame, HeartbeatReply
        <4>2. /\ gw[t] = "pinging" /\ toGateway[t] = <<"PONG">> /\ toClient[t] = <<>>
              /\ cl[t] \in {"waiting", "closed"}
          BY <1>a, <1>b, <2>6, ShortWires
          DEF HeartbeatReply, Talk, GatewayHears, Answered, Waiting, ClientStates
        <4>3. /\ gw'[t] = "idle" /\ toGateway'[t] = <<>> /\ cl'[t] = cl[t]
              /\ toClient'[t] = <<>>
          BY <1>a, <2>6, <3>2, <4>2, ShortWires DEF HeartbeatReply
        <4>4. After(t)
          BY <4>2, <4>3 DEF Talk, GatewayHears, Waiting
        <4> QED BY <1>c, <4>1, <4>4
      <3> QED BY <2>6, <3>1, <3>2 DEF HeartbeatReply
    <2>7. CASE HeartbeatFails(t)
      BY <1>d, <2>7 DEF HeartbeatFails, ManagerBreaks
    <2>8. CASE Activate(t)
      <3>1. Frame(t)
        BY <1>a, <2>8, <1>g DEF Frame, Activate
      <3>2. gw'[t] = "starting" /\ cl'[t] = cl[t] /\ toGateway'[t] = toGateway[t]
        BY <1>a, <2>8 DEF Activate
      <3>3. IdleTalk(t)
        BY <1>a, <1>b, <2>8 DEF Activate, IdleTalk, Talk, GatewayHears, Answered, Waiting, ClientStates
      <3>4. AskedTalk(t, "START")
        <4>1. /\ Append(<<>>, "START") = <<"START">>
              /\ Append(<<"AUTH_OK">>, "START") = <<"AUTH_OK", "START">>
          BY ShortWires
        <4>2. toClient' = Carried(toClient, cl, t, "START")
          BY <2>8 DEF Activate
        <4> QED BY <1>a, <3>3, <4>1, <4>2, <1>g DEF IdleTalk, AskedTalk
      <3>5. After(t)
        BY <3>2, <3>3, <3>4 DEF IdleTalk, AskedTalk, Talk, GatewayHears, Answered, Waiting
      <3> QED BY <1>c, <3>1, <3>5
    <2>9. CASE ActivationReply(t)
      <3>1. CASE GatewayCloses(t)
        BY <1>d, <2>9, <3>1 DEF ActivationReply
      <3>2. CASE /\ gw' = [gw EXCEPT ![t] = "given"] /\ Head(toGateway[t]) = "READY"
                 /\ toGateway' = [toGateway EXCEPT ![t] = Tail(@)]
        <4>1. Frame(t)
          BY <1>a, <2>9, <3>2 DEF Frame, ActivationReply
        <4>2. /\ gw[t] = "starting" /\ ReadyFirst(toGateway[t])
              /\ \/ cl[t] = "relay" /\ DataOnly(toClient[t])
                 \/ cl[t] = "closed" /\ toClient[t] = <<>>
          BY <1>a, <1>b, <2>9
          DEF ActivationReply, Talk, GatewayHears, Answered, Waiting, ClientStates
        <4>3. /\ gw'[t] = "given" /\ toGateway'[t] = Tail(toGateway[t]) /\ cl'[t] = cl[t]
              /\ toClient'[t] = toClient[t]
          BY <1>a, <2>9, <3>2 DEF ActivationReply
        <4>4. After(t)
          BY <4>2, <4>3 DEF Talk, GatewayHears, ReadyFirst
        <4> QED BY <1>c, <4>1, <4>4
      <3> QED BY <2>9, <3>1, <3>2 DEF ActivationReply, ActivationOk, ActivationErr
    <2>10. CASE ActivationFails(t)
      BY <1>d, <2>10 DEF ActivationFails, ActivationErr
    <2> QED BY <1>2, <2>1, <2>2, <2>3, <2>4, <2>5, <2>6, <2>7, <2>8, <2>9, <2>10
            DEF GatewayNext
  <1>3. ASSUME NEW p \in Publics, PublicNext(p) PROVE Conversation'
    <2>1. CASE ResponseTimeout(p)
      <3>1. CASE resp[p] = "ok"
        <4>1. wants[p] \in Tunnels
          BY <2>1 DEF ResponseTimeout, TypeOK
        <4> QED BY <1>d, <2>1, <3>1, <4>1 DEF ResponseTimeout
      <3>2. CASE resp[p] # "ok"
        BY <1>f, <2>1, <3>2 DEF ResponseTimeout
      <3> QED BY <3>1, <3>2
    <2>2. CASE RelayEnds(p)
      <3>1. wants[p] \in Tunnels
        BY <2>2 DEF RelayEnds, TypeOK
      <3> QED BY <1>d, <2>2, <3>1 DEF RelayEnds
    <2>3. CASE PublicWrites(p)
      <3> DEFINE t == wants[p]
      <3>0. t \in Tunnels /\ gw[t] = "given"
        BY <2>3 DEF PublicWrites, TypeOK, Ownership, PublicOwned
      <3> HIDE DEF t
      <3>1. /\ toClient' = Carried(toClient, cl, t, "DATA")
            /\ UNCHANGED <<gw, cl, toGateway, link>>
        BY <2>3 DEF PublicWrites, t
      <3>2. Frame(t)
        BY <1>a, <3>0, <3>1, <1>g DEF Frame
      <3>3. \/ cl[t] = "relay" /\ DataOnly(toClient[t])
            \/ cl[t] = "closed" /\ toClient[t] = <<>>
        BY <1>a, <1>b, <3>0 DEF Talk, Answered, Waiting, ClientStates
      <3>4. \/ cl[t] = "relay" /\ DataOnly(toClient'[t])
            \/ cl[t] = "closed" /\ toClient'[t] = <<>>
        <4>1. DataOnly(toClient[t]) => DataOnly(Append(toClient[t], "DATA"))
          BY <1>a, <3>0, DataWires
        <4>2. toClient'[t] = toClient[t] \/ toClient'[t] = Append(toClient[t], "DATA")
          BY <3>0, <3>1, <1>g
        <4>3. cl[t] = "closed" => toClient'[t] = toClient[t]
          BY <3>0, <3>1, <1>g
        <4> QED BY <3>3, <4>1, <4>2, <4>3
      <3>5. After(t)
        BY <1>b, <3>0, <3>1, <3>4 DEF Talk
      <3> QED BY <1>c, <3>0, <3>2, <3>5
    <2>4. CASE PublicReads(p)
      <3> DEFINE t == wants[p]
      <3>0. t \in Tunnels /\ gw[t] = "given"
        BY <2>4 DEF PublicReads, TypeOK, Ownership, PublicOwned
      <3> HIDE DEF t
      <3>1. /\ toGateway' = [toGateway EXCEPT ![t] = Tail(@)] /\ toGateway[t] # <<>>
            /\ UNCHANGED <<gw, cl, toClient, link>>
        BY <2>4 DEF PublicReads, t
      <3>2. Frame(t)
        BY <1>a, <3>0, <3>1 DEF Frame
      <3>3. /\ \/ cl[t] = "relay" /\ DataOnly(toClient[t])
               \/ cl[t] = "closed" /\ toClient[t] = <<>>
            /\ DataOnly(toGateway[t])
        BY <1>a, <1>b, <3>0 DEF Talk, GatewayHears, Answered, Waiting, ClientStates
      <3>4. DataOnly(toGateway'[t])
        BY <1>a, <3>0, <3>1, <3>3, DataWires
      <3>5. After(t)
        BY <3>0, <3>1, <3>3, <3>4 DEF Talk, GatewayHears
      <3> QED BY <1>c, <3>0, <3>2, <3>5
    <2>5. CASE UNCHANGED <<gw, cl, toClient, toGateway, link>>
      BY <1>f, <2>5
    <2> QED BY <1>3, <2>1, <2>2, <2>3, <2>4, <2>5
            DEF PublicNext, Accept, Acquire, Park, AcquireTimeout, Assign, ResponseOk, ResponseErr
  <1>4. ASSUME NEW t \in Tunnels, BreakLink(t) PROVE Conversation'
    <2>1. Frame(t)
      BY <1>a, <1>4 DEF Frame, BreakLink
    <2>2. /\ gw'[t] = gw[t] /\ cl'[t] = cl[t] /\ link'[t] = "down"
          /\ toClient'[t] = toClient[t] /\ toGateway'[t] = toGateway[t]
      BY <1>a, <1>4 DEF BreakLink
    <2>3. After(t)
      BY <1>b, <2>2 DEF Talk, Answered
    <2> QED BY <1>c, <2>1, <2>3
  <1>5. CASE UNCHANGED vars
    BY <1>f, <1>5 DEF vars
  <1> QED BY <1>1, <1>2, <1>3, <1>4, <1>5 DEF Next

\* WireClean is what Talk says of the ends that read.
LEMMA ConversationIsClean == TypeOK /\ Conversation => WireClean
  <1> SUFFICES ASSUME TypeOK, Conversation, NEW t \in Tunnels
               PROVE  /\ gw[t] = "given" => cl[t] \in {"relay", "closed"}
                      /\ gw[t] = "given" => DataOnly(toGateway[t])
                      /\ cl[t] = "relay" => DataOnly(toClient[t])
                      /\ cl[t] # "relay" => NoData(toClient[t])
                      /\ gw[t] = "pinging" /\ toGateway[t] # <<>> => Head(toGateway[t]) = "PONG"
                      /\ gw[t] = "starting" /\ toGateway[t] # <<>> =>
                           Head(toGateway[t]) = "READY"
                      /\ cl[t] = "waiting" /\ toClient[t] # <<>> =>
                           Head(toClient[t]) \in {"PING", "START"}
    BY DEF WireClean, StreamAcknowledged, DataPathClean, NoProtocolError
  <1>1. /\ gw[t] \in GatewayStates /\ cl[t] \in ClientStates
        /\ Talk(gw[t], cl[t], toClient[t], toGateway[t], link[t])
    BY DEF TypeOK, Conversation
  <1>2. gw[t] = "given" => cl[t] \in {"relay", "closed"} /\ DataOnly(toGateway[t])
    BY <1>1 DEF Talk, GatewayHears, Answered, Waiting, ClientStates
  <1>3. cl[t] = "relay" => DataOnly(toClient[t])
    BY <1>1 DEF Talk
  <1>4. cl[t] # "relay" => NoData(toClient[t])
    <2>1. cl[t] # "relay" =>
            toClient[t] \in {<<>>, <<"CHALLENGE">>, <<"AUTH_FAILED">>, <<"AUTH_OK">>, <<"PING">>,
                            <<"START">>, <<"AUTH_OK", "PING">>, <<"AUTH_OK", "START">>}
      BY <1>1 DEF Talk, Answered, Waiting, ClientStates, GatewayStates
    <2> QED BY <2>1 DEF NoData
  <1>5. gw[t] = "pinging" /\ toGateway[t] # <<>> => Head(toGateway[t]) = "PONG"
    BY <1>1, ShortWires DEF Talk, GatewayHears
  <1>6. gw[t] = "starting" /\ toGateway[t] # <<>> => Head(toGateway[t]) = "READY"
    BY <1>1 DEF Talk, GatewayHears, ReadyFirst
  <1>7. cl[t] = "waiting" /\ toClient[t] # <<>> => Head(toClient[t]) \in {"PING", "START"}
    <2>1. cl[t] = "waiting" /\ toClient[t] # <<>> => toClient[t] \in {<<"PING">>, <<"START">>}
      BY <1>1 DEF Talk, Waiting, GatewayStates
    <2> QED BY <2>1, ShortWires
  <1> QED BY <1>2, <1>3, <1>4, <1>5, <1>6, <1>7

\* The conversation of every tunnel is in order in every reachable state: it is
\* the inductive invariant of the tunnel protocol.
THEOREM ConversationsInOrder == Spec => []Conversation
  BY InitConversation, NextConversation, TypeCorrect, OwnershipHolds, PTL DEF Spec

\* The three protocol errors of nat_tunnel.rs are unreachable between a correct
\* client and a correct gateway, and no control byte is ever relayed as payload
\* nor payload taken for a command, whatever the links lose.
THEOREM WireStaysClean == Spec => []WireClean
  BY ConversationIsClean, ConversationsInOrder, TypeCorrect, PTL
=============================================================================
