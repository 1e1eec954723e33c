----------------------------- MODULE NatTunnel -----------------------------
(***************************************************************************)
(* The reverse TCP entry of nat_tunnel.rs: a gateway that keeps a pool of  *)
(* authenticated idle tunnels, the NAT-side workers that open them, and    *)
(* the public connections that each take one tunnel out of the pool.       *)
(*                                                                         *)
(* A tunnel is one TCP connection between a client worker and the gateway. *)
(* It has a gateway end (the task that authenticates it, then the manager  *)
(* manage_idle_tunnel, then the public connection that owns the stream), a *)
(* client end (client_session), and one FIFO wire in each direction.  The  *)
(* runtime is multi-threaded, so tasks interleave between any two steps.   *)
(*                                                                         *)
(* The pool is a VecDeque of handles.  It is kept here as the set idle and *)
(* the relation ahead: ahead[t] are the tunnels that were in the pool when *)
(* t was pushed, so that the front is the member with nobody left ahead.   *)
(***************************************************************************)
EXTENDS Integers, Sequences, FiniteSets

CONSTANTS
    Tunnels,      \* identities of tunnel connections; reused once forgotten
    Publics,      \* identities of public connections; reused once closed
    Capacity,     \* TunnelPool.capacity
    PoolSize,     \* workers of the client (ClientOptions.pool_size)
    MaxAttempts,  \* candidates one public connection tries (8 in the code)
    MaxWire,      \* bound: bytes of one direction the model keeps in flight
    None          \* no tunnel, no public connection

ASSUME ConstantsAssumption ==
    /\ IsFiniteSet(Tunnels)
    /\ Capacity \in Nat \ {0}
    /\ PoolSize \in Nat \ {0}
    /\ MaxAttempts \in Nat \ {0}
    /\ MaxWire \in Nat \ {0}
    /\ None \notin Tunnels \cup Publics

VARIABLES
    gw,        \* gateway end of each tunnel
    cl,        \* client end of each tunnel
    toClient,  \* bytes on the way from the gateway end to the client end
    toGateway, \* bytes on the way from the client end to the gateway end
    link,      \* the NAT mapping still carries the connection
    live,      \* tunnels whose IdleTunnel.alive is true
    idle,      \* members of TunnelPool.idle
    ahead,     \* order of TunnelPool.idle
    queue,     \* the one slot of each tunnel's assignment channel
    serving,   \* the assignment a manager has received and not yet answered
    permit,    \* the one permit a tokio Notify can store
    pc,        \* where each public connection is in serve_public_connection
    wants,     \* the candidate, then the stream, of each public connection
    resp,      \* value in the oneshot a public connection waits on
    attempts   \* candidates taken so far

gatewayVars == <<gw, live, queue, serving>>
wireVars    == <<toClient, toGateway, link>>
poolVars    == <<idle, ahead, permit>>
publicVars  == <<pc, wants, resp, attempts>>
vars == <<gatewayVars, cl, wireVars, poolVars, publicVars>>

Control == {"CHALLENGE", "AUTH_OK", "AUTH_FAILED", "PING", "START"}
Reply   == {"MAC_OK", "MAC_BAD", "PONG", "READY"}

\* closed: no socket; auth: gateway_authenticate; admit: authenticated, not
\* yet in the pool; pushed: in the pool, manager not yet spawned; idle: at the
\* manager's select; pinging, starting: waiting for PONG, for READY; given: the
\* stream is in the response channel or owned by a public connection.
GatewayStates ==
    {"closed", "auth", "admit", "pushed", "idle", "pinging", "starting", "given"}

\* auth: waiting for the challenge; answered: for the verdict; waiting: for an
\* assignment; dialing: connecting to the local proxy; relay: copying.
ClientStates == {"closed", "auth", "answered", "waiting", "dialing", "relay"}

\* off: not connected; check: about to lock the pool; park: pool found empty,
\* lock released, notified() not yet polled; parked: registered with Notify;
\* send: holds a candidate; await: assignment sent; relay: copying.
PublicStates == {"off", "check", "park", "parked", "send", "await", "relay"}

ToClientWires  == [Tunnels -> Seq(Control \cup {"DATA"})]
ToGatewayWires == [Tunnels -> Seq(Reply \cup {"DATA"})]
Orders         == [Tunnels -> SUBSET Tunnels]

TypeOK ==
    /\ gw \in [Tunnels -> GatewayStates]
    /\ cl \in [Tunnels -> ClientStates]
    /\ toClient \in ToClientWires
    /\ toGateway \in ToGatewayWires
    /\ link \in [Tunnels -> {"up", "down"}]
    /\ live \in SUBSET Tunnels
    /\ idle \in SUBSET Tunnels
    /\ ahead \in Orders
    /\ queue \in [Tunnels -> Publics \cup {None}]
    /\ serving \in [Tunnels -> Publics \cup {None}]
    /\ permit \in {0, 1}
    /\ pc \in [Publics -> PublicStates]
    /\ wants \in [Publics -> Tunnels \cup {None}]
    /\ \A p \in Publics : pc[p] \in {"send", "await", "relay"} => wants[p] \in Tunnels
    /\ resp \in [Publics -> {"none", "ok", "err"}]
    /\ attempts \in [Publics -> 0 .. MaxAttempts]

Init ==
    /\ gw = [t \in Tunnels |-> "closed"]
    /\ cl = [t \in Tunnels |-> "closed"]
    /\ toClient = [t \in Tunnels |-> <<>>]
    /\ toGateway = [t \in Tunnels |-> <<>>]
    /\ link = [t \in Tunnels |-> "up"]
    /\ live = {}
    /\ idle = {}
    /\ ahead = [t \in Tunnels |-> {}]
    /\ queue = [t \in Tunnels |-> None]
    /\ serving = [t \in Tunnels |-> None]
    /\ permit = 0
    /\ pc = [p \in Publics |-> "off"]
    /\ wants = [p \in Publics |-> None]
    /\ resp = [p \in Publics |-> "none"]
    /\ attempts = [p \in Publics |-> 0]

----------------------------------------------------------------------------
(* The TCP connection: a byte written is on the wire unless the NAT mapping *)
(* is gone or the other end has closed; a closed end discards what it had   *)
(* not read.                                                                *)

Carried(wire, other, t, byte) ==
    IF link[t] = "up" /\ other[t] # "closed"
      THEN [wire EXCEPT ![t] = Append(@, byte)]
      ELSE wire

\* The gateway end drops the stream.
GatewayCloses(t) ==
    /\ gw' = [gw EXCEPT ![t] = "closed"]
    /\ toGateway' = [toGateway EXCEPT ![t] = <<>>]

\* client_session returns; client_worker will open another session later.
ClientCloses(t) ==
    /\ cl' = [cl EXCEPT ![t] = "closed"]
    /\ toClient' = [toClient EXCEPT ![t] = <<>>]

\* A read of the client end fails: keepalive gave up, or the peer has closed.
ClientReadFails(t) == link[t] = "down" \/ gw[t] = "closed"

\* The NAT mapping of an open connection disappears: later bytes are lost.
BreakLink(t) ==
    /\ gw[t] # "closed" /\ cl[t] # "closed" /\ link[t] = "up"
    /\ link' = [link EXCEPT ![t] = "down"]
    /\ UNCHANGED <<gatewayVars, cl, toClient, toGateway, poolVars, publicVars>>

----------------------------------------------------------------------------
(* Client workers.                                                          *)

\* Nobody refers to this connection any more, so its identity can be reused.
Forgotten(t) ==
    /\ gw[t] = "closed" /\ cl[t] = "closed"
    /\ t \notin idle
    /\ \A p \in Publics : wants[p] # t

\* A free worker connects; run_gateway accepts the stream and spawns the task
\* that begins gateway_authenticate by writing the challenge.
Connect(t) ==
    /\ Forgotten(t)
    /\ Cardinality({u \in Tunnels : cl[u] # "closed"}) < PoolSize
    /\ cl' = [cl EXCEPT ![t] = "auth"]
    /\ gw' = [gw EXCEPT ![t] = "auth"]
    /\ toClient' = [toClient EXCEPT ![t] = <<"CHALLENGE">>]
    /\ toGateway' = [toGateway EXCEPT ![t] = <<>>]
    /\ link' = [link EXCEPT ![t] = "up"]
    /\ UNCHANGED <<live, queue, serving, poolVars, publicVars>>

\* client_authenticate answers the challenge, with the right token or not.
ClientAnswers(t) ==
    /\ cl[t] = "auth" /\ toClient[t] # <<>>
    /\ toClient' = [toClient EXCEPT ![t] = Tail(@)]
    /\ \E mac \in {"MAC_OK", "MAC_BAD"} :
         toGateway' = Carried(toGateway, gw, t, mac)
    /\ cl' = [cl EXCEPT ![t] = "answered"]
    /\ UNCHANGED <<gatewayVars, link, poolVars, publicVars>>

\* client_authenticate reads the verdict.
ClientAdmitted(t) ==
    /\ cl[t] = "answered" /\ toClient[t] # <<>>
    /\ \/ /\ Head(toClient[t]) = "AUTH_OK"
          /\ toClient' = [toClient EXCEPT ![t] = Tail(@)]
          /\ cl' = [cl EXCEPT ![t] = "waiting"]
       \/ /\ Head(toClient[t]) # "AUTH_OK"
          /\ ClientCloses(t)
    /\ UNCHANGED <<gatewayVars, toGateway, link, poolVars, publicVars>>

\* client_session reads one command byte: PING, START, or an invalid one.
ClientCommand(t) ==
    /\ cl[t] = "waiting" /\ toClient[t] # <<>>
    /\ \/ /\ Head(toClient[t]) = "PING"
          /\ toClient' = [toClient EXCEPT ![t] = Tail(@)]
          /\ toGateway' = Carried(toGateway, gw, t, "PONG")
          /\ UNCHANGED cl
       \/ /\ Head(toClient[t]) = "START"
          /\ toClient' = [toClient EXCEPT ![t] = Tail(@)]
          /\ cl' = [cl EXCEPT ![t] = "dialing"]
          /\ UNCHANGED toGateway
       \/ /\ Head(toClient[t]) \notin {"PING", "START"}
          /\ ClientCloses(t)
          /\ UNCHANGED toGateway
    /\ UNCHANGED <<gatewayVars, link, poolVars, publicVars>>

\* The local proxy answers: READY is written and copying begins.
ClientReady(t) ==
    /\ cl[t] = "dialing"
    /\ toGateway' = Carried(toGateway, gw, t, "READY")
    /\ cl' = [cl EXCEPT ![t] = "relay"]
    /\ UNCHANGED <<gatewayVars, toClient, link, poolVars, publicVars>>

\* The session ends: a read of the tunnel fails, the local proxy refuses or
\* times out, or the local side of the relay ends.
ClientEnds(t) ==
    /\ \/ cl[t] \in {"dialing", "relay"}
       \/ cl[t] \in {"auth", "answered", "waiting"} /\ ClientReadFails(t)
    /\ ClientCloses(t)
    /\ UNCHANGED <<gatewayVars, toGateway, link, poolVars, publicVars>>

----------------------------------------------------------------------------
(* Gateway: authentication and registration.                                *)

\* gateway_authenticate reads the response and writes its verdict.
GatewayAuthenticates(t) ==
    /\ gw[t] = "auth" /\ toGateway[t] # <<>>
    /\ \/ /\ Head(toGateway[t]) = "MAC_OK"
          /\ gw' = [gw EXCEPT ![t] = "admit"]
          /\ toGateway' = [toGateway EXCEPT ![t] = Tail(@)]
          /\ toClient' = Carried(toClient, cl, t, "AUTH_OK")
       \/ /\ Head(toGateway[t]) # "MAC_OK"
          /\ GatewayCloses(t)
          /\ toClient' = Carried(toClient, cl, t, "AUTH_FAILED")
    /\ UNCHANGED <<cl, link, live, queue, serving, poolVars, publicVars>>

\* A read of gateway_authenticate fails: it has no timeout of its own.
GatewayAuthFails(t) ==
    /\ gw[t] = "auth"
    /\ link[t] = "down" \/ cl[t] = "closed"
    /\ GatewayCloses(t)
    /\ UNCHANGED <<cl, toClient, link, live, queue, serving, poolVars, publicVars>>

\* What retain leaves of the pool under the lock.
Retained == idle \cap live
\* Mutant of Register: the capacity check is off by one.
CrowdedRegister(t) ==
    /\ gw[t] = "admit"
    /\ Cardinality(Retained) <= Capacity
    /\ idle' = Retained \cup {t}
    /\ ahead' = [u \in Tunnels |-> IF u = t THEN Retained ELSE ahead[u] \ {t}]
    /\ live' = live \cup {t}
    /\ gw' = [gw EXCEPT ![t] = "pushed"]
    /\ UNCHANGED <<cl, toClient, toGateway, link, queue, serving, permit, publicVars>>

\* TunnelPool.register under the lock: refuse when full, else push_back.
Register(t) ==
    /\ gw[t] = "admit"
    /\ \/ /\ Cardinality(Retained) >= Capacity
          /\ idle' = Retained
          /\ GatewayCloses(t)
          /\ UNCHANGED <<live, ahead>>
       \/ /\ Cardinality(Retained) < Capacity
          /\ idle' = Retained \cup {t}
          /\ ahead' = [u \in Tunnels |->
                         IF u = t THEN Retained ELSE ahead[u] \ {t}]
          /\ live' = live \cup {t}
          /\ gw' = [gw EXCEPT ![t] = "pushed"]
          /\ UNCHANGED toGateway
    /\ UNCHANGED <<cl, toClient, link, queue, serving, permit, publicVars>>

\* Notify::notify_one wakes one registered waiter, else stores its permit.
NotifyOne ==
    LET parked == {p \in Publics : pc[p] = "parked"}
    IN  \/ /\ parked = {}
           /\ permit' = 1
           /\ UNCHANGED pc
        \/ /\ \E p \in parked : pc' = [pc EXCEPT ![p] = "check"]
           /\ UNCHANGED permit

\* The end of register: after the lock is released, notify and spawn.
Announce(t) ==
    /\ gw[t] = "pushed"
    /\ NotifyOne
    /\ gw' = [gw EXCEPT ![t] = "idle"]
    /\ UNCHANGED <<cl, wireVars, live, idle, ahead, queue, serving,
                   wants, resp, attempts>>

----------------------------------------------------------------------------
(* Gateway: manage_idle_tunnel.                                             *)

\* The oneshot sender of p's assignment to t is dropped unanswered.
DropAssignment(t, p) ==
    resp' = IF p # None /\ pc[p] = "await" /\ wants[p] = t
              THEN [resp EXCEPT ![p] = "err"]
              ELSE resp
\* Mutant of ManagerBreaks: the handle stays alive.
UnmarkedManagerBreaks(t) ==
    /\ GatewayCloses(t)
    /\ DropAssignment(t, queue[t])
    /\ queue' = [queue EXCEPT ![t] = None]
    /\ UNCHANGED <<live, serving>>

\* The manager leaves its loop without an assignment: the handle is marked
\* dead, the channel goes with the assignment queued in it, the stream closes.
ManagerBreaks(t) ==
    /\ GatewayCloses(t)
    /\ live' = live \ {t}
    /\ DropAssignment(t, queue[t])
    /\ queue' = [queue EXCEPT ![t] = None]
    /\ UNCHANGED serving

\* The heartbeat branch of the select writes PING.
Heartbeat(t) ==
    /\ gw[t] = "idle"
    /\ toClient' = Carried(toClient, cl, t, "PING")
    /\ gw' = [gw EXCEPT ![t] = "pinging"]
    /\ UNCHANGED <<cl, toGateway, link, live, queue, serving, poolVars, publicVars>>

\* The answer to PING: only PONG keeps the tunnel.
HeartbeatReply(t) ==
    /\ gw[t] = "pinging" /\ toGateway[t] # <<>>
    /\ \/ /\ Head(toGateway[t]) = "PONG"
          /\ toGateway' = [toGateway EXCEPT ![t] = Tail(@)]
          /\ gw' = [gw EXCEPT ![t] = "idle"]
          /\ UNCHANGED <<live, queue, serving, resp>>
       \/ /\ Head(toGateway[t]) # "PONG"
          /\ ManagerBreaks(t)
    /\ UNCHANGED <<cl, toClient, link, poolVars, pc, wants, attempts>>
\* Mutant of HeartbeatFails: the answer is waited for without a timeout.
PatientHeartbeatFails(t) ==
    /\ gw[t] = "pinging" /\ cl[t] = "closed"
    /\ ManagerBreaks(t)
    /\ UNCHANGED <<cl, toClient, link, poolVars, pc, wants, attempts>>

\* No answer within CONNECT_TIMEOUT, or the stream fails.
HeartbeatFails(t) ==
    /\ gw[t] = "pinging"
    /\ ManagerBreaks(t)
    /\ UNCHANGED <<cl, toClient, link, poolVars, pc, wants, attempts>>

\* The assignment branch of the select receives an assignment, writes START.
Activate(t) ==
    /\ gw[t] = "idle" /\ queue[t] # None
    /\ serving' = [serving EXCEPT ![t] = queue[t]]
    /\ queue' = [queue EXCEPT ![t] = None]
    /\ toClient' = Carried(toClient, cl, t, "START")
    /\ gw' = [gw EXCEPT ![t] = "starting"]
    /\ UNCHANGED <<cl, toGateway, link, live, poolVars, publicVars>>

\* The activation failed: the handle dies and the waiter is told so.
ActivationErr(t) ==
    /\ GatewayCloses(t)
    /\ live' = live \ {t}
    /\ DropAssignment(t, serving[t])
    /\ serving' = [serving EXCEPT ![t] = None]
    /\ UNCHANGED <<queue, pc, wants, attempts>>
\* Mutant of ActivationOk: READY stays in the stream that is handed over.
PeekingActivationOk(t) ==
    LET p == serving[t]
    IN  /\ pc[p] = "await" /\ wants[p] = t
        /\ live' = live \ {t}
        /\ serving' = [serving EXCEPT ![t] = None]
        /\ resp' = [resp EXCEPT ![p] = "ok"]
        /\ gw' = [gw EXCEPT ![t] = "given"]
        /\ UNCHANGED <<toGateway, queue, pc, wants, attempts>>

\* READY: the handle dies and the stream goes to the waiter, if it still waits.
ActivationOk(t) ==
    LET p == serving[t]
    IN  /\ live' = live \ {t}
        /\ serving' = [serving EXCEPT ![t] = None]
        /\ \/ /\ pc[p] = "await" /\ wants[p] = t
              /\ resp' = [resp EXCEPT ![p] = "ok"]
              /\ gw' = [gw EXCEPT ![t] = "given"]
              /\ toGateway' = [toGateway EXCEPT ![t] = Tail(@)]
           \/ /\ ~(pc[p] = "await" /\ wants[p] = t)
              /\ GatewayCloses(t)
              /\ UNCHANGED resp
        /\ UNCHANGED <<queue, pc, wants, attempts>>

\* The answer to START: only READY activates the tunnel.
ActivationReply(t) ==
    /\ gw[t] = "starting" /\ toGateway[t] # <<>>
    /\ \/ Head(toGateway[t]) = "READY" /\ ActivationOk(t)
       \/ Head(toGateway[t]) # "READY" /\ ActivationErr(t)
    /\ UNCHANGED <<cl, toClient, link, poolVars>>

\* No answer within CONNECT_TIMEOUT, or the stream fails.
ActivationFails(t) ==
    /\ gw[t] = "starting"
    /\ ActivationErr(t)
    /\ UNCHANGED <<cl, toClient, link, poolVars>>

----------------------------------------------------------------------------
(* Public connections: serve_public_connection and TunnelPool.acquire.      *)

\* run_gateway accepts a public connection and spawns its task.
Accept(p) ==
    /\ pc[p] = "off"
    /\ pc' = [pc EXCEPT ![p] = "check"]
    /\ attempts' = [attempts EXCEPT ![p] = 1]
    /\ UNCHANGED <<gatewayVars, cl, wireVars, poolVars, wants, resp>>
\* Mutant of Acquire: the front is read and not popped.
PeekingAcquire(p) ==
    /\ pc[p] = "check"
    /\ \E t \in Retained :
         /\ ahead[t] \cap Retained = {}
         /\ wants' = [wants EXCEPT ![p] = t]
    /\ idle' = Retained
    /\ pc' = [pc EXCEPT ![p] = "send"]
    /\ UNCHANGED <<gatewayVars, cl, wireVars, ahead, permit, resp, attempts>>

\* acquire under the lock: retain, then pop_front or find the pool empty.
Acquire(p) ==
    /\ pc[p] = "check"
    /\ \/ \E t \in Retained :
            /\ ahead[t] \cap Retained = {}
            /\ idle' = Retained \ {t}
            /\ wants' = [wants EXCEPT ![p] = t]
            /\ pc' = [pc EXCEPT ![p] = "send"]
       \/ /\ Retained = {}
          /\ idle' = {}
          /\ pc' = [pc EXCEPT ![p] = "park"]
          /\ UNCHANGED wants
    /\ UNCHANGED <<gatewayVars, cl, wireVars, ahead, permit, resp, attempts>>

\* notified.await is polled: it takes the stored permit or registers a waiter.
Park(p) ==
    /\ pc[p] = "park"
    /\ pc' = [pc EXCEPT ![p] = IF permit = 1 THEN "check" ELSE "parked"]
    /\ permit' = 0
    /\ UNCHANGED <<gatewayVars, cl, wireVars, idle, ahead, wants, resp, attempts>>

\* Nothing of the attempt is kept when the task ends.
PublicCloses(p) ==
    /\ pc' = [pc EXCEPT ![p] = "off"]
    /\ wants' = [wants EXCEPT ![p] = None]
    /\ resp' = [resp EXCEPT ![p] = "none"]
    /\ attempts' = [attempts EXCEPT ![p] = 0]

\* IDLE_TUNNEL_TIMEOUT elapses while acquire is suspended: on notified(), or on
\* the lock (held by another task, or the task's cooperative budget is spent),
\* when a wakeup it had already consumed is lost with it.
AcquireTimeout(p) ==
    /\ pc[p] \in {"check", "parked"}
    /\ PublicCloses(p)
    /\ UNCHANGED <<gatewayVars, cl, wireVars, poolVars>>
\* Mutant of Retry: one attempt too many.
ExtraRetry(p) ==
    \/ attempts[p] > MaxAttempts /\ PublicCloses(p)
    \/ /\ attempts[p] <= MaxAttempts
       /\ attempts' = [attempts EXCEPT ![p] = @ + 1]
       /\ pc' = [pc EXCEPT ![p] = "check"]
       /\ wants' = [wants EXCEPT ![p] = None]
       /\ resp' = [resp EXCEPT ![p] = "none"]

\* The attempt failed: give up after MaxAttempts, else acquire again.
Retry(p) ==
    \/ attempts[p] >= MaxAttempts /\ PublicCloses(p)
    \/ /\ attempts[p] < MaxAttempts
       /\ attempts' = [attempts EXCEPT ![p] = @ + 1]
       /\ pc' = [pc EXCEPT ![p] = "check"]
       /\ wants' = [wants EXCEPT ![p] = None]
       /\ resp' = [resp EXCEPT ![p] = "none"]

\* The assignment goes into the candidate's channel, unless its manager has
\* already dropped the receiver.
Assign(p) ==
    LET t == wants[p]
    IN  /\ pc[p] = "send"
        /\ \/ /\ gw[t] # "closed" /\ queue[t] = None
              /\ queue' = [queue EXCEPT ![t] = p]
              /\ pc' = [pc EXCEPT ![p] = "await"]
              /\ UNCHANGED <<wants, resp, attempts>>
           \/ /\ gw[t] = "closed"
              /\ Retry(p)
              /\ UNCHANGED queue
        /\ UNCHANGED <<gw, live, serving, cl, wireVars, poolVars>>

\* The manager answered: with the stream, or with an error (or not at all).
ResponseOk(p) ==
    /\ pc[p] = "await" /\ resp[p] = "ok"
    /\ pc' = [pc EXCEPT ![p] = "relay"]
    /\ resp' = [resp EXCEPT ![p] = "none"]
    /\ UNCHANGED <<gatewayVars, cl, wireVars, poolVars, wants, attempts>>

ResponseErr(p) ==
    /\ pc[p] = "await" /\ resp[p] = "err"
    /\ Retry(p)
    /\ UNCHANGED <<gatewayVars, cl, wireVars, poolVars>>
\* Mutant of ResponseTimeout: the response is awaited without a timeout.
PatientResponse(p) ==
    /\ pc[p] = "await" /\ resp[p] = "err"
    /\ Retry(p)
    /\ UNCHANGED <<gatewayVars, cl, wireVars, poolVars>>

\* CONNECT_TIMEOUT elapses on the response: the receiver is dropped, and with
\* it a stream that arrived at the same moment.
ResponseTimeout(p) ==
    /\ pc[p] = "await"
    /\ Retry(p)
    /\ IF resp[p] = "ok" THEN GatewayCloses(wants[p])
                         ELSE UNCHANGED <<gw, toGateway>>
    /\ UNCHANGED <<live, queue, serving, cl, toClient, link, poolVars>>

\* copy_bidirectional returns: both streams are dropped.
RelayEnds(p) ==
    /\ pc[p] = "relay"
    /\ GatewayCloses(wants[p])
    /\ PublicCloses(p)
    /\ UNCHANGED <<live, queue, serving, cl, toClient, link, poolVars>>

----------------------------------------------------------------------------
(* Data: both relays copy in both directions.                               *)

PublicWrites(p) ==
    LET t == wants[p]
    IN  /\ pc[p] = "relay" /\ Len(toClient[t]) < MaxWire
        /\ toClient' = Carried(toClient, cl, t, "DATA")
        /\ UNCHANGED <<gatewayVars, cl, toGateway, link, poolVars, publicVars>>

PublicReads(p) ==
    LET t == wants[p]
    IN  /\ pc[p] = "relay" /\ toGateway[t] # <<>>
        /\ toGateway' = [toGateway EXCEPT ![t] = Tail(@)]
        /\ UNCHANGED <<gatewayVars, cl, toClient, link, poolVars, publicVars>>

ClientWrites(t) ==
    /\ cl[t] = "relay" /\ Len(toGateway[t]) < MaxWire
    /\ toGateway' = Carried(toGateway, gw, t, "DATA")
    /\ UNCHANGED <<gatewayVars, cl, toClient, link, poolVars, publicVars>>

ClientReads(t) ==
    /\ cl[t] = "relay" /\ toClient[t] # <<>>
    /\ toClient' = [toClient EXCEPT ![t] = Tail(@)]
    /\ UNCHANGED <<gatewayVars, cl, toGateway, link, poolVars, publicVars>>

----------------------------------------------------------------------------
ClientNext(t) ==
    \/ Connect(t) \/ ClientAnswers(t) \/ ClientAdmitted(t) \/ ClientCommand(t)
    \/ ClientReady(t) \/ ClientEnds(t) \/ ClientWrites(t) \/ ClientReads(t)

GatewayNext(t) ==
    \/ GatewayAuthenticates(t) \/ GatewayAuthFails(t) \/ Register(t) \/ Announce(t)
    \/ Heartbeat(t) \/ HeartbeatReply(t) \/ HeartbeatFails(t)
    \/ Activate(t) \/ ActivationReply(t) \/ ActivationFails(t)

PublicNext(p) ==
    \/ Accept(p) \/ Acquire(p) \/ Park(p) \/ AcquireTimeout(p) \/ Assign(p)
    \/ ResponseOk(p) \/ ResponseErr(p) \/ ResponseTimeout(p) \/ RelayEnds(p)
    \/ PublicWrites(p) \/ PublicReads(p)

Next ==
    \/ \E t \in Tunnels : ClientNext(t) \/ GatewayNext(t) \/ BreakLink(t)
    \/ \E p \in Publics : PublicNext(p)

Spec == Init /\ [][Next]_vars

\* The behaviours in which no acquire timer has fired yet.
SpecBeforeTimeout ==
    Init /\ [][Next /\ ~\E p \in Publics : AcquireTimeout(p)]_vars

\* Tasks that can run are scheduled and timers fire.  Nothing is assumed of
\* the clients, of the network or of the local proxy.  The acquire timer is
\* absolute, while its task moves between suspended and running: strong.
Fairness ==
    /\ \A p \in Publics :
         /\ WF_vars(Acquire(p)) /\ WF_vars(Park(p)) /\ WF_vars(Assign(p))
         /\ WF_vars(ResponseOk(p)) /\ WF_vars(ResponseErr(p))
         /\ WF_vars(ResponseTimeout(p))
         /\ SF_vars(AcquireTimeout(p))
    /\ \A t \in Tunnels :
         /\ WF_vars(Register(t)) /\ WF_vars(Announce(t))
         /\ WF_vars(Heartbeat(t)) /\ WF_vars(HeartbeatFails(t))
         /\ WF_vars(ActivationFails(t))

FairSpec == Spec /\ Fairness

----------------------------------------------------------------------------
(* Properties.                                                              *)

\* "Each incoming proxy connection receives one dedicated tunnel": a tunnel
\* taken by a public connection (acquire) is nobody else's candidate or stream
\* and cannot be taken again, whatever timeouts and retries overlap.
DedicatedTunnel ==
    \A p \in Publics : wants[p] # None =>
        /\ wants[p] \notin idle
        /\ \A q \in Publics \ {p} : wants[q] # wants[p]

\* TunnelPool never holds more than capacity handles, dead ones included.
PoolBounded == Cardinality(idle) <= Capacity

\* The assignment channel of a candidate has room: the mpsc channel of one slot
\* in IdleTunnel never makes serve_public_connection wait to send.
AssignmentHasRoom ==
    \A p \in Publics : pc[p] = "send" => queue[wants[p]] = None

\* An assignment is never forgotten: while a public connection waits without an
\* answer, its assignment is in the channel or in the hands of a manager that
\* still has to answer it.
AssignmentPending ==
    \A p \in Publics : pc[p] = "await" /\ resp[p] = "none" =>
        queue[wants[p]] = p \/ serving[wants[p]] = p

\* Who holds what, over the whole life of a tunnel: handles in the pool have no
\* assignment yet, a live handle has a manager, a manager answers exactly the
\* assignment it took, and a stream that was handed out has an owner.
Managed == {"pushed", "idle", "pinging"}
TunnelOwned(t) ==
    /\ t \in live <=> gw[t] \in Managed \cup {"starting"}
    /\ t \in idle => gw[t] \in Managed \cup {"closed"} /\ queue[t] = None
    /\ queue[t] # None => gw[t] \in Managed
    /\ serving[t] # None <=> gw[t] = "starting"
    /\ gw[t] = "given" => \E p \in Publics : wants[p] = t
PublicOwned(p) ==
    /\ wants[p] # None <=> pc[p] \in {"send", "await", "relay"}
    /\ wants[p] # None =>
         /\ wants[p] \notin idle
         /\ gw[wants[p]] \notin {"auth", "admit"}
         /\ \A q \in Publics : q # p => wants[q] # wants[p]
    /\ pc[p] = "send" =>
         gw[wants[p]] \in Managed \cup {"closed"} /\ queue[wants[p]] = None
    /\ resp[p] # "none" => pc[p] = "await"
    /\ pc[p] = "await" =>
         \/ resp[p] = "none" /\ p \in {queue[wants[p]], serving[wants[p]]}
         \/ resp[p] = "ok" /\ gw[wants[p]] = "given"
         \/ resp[p] = "err" /\ gw[wants[p]] = "closed"
    /\ pc[p] = "relay" => gw[wants[p]] = "given"
Ownership ==
    /\ \A t \in Tunnels : TunnelOwned(t)
    /\ \A p \in Publics : PublicOwned(p)

\* Assignment acknowledgement: a stream reaches the data path only after this
\* very tunnel's client dialled the local proxy and began to copy.
StreamAcknowledged ==
    \A t \in Tunnels : gw[t] = "given" => cl[t] \in {"relay", "closed"}

DataOnly(wire) == \A i \in 1 .. Len(wire) : wire[i] = "DATA"
NoData(wire)   == \A i \in 1 .. Len(wire) : wire[i] # "DATA"

\* No control byte is ever copied as payload by either relay, and no payload
\* byte is ever taken for a command: heartbeats, late answers and payload share
\* one stream and the code only tells them apart by when it reads.
DataPathClean ==
    \A t \in Tunnels :
        /\ gw[t] = "given" => DataOnly(toGateway[t])
        /\ cl[t] = "relay" => DataOnly(toClient[t])
        /\ cl[t] # "relay" => NoData(toClient[t])

\* Between a correct client and a correct gateway the three protocol errors of
\* nat_tunnel.rs (invalid command, invalid heartbeat response, invalid ready
\* response) are unreachable: an answer always belongs to the last question.
NoProtocolError ==
    \A t \in Tunnels :
        /\ gw[t] = "pinging" /\ toGateway[t] # <<>> => Head(toGateway[t]) = "PONG"
        /\ gw[t] = "starting" /\ toGateway[t] # <<>> => Head(toGateway[t]) = "READY"
        /\ cl[t] = "waiting" /\ toClient[t] # <<>> =>
             Head(toClient[t]) \in {"PING", "START"}

\* The protocol of a tunnel as a whole: what the gateway and the client read
\* from their wires is always what the other side meant it to be.
WireClean == StreamAcknowledged /\ DataPathClean /\ NoProtocolError

\* Every accepted public connection is relayed or closed: neither dying
\* tunnels nor lost wakeups nor endless retries keep it in limbo.
PublicResolved ==
    \A p \in Publics : pc[p] # "off" ~> pc[p] \in {"relay", "off"}

\* A handle whose NAT session is gone stops being offered to new connections.
StaleTunnelExpires ==
    \A t \in Tunnels : t \in live /\ link[t] = "down" ~> t \notin live
=============================================================================
