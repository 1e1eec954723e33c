----------------------------- MODULE Hy2Server ------------------------------
(***************************************************************************)
(* run_until_with_traffic of server.rs: the accept loop of one generation  *)
(* of the proxy, the connection tasks it spawns, the reload that replaces  *)
(* it, and the traffic registry all generations share.                     *)
(*                                                                         *)
(* quinn (external) builds a congestion controller inside Incoming's       *)
(* accept, and once more when a client moves to another address.  The      *)
(* factory (brutal.rs) queues the controller's rate, and the loop gives    *)
(* the head of the queue to the connection it has just accepted; nothing   *)
(* else says whose rate it is.  authenticate_connection sets it.           *)
(***************************************************************************)
EXTENDS Integers, Sequences, FiniteSets

CONSTANTS
    Quics,        \* QUIC connections; reused once closed and their task has ended
    Tcps,         \* connections of the TCP listener; likewise
    Users,        \* names in configurations
    Rates,        \* the AtomicU64 of each controller; reused once nobody has it
    Entries,      \* UserTraffic objects; likewise
    ServerLimit,  \* bandwidth.up_mbps in bytes per second; 0: none
    ClientRates,  \* values of Hysteria-CC-RX; 0: none sent
    Strict,       \* ignore_client_bandwidth with a receive limit
    Refusals,     \* what quinn may refuse before it builds a controller
    MaxMoves,     \* bound on address changes of clients in a generation
    None

ASSUME Hy2ServerAssumption ==
    /\ Quics \cap Tcps = {} /\ Refusals \subseteq Quics
    /\ ServerLimit \in Nat /\ ClientRates \subseteq Nat /\ MaxMoves \in Nat
    /\ Strict \in BOOLEAN
    /\ None \notin Quics \cup Tcps \cup Users \cup Rates \cup Entries

Peers == Quics \cup Tcps

VARIABLES
    loop,      \* select; pair: awaits a rate or the handshake; owed: only a rate; down
    cur,       \* connection the loop is pairing
    asked,     \* the supervisor has asked the server to end
    users,     \* users of the running configuration
    queue,     \* Hy2CongestionConfig.pending_rates
    moves,     \* address changes in this generation
    link,      \* QUIC: away; waiting: Incoming; open: handshake; up; closed
    ctl,       \* rate of the controller of each connection
    bps,       \* value of each rate
    task,      \* none; connect: handshake; auth; answer: tells the client; ssh; serve
    known,     \* users the task was started with
    held,      \* rate the task was given
    deal,      \* the rate it negotiated
    name,      \* the user it authenticated
    entry,     \* the UserTraffic it counts in
    old,       \* tasks of earlier generations
    registry,  \* TrafficRegistry.users
    active     \* active_connections of each UserTraffic

loopVars == <<loop, cur, asked, users>>
rateVars == <<queue, moves, ctl, bps>>
taskVars == <<task, known, held, deal, name, entry, old>>
trafficVars == <<registry, active>>
vars == <<loopVars, rateVars, link, taskVars, trafficVars>>

TypeOK ==
    /\ loop \in {"select", "pair", "owed", "down"}
    /\ cur \in Quics \cup {None}
    /\ asked \in {"no", "yes"} /\ users \subseteq Users
    /\ queue \in Seq(Rates) /\ moves \in 0 .. MaxMoves
    /\ link \in [Quics -> {"away", "waiting", "open", "up", "closed"}]
    /\ ctl \in [Quics -> Rates \cup {None}]
    /\ bps \in [Rates -> Nat]
    /\ task \in [Peers -> {"none", "connect", "auth", "answer", "ssh", "serve"}]
    /\ known \in [Peers -> SUBSET Users]
    /\ held \in [Quics -> Rates \cup {None}]
    /\ deal \in [Quics -> Nat]
    /\ name \in [Peers -> Users \cup {None}]
    /\ entry \in [Peers -> Entries \cup {None}]
    /\ old \subseteq Peers
    /\ registry \in [Users -> Entries \cup {None}]
    /\ active \in [Entries -> Nat]

Init ==
    /\ loop = "down" /\ cur = None /\ asked = "no" /\ users = {}
    /\ queue = <<>> /\ moves = 0
    /\ link = [c \in Quics |-> "away"]
    /\ ctl = [c \in Quics |-> None] /\ bps = [r \in Rates |-> 0]
    /\ task = [p \in Peers |-> "none"] /\ known = [p \in Peers |-> {}]
    /\ held = [c \in Quics |-> None] /\ deal = [c \in Quics |-> 0]
    /\ name = [p \in Peers |-> None] /\ entry = [p \in Peers |-> None]
    /\ old = {}
    /\ registry = [u \in Users |-> None] /\ active = [e \in Entries |-> 0]

UsedRates == {queue[i] : i \in DOMAIN queue} \cup {ctl[c] : c \in Quics}
               \cup {held[c] : c \in Quics}
UsedEntries == {registry[u] : u \in Users} \cup {entry[p] : p \in Peers}

----------------------------------------------------------------------------
(* A generation of the server.                                              *)

\* sync_users: other users are dropped, the ones there are keep their entries.
Synced(us, r) ==
    /\ \A u \in Users \ us : r[u] = None
    /\ \A u \in us : IF registry[u] # None THEN r[u] = registry[u]
                                           ELSE r[u] \in Entries \ UsedEntries
    /\ \A u, v \in us : u # v => r[u] # r[v]

\* run_until_with_traffic syncs the users, and every task there is belongs to an
\* earlier generation from then on.
NextGeneration(us) ==
    /\ loop = "down" /\ asked' = "no"
    /\ \E r \in [Users -> Entries \cup {None}] : Synced(us, r) /\ registry' = r
    /\ old' = {p \in Peers : task[p] # "none"}
    /\ UNCHANGED <<cur, ctl, bps, link, task, known, held, deal, name, entry, active>>

\* The supervisor starts the next generation: the queue of rates is a new one, and
\* the listeners are bound, which fails while quinn still has connections on the
\* old socket.
Run(us) ==
    /\ NextGeneration(us)
    /\ \A c \in Quics : link[c] \notin {"waiting", "open", "up"}
    /\ loop' = "select" /\ users' = us
    /\ queue' = <<>> /\ moves' = 0

\* The certificate cannot be used or a listener not be bound: the users have been
\* synced all the same.
StartFails(us) == NextGeneration(us) /\ UNCHANGED <<loop, users, queue, moves>>

\* The supervisor asks for the end of the server.
AskReload ==
    /\ loop # "down" /\ asked = "no"
    /\ asked' = "yes"
    /\ UNCHANGED <<loop, cur, users, rateVars, link, taskVars, trafficVars>>

Closed(cs) ==
    /\ link' = [c \in Quics |-> IF c \in cs /\ link[c] # "away" THEN "closed" ELSE link[c]]
    /\ ctl' = [c \in Quics |-> IF c \in cs THEN None ELSE ctl[c]]

\* The loop sees the request only in its select: the endpoint is closed with all
\* its connections.
Shutdown ==
    /\ loop = "select" /\ asked = "yes"
    /\ loop' = "down"
    /\ Closed(Quics)
    /\ UNCHANGED <<cur, asked, users, queue, moves, bps, taskVars, trafficVars>>

\* The TCP listener fails to accept, and the server ends without closing anything.
ListenerFails ==
    /\ loop = "select"
    /\ loop' = "down"
    /\ UNCHANGED <<cur, asked, users, rateVars, link, taskVars, trafficVars>>

----------------------------------------------------------------------------
(* The accept loop and quinn.                                               *)

\* A client's first packet reaches the endpoint.
Incoming(c) ==
    /\ loop # "down" /\ link[c] \in {"away", "closed"} /\ task[c] = "none" /\ cur # c
    /\ link' = [link EXCEPT ![c] = "waiting"]
    /\ UNCHANGED <<loopVars, rateVars, taskVars, trafficVars>>

\* The factory builds a controller for c: its rate is 0 and joins the queue.
Built(c) ==
    \E r \in Rates \ UsedRates :
        /\ queue' = Append(queue, r)
        /\ ctl' = [ctl EXCEPT ![c] = r]
        /\ bps' = [bps EXCEPT ![r] = 0]

\* The loop takes the connection and quinn accepts it,
AcceptQuic(c) ==
    /\ loop = "select" /\ link[c] = "waiting"
    /\ Built(c)
    /\ link' = [link EXCEPT ![c] = "open"]
    /\ loop' = "pair" /\ cur' = c
    /\ UNCHANGED <<asked, users, moves, taskVars, trafficVars>>

\* or refuses it before there is a controller.
RefuseQuic(c) ==
    /\ loop = "select" /\ link[c] = "waiting" /\ c \in Refusals
    /\ Closed({c})
    /\ loop' = "pair" /\ cur' = c
    /\ UNCHANGED <<asked, users, queue, moves, bps, taskVars, trafficVars>>
\* Mutant of HandshakeFirst: a connection that failed is forgotten at once.
ForgetfulHandshakeFirst ==
    /\ loop = "pair" /\ link[cur] \in {"up", "closed"}
    /\ loop' = (IF link[cur] = "closed" THEN "select" ELSE "owed")
    /\ cur' = (IF link[cur] = "closed" THEN None ELSE cur)
    /\ UNCHANGED <<asked, users, rateVars, link, taskVars, trafficVars>>

\* The handshake ends or fails before the loop has taken a rate.
HandshakeFirst ==
    /\ loop = "pair" /\ link[cur] \in {"up", "closed"}
    /\ loop' = "owed"
    /\ UNCHANGED <<cur, asked, users, rateVars, link, taskVars, trafficVars>>

\* take_pending_rate: the head of the queue goes to the task of the connection.
Pair ==
    /\ loop \in {"pair", "owed"} /\ queue # <<>>
    /\ held' = [held EXCEPT ![cur] = Head(queue)]
    /\ queue' = Tail(queue)
    /\ task' = [task EXCEPT ![cur] = "connect"]
    /\ known' = [known EXCEPT ![cur] = users]
    /\ loop' = "select" /\ cur' = None
    /\ UNCHANGED <<asked, users, moves, ctl, bps, link, deal, name, entry, old, trafficVars>>

\* The handshake is completed.
Establish(c) ==
    /\ link[c] = "open"
    /\ link' = [link EXCEPT ![c] = "up"]
    /\ UNCHANGED <<loopVars, rateVars, taskVars, trafficVars>>

\* The client moves to another address and quinn starts over with a new controller.
Move(c) ==
    /\ link[c] = "up" /\ moves < MaxMoves
    /\ Built(c)
    /\ moves' = moves + 1
    /\ UNCHANGED <<loopVars, link, taskVars, trafficVars>>

\* The client goes away, or the handshake fails.
Leave(c) ==
    /\ link[c] \in {"open", "up"}
    /\ Closed({c})
    /\ UNCHANGED <<loopVars, queue, moves, bps, taskVars, trafficVars>>

----------------------------------------------------------------------------
(* Connection tasks.                                                        *)

Connected(c) ==
    /\ task[c] = "connect" /\ c \in Quics /\ link[c] = "up"
    /\ task' = [task EXCEPT ![c] = "auth"]
    /\ UNCHANGED <<loopVars, rateVars, link, known, held, deal, name, entry, old, trafficVars>>

Negotiated(rx) ==
    CASE rx = 0 -> 0
      [] rx # 0 /\ ServerLimit = 0 -> rx
      [] OTHER -> IF rx < ServerLimit THEN rx ELSE ServerLimit

\* Mutant of Authenticate: the rate is set before the request is checked.
HastyAuthenticate(c, u, rx) ==
    /\ task[c] = "auth" /\ link[c] = "up"
    /\ bps' = [bps EXCEPT ![held[c]] = Negotiated(rx)]
    /\ UNCHANGED <<loopVars, queue, moves, ctl, link, taskVars, trafficVars>>

\* A request authenticate_connection accepts: the rate the task holds is set.
\* Every other request is answered by the masquerade and changes nothing.
Authenticate(c, u, rx) ==
    /\ task[c] = "auth" /\ link[c] = "up"
    /\ u \in known[c] /\ ~(Strict /\ rx = 0)
    /\ bps' = [bps EXCEPT ![held[c]] = Negotiated(rx)]
    /\ deal' = [deal EXCEPT ![c] = Negotiated(rx)]
    /\ name' = [name EXCEPT ![c] = u]
    /\ task' = [task EXCEPT ![c] = "answer"]
    /\ UNCHANGED <<loopVars, queue, moves, ctl, link, known, held, entry, old, trafficVars>>

\* user and connection of the registry: the entry is found, or made although the
\* user may have been dropped since, and the connection is counted in it.
Counted(p, u) ==
    \E e \in (IF registry[u] # None THEN {registry[u]} ELSE Entries \ UsedEntries) :
        /\ registry' = [registry EXCEPT ![u] = e]
        /\ entry' = [entry EXCEPT ![p] = e]
        /\ active' = [active EXCEPT ![e] = @ + 1]

\* The client has been answered; its streams and datagrams are served.
Serve(c) ==
    /\ task[c] = "answer"
    /\ Counted(c, name[c])
    /\ task' = [task EXCEPT ![c] = "serve"]
    /\ UNCHANGED <<loopVars, rateVars, link, known, held, deal, name, old>>

\* A TCP connection is accepted; its task is not tied to the generation.
AcceptTcp(t) ==
    /\ loop = "select" /\ task[t] = "none"
    /\ task' = [task EXCEPT ![t] = "connect"]
    /\ known' = [known EXCEPT ![t] = users]
    /\ UNCHANGED <<loopVars, rateVars, link, held, deal, name, entry, old, trafficVars>>

\* It turns out to be SSH, which is relayed and not counted,
ServeSsh(t) ==
    /\ task[t] = "connect"
    /\ task' = [task EXCEPT ![t] = "ssh"]
    /\ UNCHANGED <<loopVars, rateVars, link, known, held, deal, name, entry, old, trafficVars>>

\* or a VLESS request of a user the task knows.
ServeVless(t, u) ==
    /\ task[t] = "connect" /\ u \in known[t]
    /\ Counted(t, u)
    /\ name' = [name EXCEPT ![t] = u]
    /\ task' = [task EXCEPT ![t] = "serve"]
    /\ UNCHANGED <<loopVars, rateVars, link, known, held, deal, old>>

\* Mutant of Uncounted: the count is not taken back.
StickyUncounted(p) == UNCHANGED active

\* ActiveConnection::drop.
Uncounted(p) ==
    active' = IF entry[p] = None THEN active ELSE [active EXCEPT ![entry[p]] = @ - 1]

\* A task ends when its connection has, when the client breaks the protocol, or
\* with an error; the connection goes with it.
End(p) ==
    /\ task[p] # "none"
    /\ Uncounted(p)
    /\ task' = [task EXCEPT ![p] = "none"]
    /\ known' = [known EXCEPT ![p] = {}]
    /\ name' = [name EXCEPT ![p] = None]
    /\ entry' = [entry EXCEPT ![p] = None]
    /\ old' = old \ {p}
    /\ \/ /\ p \in Quics
          /\ held' = [held EXCEPT ![p] = None]
          /\ deal' = [deal EXCEPT ![p] = 0]
          /\ Closed({p})
       \/ p \in Tcps /\ UNCHANGED <<held, deal, link, ctl>>
    /\ UNCHANGED <<loopVars, queue, moves, bps, registry>>

QuicNext(c) ==
    \/ Incoming(c) \/ AcceptQuic(c) \/ RefuseQuic(c)
    \/ Establish(c) \/ Move(c) \/ Leave(c)
    \/ Connected(c) \/ Serve(c)
    \/ \E u \in Users, rx \in ClientRates : Authenticate(c, u, rx)

TcpNext(t) == AcceptTcp(t) \/ ServeSsh(t) \/ \E u \in Users : ServeVless(t, u)

Next ==
    \/ \E us \in SUBSET Users : Run(us) \/ StartFails(us)
    \/ AskReload \/ Shutdown \/ ListenerFails \/ HandshakeFirst \/ Pair
    \/ \E c \in Quics : QuicNext(c)
    \/ \E t \in Tcps : TcpNext(t)
    \/ \E p \in Peers : End(p)

Spec == Init /\ [][Next]_vars

\* The loop runs when it can.  Its select polls a random branch first, so that a
\* request to end is not starved by connections that keep coming.
Fairness == WF_vars(Pair) /\ SF_vars(Shutdown)

FairSpec == Spec /\ Fairness

----------------------------------------------------------------------------
(* Properties.                                                              *)

\* "HY2 bandwidth negotiation with dynamic BBR/Brutal congestion control": as
\* long as no client has moved, the controller of a connection runs at the rate
\* its own client negotiated, and at none (BBR) before, however handshakes,
\* failures and authentications overlap.
RateApplied ==
    moves = 0 => \A c \in Quics :
        task[c] # "none" /\ link[c] = "up" => bps[ctl[c]] = deal[c]

\* The queue is not a leak: between two connections it holds one rate for each
\* move of a client, and none for connections that failed.
QueueDrained == loop = "select" => Len(queue) <= moves

\* What the WebUI shows as a user's connections: as many as count in the entry
\* shown, and every connection of the running generation counts there.
ConnectionsShown ==
    /\ \A e \in UsedEntries \ {None} :
         active[e] = Cardinality({p \in Peers : task[p] = "serve" /\ entry[p] = e})
    /\ \A p \in Peers \ old : task[p] = "serve" => entry[p] = registry[name[p]]

\* "All protocol services reload without restarting the management process": a
\* server that was asked to end does.
ReloadCompletes == asked = "yes" ~> loop = "down"
=============================================================================
