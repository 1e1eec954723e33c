# A TLA+ model of the HY2 proxy server

This directory holds a verification development of the Rust server in `src/`:
TLA+ modules translated from the code, TLC configurations that check them on
small instances, and TLAPS proofs of what matters most for every size. File and
line references below are to `src/src/*.rs`; `PROJECT.json` maps each definition
to the lines it stands for.

    tlc -workers 2 -config NatTunnelSafety.cfg MCNatTunnel    # a run
    tlapm NatTunnelProofs.tla                                 # a proof

## The system

One process serves two jobs. The *proxy service* (`server.rs`, `tcp_server.rs`,
`vless_server.rs`, `nat_tunnel.rs`) relays clients to the Internet; the
*management service* (`admin.rs`) edits its configuration, restarts it and hands
out subscription links. Tasks run on a multi-threaded tokio runtime, so any two
of them interleave wherever one awaits, unlocks or simply is preempted.

| component | state | operations | interacts with | hard because | module |
|---|---|---|---|---|---|
| NAT tunnel (`nat_tunnel.rs`) | pool of idle tunnels, one manager task, one-slot channel and heartbeat per tunnel, oneshot per assignment | register, acquire, heartbeat, assign, activate, relay, retry | workers over TCP; reverse proxy controller starts it | timeouts race late answers, the NAT mapping vanishes silently, heartbeats and payload share one stream | `NatTunnel` |
| Reverse proxy controller (`reverse_proxy.rs`) | settings in memory and in a file, tunnel task, status, node tracker | update, save, restart, result of the task | PUT handlers, NAT tunnel | overlapping requests, handlers dropped half way, a task that fails while it is replaced | `ReverseProxy` |
| HY2 UDP reassembly (`protocol/udp.rs`) | table of incomplete packets | `push_at` | UDP sessions | loss, duplication, reordering, reused ids, a full table | `UdpReassembler` |
| HY2 UDP sessions (`server.rs` 556-695) | session table, receive task, socket, packet id and captured datagram limit per session, expiry channel | datagram in, datagram out as fragments, expire | QUIC connection, reassembly, codecs | expirations arrive late, tasks end while their session is in use, the path MTU changes under a session | `UdpSessions`, `UdpPath` |
| HY2 server (`server.rs` 47-560, `brutal.rs` 22-75) | accept loop, queue of rates, connection tasks, users of the generation | accept, pair, authenticate, serve, shut down | quinn, supervisor, traffic registry, TCP server | rates are paired with connections by order alone; old tasks outlive a reload | `Hy2Server` |
| Traffic registry (`server.rs` 47-130) | counters per user | `sync_users`, `user`, `connection`, drop | all connection tasks, WebUI | shared between generations | `Hy2Server` |
| Supervisor and configuration (`admin.rs` 198-345, 641-694, `config.rs` 196-214) | configuration file, command channel, `write_lock`, status | put, reload, save, load, receive | server, handlers | a save outlives its handler and its lock; a server may not see that it is to end | `AdminSupervisor` |
| Administrator accounts (`admin.rs` 762-842, 1319-1452) | credentials file, `credentials_lock` | add, change, delete, reset on the command line | handlers, another process | load-change-write, crashes in between, a reset that takes no lock | `Credentials` |
| Short links (`sublink.rs` 313-485, 610-827) | links in memory, links in a file | shorten, shorten_hy2, shorten_auto, look up | public routes, WebUI | capacity and expiry together, a file rewritten in place | `ShortStore` |
| TCP relay, TCP server, VLESS, SSH (`server.rs` 697-871, `tcp_server.rs`, `vless_server.rs`) | per connection: what was read, two buffers | sniff, handshake, read a request, connect, answer, relay, half close | clients, destinations, outbound, traffic registry | headers in pieces, early payload, ends and resets in any order | `TcpStream`; accounting across reloads in `Hy2Server` |
| Outbound (`outbound.rs`) | mode | resolve and order addresses, connect, open UDP | TCP relay, UDP sessions | fallback between families | `TcpStream` |
| Codecs (`protocol/varint.rs`, `udp.rs` 40-182, `tcp.rs`), Salamander | none | encode, decode, fragment, mask, unmask | UDP sessions, TCP relay, quinn's socket | widths and counts at their limits | `Wire` |
| WebUI sessions (`admin.rs` 436-484, 1084-1179) | none: signed tokens | login, authorise | accounts, browser | nothing on the server withdraws a token but the file | `AdminSessions` |
| Boot service (`startup.rs`, `admin.rs` 696-745) | service file, boot link, `startup_lock` | install, uninstall, status | WebUI, init system | several privileged commands, each of which may fail; a job outlives its lock | `Startup` |
| Converter text formats, Brutal's arithmetic, masquerade, configuration schema, WebUI, scripts | none, or data only | | | | not modelled |

What makes each correct: no tunnel is used twice and no public connection waits
for ever; the settings that run are those in memory and the status tells the
truth; a datagram is never made of two; an id is never left without its receive
task; a connection sends at the rate its own client negotiated; a saved
configuration is loaded; nobody is locked out and a session ends with its
password; a user's link keeps working; a stream comes out as it went in, whole;
a reply packet decodes to what the remote host sent; the boot entry is what was
reported.

## The modules

Every component is one module, with the state as `VARIABLES`, one action per
handler or step and its properties at the end; `MC*.tla` adds symmetry and bounds for TLC.
`TempFile` is the write-and-rename idiom three components share, instantiated
by `ReverseProxy`, `AdminSupervisor` and `Credentials`. Operators that begin
with *Mutant of* are wrong versions of the definition that follows; with one put
in place of the other, TLC must find the property that is about it violated.

**NatTunnel.** A tunnel has a gateway end `gw`, a client end `cl` and a wire each
way. `Connect` to `GatewayAuthenticates` are the handshake; `Register` and
`Announce` are `register` on both sides of its unlock (197); `Heartbeat*` and
`Activate`, `Activation*` are the branches of `manage_idle_tunnel`; `Accept` to
`RelayEnds` are `acquire` and `serve_public_connection`. `BreakLink` is a NAT
mapping that goes without a word. The pool's `VecDeque` is a set and the relation
`ahead`. Payload is one kind of byte, `DATA`; keys and names are left out.

**UdpReassembler.** `PushFragment`, `PushWhole`, `PushMismatch` and
`PushOutOfRange` are the ways through `push_at`. A fragment is the tag of the
message it belongs to; the client may start a new message under a key whenever
the old entry is past the timeout or has another shape. (Its definitions are
`TableInit`, `TableNext`, `TableSpec`, so that `DataPathProofs` can extend it
together with `UdpPath` and `TcpStream`.) Fragments of an *older*
message of the same key and shape that arrive within the timeout are not
modelled: nothing in the protocol tells them apart.

**UdpSessions.** The loop of `serve_udp_datagrams` (`Datagram`, `Opened`, `Sent`,
`Expire`, `LoopEnds`) against the receive tasks (`Task*`). A session is an object,
so that a stale reference to an old session of the same id is visible.

**UdpPath** extends `UdpSessions` and `Wire`: the contents of the packets of one
session, `Watched`, from its socket to the client's decoder. `WatchedOpened`
captures the connection's datagram limit, `WatchedReceives` encodes a packet,
`WatchedQueues` and `WatchedSends` hand its fragments to the connection one by
one, and `MtuChanges` happens in between. Every other step is one of
`UdpSessions`; that the whole implements `UdpSessions` with its fairness is a
property of the run. A QUIC packet is wider than the datagram it
carries; here it is the datagram, several of which make one transmit.

**Wire.** Operators for `varint.rs`, `tcp.rs`, `udp.rs` and Salamander, over bytes
that are digits to the base `Base`, 256 in the code, 8 in the runs and any multiple
of four in the proofs. The four widths of a varint are kept, so to the base 8 an
address of two bytes already has a two-byte length and 8 fragments are one too
many. `LengthsFit` says of the limits what 62 bits say of them in the code. Recursion
is written with recursive functions, so that the codecs can be proved about. Salamander's key stream is a perfect one: a byte masked with one salt at
one place is restored by that salt at that place only.

**TcpStream.** One stream, of one of the scenarios an MC module lists: a HY2
stream or a TCP connection, what its client will send, the SSH setting, the
outbound mode, the addresses the resolver returns and what the destination
answers. The peers send their bytes in any pieces, end or reset at any time.
`Sniff` to `ReadEarly` are the headers, `Connect*` and `OpenUdp` the outbound,
`Up*` and `Down*` the two loops under `try_join!`, `Udp*` the packets of VLESS.
A header is read in one step, once what has arrived decides it: reading one has
no effect before. A reader (`read_u8`, `read_varint`, `read_exact`) goes on where the
one before it stopped. `ScenariosAssumption` says that what a scenario calls the
payload of a client is what its bytes say, by `TcpRequest::decode` or the VLESS
header; it is not said that the server reads it so. (Its definitions are
`StreamInit`, `StreamNext`, `StreamSpec`, for the same reason.) `Fails` is a handler that returns an error and drops its
streams, of which quinn finishes a dropped send stream and TLS cuts it.

**AdminSessions** extends `Credentials` with one token: `login` issues it, `Tick`
ages it, and `authorize` admits the requests of `Credentials` by service token,
cookie or password. The hash is taken for a perfect one. `withdrawn` records that a
change of the token's account was completed, unless a reset overlapped it.

**Startup.** `Request`, `Lock`, `Disconnect` and `Reply` are the two handlers; the
job on its blocking thread goes through the commands of `install` or
`uninstall`, each of which may fail with or without its effect. The service
file is what this process would render, what another one rendered, incomplete,
or absent; what is rendered into it is left out. `install` is taken never to leave
its target missing. `Restart` may change the arguments, after which the file may be
stale.

**Hy2Server.** `NextGeneration` to `ListenerFails` are a generation (`StartFails` is
one that has synced the users and then finds no certificate or port); `AcceptQuic`,
`RefuseQuic`, `HandshakeFirst` and `Pair` are the accept loop around
`take_pending_rate`; `Authenticate` stores the rate; `Counted` and `Uncounted`
are the registry. quinn is external: it builds a controller inside `accept`,
again when a client moves to another address, and may refuse a first packet
before it builds one.

**ReverseProxy.** A PUT handler goes through the steps of `update`, `save` and
`restart`; `Disconnect` drops it at an await; `Task*` is the tunnel task that is
aborted, fails and records; `Tunnel*`, `Ping` and `Pong` are the tunnels a relay
accepted (`gateway`), which have tasks of their own. `torn` marks the time between a
dropped handler and the next full restart; what the code does then is the subject of
`SavedSettingsRun`.

**AdminSupervisor.** `Put` to `Send` are the handlers, `Job*` the save on its
blocking thread; `Load`, `SetStatus`, `Spawn`, `Receive` and `RecordResult` are the
loop of `run`, with the status set before the spawn (257-287) and the end of the
server recorded after it (302-303). The server is up, ended, or stuck: in its accept
loop, by the finding on `Hy2Server`, where it does not see that it is told to end.

**Credentials.** `Lock`, `LoadAndChange` and `Write*` are the handlers and the
command line, down to the system calls. A reset takes no lock and overlaps whatever
it meets; the history variable `clashed` is "yes" from such an overlap until nobody
writes and the file is whole again.

**ShortStore.** One action per call. The save is `Persist`, which truncates the file,
`PersistCut`, by which a part of it is on the disk, and `PersistDone` or
`PersistFails`. A part is unreadable, or some of the links, the last of them perhaps
without its expiry or with one whose digits were cut; since the order of the links is
left out, it may be any of them. The history variables `written` and `loads` say
whether the last save completed and whether every process started from such a
save. `Evicted` is the result of the whole loop (417-436). `Retain` is a recursive
function, so that it can be reasoned about. Times are the seconds left. Which of two
links that expire in the same second is evicted is left open.

## The runs

| run | instance | states | shows |
|---|---|---|---|
| `nat_tunnel_safety` | 2 tunnels, 2 public connections, pool of 1, 2 attempts, 2 bytes per wire | 978 510 | `DedicatedTunnel`, `PoolBounded`, `Ownership`: who has a tunnel; `WireClean`: what its wires carry |
| `nat_tunnel_liveness` | 1 tunnel, 2 public connections | 15 848 | `PublicResolved`, `StaleTunnelExpires` |
| `udp_reassembler` | 3 keys, table of 2, 2 fragments, timeout of 2 | 126 256 | `TableBounded`, `NoMixedMessage` |
| `udp_path` | 2 ids, 2 objects, 2 MTUs, 2 sources, packets of 0 to 17 bytes | 36 624 | `SessionsConsistent`, `EndedSessionRemoved`, `SocketsReleased`, `ImplementsSessions`: sessions and tasks; `ReplyWhole`, `LimitRenewed`: packets and fragments |
| `tcp_stream` | 8 HY2 and 15 TCP clients, with and without SSH, 3 modes, 4 addresses | 269 939 | `Faithful`, `CarriedWhole`, `Fallback`; `StreamReleased` |
| `hy2_server` | 2 QUIC, 1 TCP connection, 1 user who comes and goes, 1 move, any number of reloads | 212 274 | `RateApplied`, `QueueDrained`, `ConnectionsShown` |
| `hy2_server_reload` | the same, no move | 41 067 | violated: `ReloadCompletes` |
| `reverse_proxy` | 2 requests, a relay and a disabled setting, 2 tasks, 1 tunnel | 954 362 | `LatestRuns`, `StatusTruthful`, `OneTunnel`, `RelayNodesCounted` |
| `admin_supervisor` | 2 handlers, 2 configurations, channel of 1, 3 files | 91 132 | `ReloadComing`, `StatusTruthful`, `AttendedIntact`; `EveryRequestAnswered` |
| `credentials` | 2 users, 2 passwords, 2 requests, 1 reset, 1 session, 3 files | 409 893 | `SomebodyCanLogIn`, `OthersPreserved`; `SessionWithdrawn` |
| `startup` | 2 requests, both init systems and none | 286 209 | `LinkHasFile`, `OutcomeTrue`, `RequestsAnswered` |
| `short_links` | 1 user's link, 3 converter links in a store of 2, TTL of 2 | 550 827 | `Bounded`, `UserLinksServed`, `FresherKept` |

Two of a kind are enough for the races: the code's locks, channels and queues
relate a pair of actors, and a third (the third key for a full table, the third
converter link for an eviction) is there where a property needs one. Two users are enough in
`credentials`: the one who is asked for and one who must not change; the theorems are
about any number. The overlap of a reset with a change is followed there to its end
while no further request waits for the lock (`ClashEndsFirst`), which bounds the run;
the theorems have no such bound. In `admin_supervisor` configurations and files are
permuted, which is sound for its temporal property too, as neither that nor any of the
fairness conditions names one; without symmetry and with two files the same run visits
280 192 states and finds no error. An eviction of two links at once, which takes a fourth converter
link after a start from a cut file, is in the proofs only. Two session
objects are enough because an id is opened again only once the expiration of its
last session was handled. Packets of 14, 15 and 17 bytes are at and over the
fragment count and the size a message may have, and the smaller MTU leaves no
room behind the longer address. Identities are reused, so behaviours are
unbounded in length; the only bounds on them are bytes in flight (`MaxWire`), the
bytes of a scenario, attempts, moves and the free objects. Deadlock is checked
except where the system may stop: a closed QUIC connection, a stream that has
ended, an accept loop or a start that fails for good.

### Fairness

The server's own tasks are scheduled (weak fairness), blocking threads and
commands come to an end, and timers fire. Strong fairness stands for tokio's FIFO
mutexes and channels (`PutLock`, `Send`, `Startup`'s `Lock`), for a timer that
keeps running while its task is woken (`AcquireTimeout`), and for `select!`, which
picks among ready branches at random (`Expire`, `Shutdown`, and `ServerEnds` of a
server that was told to end: it does unless it stays stuck, which nothing excludes). In `TcpStream` a
connect or a write that is under way ends, with success or an error. Nothing is
assumed of peers: a worker may never answer, a client or a remote host may stay
silent or stay for ever.

### What the code does otherwise than documented

* `hy2_server_reload`: a first packet that quinn refuses before it builds a
  congestion controller leaves the accept loop in `take_pending_rate` (server.rs
  226), where it sees neither connections nor the shutdown of a reload.

Six more statements are violated by what the code does. They are written down beside
the properties that do hold, and each has a configuration of its own with which TLC
finds the behaviour:

| statement | `tlc -config` ... | of |
|---|---|---|
| `AlwaysAnswered` | `AdminSupervisorStuck.cfg` | `MCAdminSupervisor` |
| `SavesAtomic` | `AdminSupervisorSaves.cfg` | `MCAdminSupervisor` |
| `SavedSettingsRun` | `ReverseProxyDropped.cfg` | `MCReverseProxy` |
| `DisablingCloses` | `ReverseProxyDisabled.cfg` | `MCReverseProxy` |
| `ResetPreserves` | `CredentialsReset.cfg` | `MCCredentials` |
| `LinksSurvive` | `ShortStoreCut.cfg` | `MCShortStore` |

* `AlwaysAnswered` ("all protocol services reload without restarting the management
  process", README.md 75-76): the supervisor awaits such a server without a timeout
  (admin.rs 300, 327). It takes no more commands from the channel, and once that is
  full the next `put_config` waits with `write_lock` held.
  `EveryRequestAnswered` is what holds: nothing else makes a request wait for ever.
* `SavesAtomic` ("atomic saves", README.md 75): a save whose client
  disconnects runs on without `write_lock`, and shares the temporary name with the
  next save: the rename of the first puts in place what the second has truncated.
* `SavedSettingsRun` ("Saving an enabled configuration starts or replaces the
  tunnel", README.md 155): `update` stores the settings before it restarts the tunnel;
  a handler dropped in between leaves the old tunnel or none, and the same PUT again
  finds nothing changed and restarts nothing.
* `DisablingCloses` ("disabling it closes the listeners and workers", README.md
  156): `restart` aborts the task of `run_gateway` only. The managers of the tunnels it
  had accepted (nat_tunnel.rs 198) hold the sender of their own channel and go on with
  their heartbeats, and one that was still authenticating joins the tracker after it
  was cleared.
* `ResetPreserves` ("preserves all other accounts", README.md 58-60): a reset on the
  command line beside a running service writes back the accounts it loaded, and so
  undoes a change made meanwhile; as both use one temporary name, it can also put an
  empty or a mixed file in place, with which nobody can log in.
* `LinksSurvive` ("survive process restarts", README.md 176-177; "User IPv4/IPv6
  links are permanent", 200): the links' file is truncated and written in place
  (sublink.rs 461). A process that ends there, or a full disk, leaves a file that does
  not parse, with which no process starts, or, where the cut happens to be between two
  links, one without the others, with which it does. `UserLinksServed` is what holds.

One more is not stated as a property: README.md 19 says
that VLESS UDP is rejected; the code forwards it (vless_server.rs, `serve_udp`), and so
does `TcpStream`.

Known limits the passing runs state as conditions, by a history variable where they
are not visible in the state (`torn`, `shared`, `clashed`, `written`, `loads`): a client that moves to
another address leaves a rate in the queue, and later connections take each
other's (`RateApplied` holds until then, `QueueDrained` counts them); `AttendedIntact`
holds while no save was cut off from its lock (`torn` is "no"); two overlapping updates of the reverse proxy may leave one request's
settings in the file and the other's in memory, and share a temporary name;
`SomebodyCanLogIn`, `OthersPreserved` and `SessionWithdrawn` hold while no reset
overlaps another change (`clashed` is "no"); a converter link that lost its expiry in
a cut file is not counted, and when it is refreshed the store may hold one link more
than its capacity (`Bounded` holds while `loads` is "all"); two startup jobs, the first of which lost its client and with it the
lock, share a temporary name and may leave a boot link without its file
(`LinkHasFile` holds while `torn` is false); `read_tcp_request` waits for a first
piece of payload before it connects or answers (server.rs 771), so a HY2 client
that waits for the response first is not served until it ends its side
(`StreamReleased`); a HY2 stream whose relay fails is finished by quinn as if it
had ended in order, so a client cannot tell a cut answer from a whole one
(`CarriedWhole` speaks of relays that do not fail); a request by a user with a
valid id but without the rest of its header is waited for without a timeout
(vless_server.rs 77); a failing accept of the TCP listener ends a generation
whose QUIC connections keep the port (server.rs 192); two tunnels that register between a waiter's look
at the pool and its first poll of `notified()` wake one waiter of two, the other
is served or closed at the latest when its timer fires (`PublicResolved`).

## The proofs

Every safety invariant and action property the passing runs check is also proved for every
value of the constants. The constants have to satisfy the named `ASSUME`s of the modules: finite
sets where something is counted, positive limits and timeouts, kinds of things that
are not each other (`None` is no member of anything, handlers are not resets, QUIC
peers not TCP peers, a user's code no converter's: both are digests of different
texts), and in `Wire` a base of at least 8 that four divides and limits whose varints
exist.

* `NatTunnelProofs`: `TypeCorrect`; `PoolNeverOverflows`, inductive with the types
  alone; `OwnershipHolds`. `Ownership` is the inductive invariant: for each tunnel,
  which of pool, channel, manager, response and relay has it, and for each public
  connection, where its candidate is. `DedicatedTunnel` alone is not inductive:
  that a connection may retry safely needs that an assignment it gave up is still
  known to be in the channel or with the manager. `TunnelIsDedicated`,
  `AssignmentNeverBlocks` (the one-slot channel is empty when it is sent to) and
  `AssignmentNotForgotten` follow from it. `WireStaysClean` needs more:
  `ConversationsInOrder` shows `Conversation`, which says for every pair of states
  of the two ends exactly what the two wires may hold (`Talk`), with what a link
  that broke has swallowed; the `IdleTalk` and `AskedTalk` forms of it are what a
  heartbeat and an assignment start from.
* `DataPathProofs`, the codecs: by induction in the form of `SetInduction` (a set with
  0 that is closed under successor has all naturals), what the recursive functions
  and `FlattenSeq` compute step by step; from it that the decoders undo the encoders.
  `FromToBytes` and `DecodeVarint` are about numbers, `ReadWritten` and
  `MessageDecodes` about fields and whole messages, `ChunksOfFlat` and `FlatOfChunks`
  about segments and pieces, `Unmasked` and `ReceivedWhole` about Salamander,
  `RequestReads`, `PrefixReads` and `HeaderReads` about headers of which only a part
  has arrived: a reader that is content with a part reads the same from the whole and
  leaves the rest of it. `RequestDecodes` says that `read_tcp_request`, field by
  field, finds what `TcpRequest::decode` finds.
* `DataPathProofs`, the streams: `StreamInvariant` shows `StreamIInv`, of five parts
  beside the types. `Placed`: where the server is says how much of the header lies
  behind it and what kind of destination it may have. `Uploads` and `Downloads`: what
  was written, what is in the buffer and what is not yet read make up the payload (or
  the response and the answer), and the counters agree with it; after a failure, what
  was written is a prefix. `UdpUploads`: the packets sent are the first of the
  client's, and the bytes left follow the last of them. `Tries`: the addresses tried
  are the first of `order_addresses`. `StreamFaithful`, `StreamCarriedWhole` and
  `FallbackHolds` follow. None of the three is inductive: that a prefix was written
  says nothing of the next piece unless one knows what the buffer holds and where
  the reader stands, and that depends on the header having been read to its end.
  That order_addresses gives each allowed address once, IPv4 first, is
  `OrderedAddresses`.
* `DataPathProofs`, the reassembler: `TableTypeCorrect`; `MessagesNeverMix`, by
  `EntriesPure` (the fragments of an entry are of one message, the current one if
  the entry has not expired and has its shape); `TableNeverOutgrows`, by counting.
* `DataPathProofs`, the sessions: `TypeCorrect`; `Consistent` for `SessionsConsistent`,
  which is inductive with the types; `NoBlackHole`, `OneTaskPerId` and
  `NoStaleExpiration` follow. `PathImplementsSessions` is the refinement: each
  step of `UdpPath` is a step of `UdpSessions` or leaves its variables alone, so
  `PathConsistent` carries the invariant over.
* `DataPathProofs`, the replies: `PathInvariant` shows `PathIInv`: the packet that is
  relayed encodes with the id of its session and the limit the session captured, and
  the fragments queued followed by those left are what it encodes to. From it and
  `SessionsConsistent` (the id belongs to this session, or the connection is over),
  `PathReplyWhole`: what a client unmasks, cuts and decodes is the packet. `ReplyWhole`
  alone is not inductive, as it does not say that the fragments were encoded with
  what the session knows.
* `ReverseProxyProofs`: `TasksAgree` shows `TaskInv`: only the holder of the task
  mutex touches the slot, a task leaves the slot only once it was told to stop, the
  request that changed the settings last has its restart still to do, and the
  status is that of the slot. `LatestSettingsRun`, `StatusIsTrue` and
  `NoSecondTunnel` follow; none of them is inductive, because each speaks of
  moments when no restart is half way. `NodesOfRelayCounted`: the tracker is cleared
  only under the task mutex, once the task that had the slot was told to stop, and
  the gateway of a tunnel is a task that still lives or nobody (`GatewayLives`).
* `AdminSupervisorProofs`: `SavesAgree` shows `SaveInv`: while no save was cut off
  from its lock, the one save there can be is that of the holder of `write_lock`
  and has the temporary file to itself; a file that was renamed has its command in
  the channel or a handler about to send it. `FileIntact` and `NoLostReload`
  follow. `StatusIsTrue`, by `ServerWatched`: where the supervisor is says whether
  there is a server and what the status shows.
* `CredentialsProofs`, of accounts and sessions together: `AccountsAgree` shows
  `AccountsInv`: the lock has one holder, and while no reset overlaps another change
  one writer at a time is between its load and its rename, so the accounts it changed
  are still those in the file when its own replace them.
  `NobodyLockedOut` and the action property `ChangesOneAccount` follow;
  `SessionEndsWithPassword` adds that a withdrawn token's user has another password
  in the file.
* `Hy2ServerProofs`: `QueueBounded`: the queue holds one rate per move and that of
  the connection being paired, from which `QueueNeverLeaks`; `RateIsOwn`, by
  `RateInv` (every connection has a controller of its own, and while nobody has
  moved the one rate in the queue is that of the connection being paired);
  `ConnectionsAreShown`, by counting the tasks that refer to an entry.
* `ShortStoreProofs`: `StoreConsistent` shows `StoreInv`: users' links have no
  expiry, in memory and in every part of a file that can be read (`CutIsSorted`), and
  what a user was answered is in memory and in the file, as far as the process runs,
  the last save completed and no call for that user is under way. From it
  `UsersAreServed`; `StoreIsBounded`, with the bound also of the file a restart loads,
  where converter links all have an expiry (`Timed`) until a cut takes one; and the
  action property `EvictsTheOldest`.
  What the recursive `Retain` returns is shown by induction over the naturals, again
  with `SetInduction`.
* `StartupProofs`: `JobsAlone` shows `JobsOwnDisk`: a job that has not been joined by
  another one owns service file, link and temporary file, so that what each of its
  commands established still holds at the next. `NoDanglingLink` and `SuccessTrue`
  follow.

Each module also proves its `TypeOK`, with what a request or a task carries in
each of its steps (`Carrying`, `Counting`, `PairPlace`), without which types are not
inductive.

Only model-checked:

* liveness (`PublicResolved`, `StaleTunnelExpires`, `EndedSessionRemoved`,
  `SocketsReleased`, `LimitRenewed`, `EveryRequestAnswered`, `RequestsAnswered`,
  `StreamReleased`) and the fairness half of
  `ImplementsSessions`: fairness and `ENABLED` are out of the prover's reach.

What a codec computes is proved where it is used as a pair: that the fields and
messages written by this server, or by a client that the scenarios describe, are read
back. `TcpRequest_encode` is there for the scenarios of TLC only.

## What is left

Not modelled and not planned: the text of the converter's formats, Brutal's
floating point arithmetic (the pairing of rates is in `Hy2Server`), the
masquerade's files and requests, the ranges `Config::validate` checks, the pool of
relay buffers, the browser front end and the start-up scripts: data and I/O whose
control is a single call.
