---------------------------- MODULE UdpSessions ----------------------------
(***************************************************************************)
(* The UDP sessions of one HY2 connection: the loop serve_udp_datagrams of *)
(* server.rs, which owns the session table, and the receive task that      *)
(* get_udp_session spawns for each session.                                *)
(*                                                                         *)
(* A session object is an Arc<UdpSession>; the table maps session ids to   *)
(* objects.  A receive task that ends sends its id and a weak reference to *)
(* the loop, which removes the entry if it still is that object.  The loop *)
(* reads those messages only at its select, not while it opens a socket or *)
(* sends a packet, and tasks run in between.  Each task sends one message, *)
(* so the expiration channel is a set; the order of it decides nothing.    *)
(***************************************************************************)
EXTENDS Integers

CONSTANTS
    Ids,    \* session ids, chosen by the client
    Objs,   \* session objects; reused once nothing refers to them
    None    \* no id, no object

ASSUME SessionsAssumption == None \notin Ids \cup Objs

VARIABLES
    loop,      \* select; open: in open_udp; send: in send_to; done: returned
    cur,       \* session id of the message being handled
    held,      \* session the loop sends the message on
    sessions,  \* the table
    idOf,      \* session_id the task of an object was spawned with
    task,      \* none; recv: in recv_from; relay, huge: has a packet to send
               \* back, has one that exceeds MAX_UDP_SIZE
    expired    \* objects whose message is in the expiration channel

vars == <<loop, cur, held, sessions, idOf, task, expired>>

TypeOK ==
    /\ loop \in {"select", "open", "send", "done"}
    /\ cur \in Ids \cup {None}
    /\ held \in Objs \cup {None}
    /\ sessions \in [Ids -> Objs \cup {None}]
    /\ idOf \in [Objs -> Ids \cup {None}]
    /\ task \in [Objs -> {"none", "recv", "relay", "huge"}]
    /\ expired \in SUBSET Objs

Init ==
    /\ loop = "select" /\ cur = None /\ held = None
    /\ sessions = [i \in Ids |-> None]
    /\ idOf = [o \in Objs |-> None]
    /\ task = [o \in Objs |-> "none"]
    /\ expired = {}

----------------------------------------------------------------------------
(* The loop.                                                                *)

\* A datagram completes a message: the session is found or must be opened.
Datagram(i) ==
    /\ loop = "select"
    /\ \/ sessions[i] # None /\ loop' = "send" /\ held' = sessions[i]
       \/ sessions[i] = None /\ loop' = "open" /\ held' = None
    /\ cur' = i
    /\ UNCHANGED <<sessions, idOf, task, expired>>

\* Nothing refers to the object.
Free(o) ==
    /\ task[o] = "none" /\ o \notin expired /\ held # o
    /\ \A i \in Ids : sessions[i] # o

\* open_udp returns a socket: the session is entered and its task spawned.
Opened(o) ==
    /\ loop = "open" /\ Free(o)
    /\ sessions' = [sessions EXCEPT ![cur] = o]
    /\ idOf' = [idOf EXCEPT ![o] = cur]
    /\ task' = [task EXCEPT ![o] = "recv"]
    /\ held' = o
    /\ loop' = "send"
    /\ UNCHANGED <<cur, expired>>

\* send_to returns; the loop goes back to its select.
Sent ==
    /\ loop = "send"
    /\ loop' = "select" /\ cur' = None /\ held' = None
    /\ UNCHANGED <<sessions, idOf, task, expired>>
\* Mutant of Expire: sessions are removed only once no task is left.
SweepingExpire(o) ==
    /\ loop = "select" /\ o \in expired
    /\ \A q \in Objs : task[q] = "none"
    /\ expired' = expired \ {o}
    /\ sessions' = [sessions EXCEPT ![idOf[o]] = IF @ = o THEN None ELSE @]
    /\ UNCHANGED <<loop, cur, held, idOf, task>>

\* The expiration branch of the select.
Expire(o) ==
    /\ loop = "select" /\ o \in expired
    /\ expired' = expired \ {o}
    /\ sessions' = [sessions EXCEPT ![idOf[o]] = IF @ = o THEN None ELSE @]
    /\ UNCHANGED <<loop, cur, held, idOf, task>>

\* The connection ends under the loop: it was closed or lost, a datagram did
\* not decode or reassemble, open_udp or send_to failed, or the TCP half of
\* serve_connection failed and cancelled it.  The table and the receiving end
\* of the channel are dropped; dropping the HTTP/3 half closes the connection.
LoopEnds ==
    /\ loop # "done"
    /\ loop' = "done" /\ cur' = None /\ held' = None
    /\ sessions' = [i \in Ids |-> None]
    /\ expired' = {}
    /\ UNCHANGED <<idOf, task>>

----------------------------------------------------------------------------
(* The receive tasks.                                                       *)

\* recv_from returns a packet of the remote host.
TaskReceives(o) ==
    /\ task[o] = "recv"
    /\ \E packet \in {"relay", "huge"} : task' = [task EXCEPT ![o] = packet]
    /\ UNCHANGED <<loop, cur, held, sessions, idOf, expired>>
\* Mutant of TaskSends: the error of send_datagram is ignored.
DeafTaskSends(o) ==
    /\ task[o] = "relay"
    /\ task' = [task EXCEPT ![o] = "recv"]
    /\ UNCHANGED <<loop, cur, held, sessions, idOf, expired>>

\* Every fragment of it is queued on the connection, which must be open.
TaskSends(o) ==
    /\ task[o] = "relay" /\ loop # "done"
    /\ task' = [task EXCEPT ![o] = "recv"]
    /\ UNCHANGED <<loop, cur, held, sessions, idOf, expired>>

\* A packet that exceeds MAX_UDP_SIZE does not encode and is dropped.
TaskDiscards(o) ==
    /\ task[o] = "huge"
    /\ task' = [task EXCEPT ![o] = "recv"]
    /\ UNCHANGED <<loop, cur, held, sessions, idOf, expired>>
\* Mutants of TaskEnds: the message carries the id only; a failed send ends the
\* task without a message.
NamelessTaskEnds(o) ==
    /\ task[o] # "none"
    /\ task' = [task EXCEPT ![o] = "none"]
    /\ expired' = IF loop = "done" THEN expired ELSE expired \cup {idOf[o]}
    /\ UNCHANGED <<loop, cur, held, sessions, idOf>>
SilentTaskEnds(o) ==
    /\ task[o] # "none"
    /\ task' = [task EXCEPT ![o] = "none"]
    /\ expired' = IF loop = "done" \/ task[o] = "relay" THEN expired ELSE expired \cup {o}
    /\ UNCHANGED <<loop, cur, held, sessions, idOf>>

\* The task ends: recv_from timed out or failed, or send_datagram failed.  Its
\* last step is to tell the loop, if there still is one.
TaskEnds(o) ==
    /\ task[o] \in {"recv", "relay"}
    /\ task' = [task EXCEPT ![o] = "none"]
    /\ expired' = IF loop = "done" THEN expired ELSE expired \cup {o}
    /\ UNCHANGED <<loop, cur, held, sessions, idOf>>

----------------------------------------------------------------------------
Next ==
    \/ \E i \in Ids : Datagram(i)
    \/ \E o \in Objs : Opened(o) \/ Expire(o)
    \/ Sent \/ LoopEnds
    \/ \E o \in Objs : TaskReceives(o) \/ TaskSends(o) \/ TaskDiscards(o) \/ TaskEnds(o)

Spec == Init /\ [][Next]_vars

\* Tasks that can run are scheduled and the timer of recv_from fires.  tokio's
\* select takes one of its ready branches at random, so a pending expiration is
\* not passed over for ever in favour of datagrams.  open_udp and send_to return
\* or the connection ends.  Nothing is assumed of the client or the remote hosts.
Fairness ==
    /\ WF_vars(loop = "send" /\ (Sent \/ LoopEnds))
    /\ WF_vars(loop = "open" /\ (LoopEnds \/ \E o \in Objs : Opened(o)))
    /\ \A o \in Objs :
         /\ SF_vars(Expire(o))
         /\ WF_vars(TaskSends(o) \/ TaskDiscards(o) \/ TaskEnds(o))

FairSpec == Spec /\ Fairness

----------------------------------------------------------------------------
(* Properties.                                                              *)

\* A session in the table either has its receive task or is about to be
\* removed, exactly one of the two: no client is left sending on an id whose
\* answers nobody reads and whose removal nobody asked for.
SessionTracked ==
    \A i \in Ids : sessions[i] # None =>
        (task[sessions[i]] # "none" <=> sessions[i] \notin expired)

\* While the connection lives every receive task is that of the session in the
\* table, so one id never has two tasks that answer with the same packet ids.
TaskMapped ==
    loop # "done" => \A o \in Objs : task[o] # "none" => sessions[idOf[o]] = o

\* A pending expiration is always that of the session in the table: an id is
\* reopened only after the expiration of its last session was handled, however
\* long the loop was busy elsewhere.
ExpirationCurrent == \A o \in expired : sessions[idOf[o]] = o

\* The loop never sends on a session that was removed under its feet.
HeldMapped == loop = "send" => held # None /\ sessions[cur] = held

\* The inductive form of the four: what the loop holds and where it is, and that
\* a table entry, its task and its expiration carry the same id.
LoopOwned ==
    /\ loop = "open" => cur \in Ids /\ sessions[cur] = None
    /\ loop = "send" => cur \in Ids
    /\ loop = "done" => expired = {} /\ \A i \in Ids : sessions[i] = None
EntryOwned ==
    /\ \A i \in Ids : sessions[i] # None => idOf[sessions[i]] = i
    /\ \A o \in Objs : task[o] # "none" \/ o \in expired => idOf[o] \in Ids
    /\ \A o \in expired : task[o] = "none"
SessionsConsistent ==
    /\ LoopOwned /\ EntryOwned
    /\ SessionTracked /\ TaskMapped /\ ExpirationCurrent /\ HeldMapped

\* A session whose task has ended leaves the table: the next datagram with its
\* id opens a new one instead of disappearing into the old.
EndedSessionRemoved ==
    \A o \in Objs : o \in expired ~> o \notin expired /\ \A i \in Ids : sessions[i] # o

\* Sockets do not outlive the connection: a task that never ends after it is one
\* to which oversized packets keep arriving.
SocketsReleased ==
    \A o \in Objs :
        <>[](loop = "done" /\ task[o] # "none") => []<>(task[o] = "huge")
=============================================================================
