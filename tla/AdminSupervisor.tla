-------------------------- MODULE AdminSupervisor --------------------------
(***************************************************************************)
(* The management process of admin.rs: the PUT and reload handlers that    *)
(* save a configuration and ask for a reload, the command channel between  *)
(* them and the supervisor loop of run, and the proxy server it restarts.  *)
(*                                                                         *)
(* put_config holds write_lock from before the save until its command is   *)
(* in the channel.  The save runs on a blocking thread, which goes on when *)
(* the handler is dropped because its client went away; the lock does not. *)
(***************************************************************************)
EXTENDS Integers

CONSTANTS
    Handlers,     \* requests; reused once answered and their save has ended
    Configs,      \* valid configurations
    ChannelSize,  \* capacity of the command channel (4 in the code)
    Inodes,
    Empty, Mixed,   \* contents of files that hold no value
    None

ASSUME SupervisorAssumption ==
    /\ ChannelSize \in Nat \ {0}
    /\ None \notin Handlers \cup Configs \cup Inodes
    /\ Empty \notin Configs /\ Mixed \notin Configs

VARIABLES
    pc,       \* handlers: idle; lock; save: awaits its save; send: awaits room
    job,      \* blocking saves: none; open; write; rename
    val,      \* configuration each save writes
    fd, file, path, tmp,
    lock,     \* holder of write_lock
    chan,     \* commands in the channel
    sup,      \* supervisor: load; broken: no valid configuration; status; spawn;
              \* run; stop: waits for the server to end; ended: it ended by itself
    server,   \* none; up; stuck: its loop sees no shutdown; ended, not recorded
    loaded,   \* what the supervisor found in the file, until it is told to look again
    running,  \* RuntimeState.running
    torn      \* a save was cut off from its lock, and the supervisor has not loaded
              \* a good file since with no save under way

fileVars == <<fd, file, path, tmp>>
supVars  == <<sup, server, loaded, running>>
vars == <<pc, job, val, fileVars, lock, chan, supVars, torn>>

Save == INSTANCE TempFile WITH Writers <- Handlers, Values <- Configs

TypeOK ==
    /\ pc \in [Handlers -> {"idle", "lock", "save", "send"}]
    /\ job \in [Handlers -> {"none", "open", "write", "rename"}]
    /\ val \in [Handlers -> Configs \cup {None}]
    /\ Save!FileTypeOK
    /\ lock \in Handlers \cup {None}
    /\ chan \in 0 .. ChannelSize
    /\ sup \in {"load", "broken", "status", "spawn", "run", "stop", "ended"}
    /\ server \in {"none", "up", "stuck", "ended"}
    /\ loaded \in Save!Contents \cup {None}
    /\ running \in {"no", "yes"}
    /\ torn \in {"no", "yes"}

\* main has loaded a valid configuration before it calls run.
Init ==
    /\ pc = [h \in Handlers |-> "idle"]
    /\ job = [h \in Handlers |-> "none"]
    /\ val = [h \in Handlers |-> None]
    /\ \E c \in Configs : Save!FileInit(c)
    /\ lock = None /\ chan = 0
    /\ sup = "load" /\ server = "none" /\ loaded = None
    /\ running = "no" /\ torn = "no"

----------------------------------------------------------------------------
(* Handlers.                                                                *)

\* put_config with a valid configuration; it waits for write_lock.
Put(h, c) ==
    /\ pc[h] = "idle" /\ job[h] = "none"
    /\ pc' = [pc EXCEPT ![h] = "lock"]
    /\ val' = [val EXCEPT ![h] = c]
    /\ UNCHANGED <<job, fileVars, lock, chan, supVars, torn>>

\* The lock is taken and the save handed to a blocking thread.
PutLock(h) ==
    /\ pc[h] = "lock" /\ lock = None
    /\ lock' = h
    /\ pc' = [pc EXCEPT ![h] = "save"]
    /\ job' = [job EXCEPT ![h] = "open"]
    /\ UNCHANGED <<val, fileVars, chan, supVars, torn>>

\* reload: the file must load, then the command is sent; no lock is taken.
Reload(h) ==
    /\ pc[h] = "idle" /\ job[h] = "none" /\ Save!Intact
    /\ pc' = [pc EXCEPT ![h] = "send"]
    /\ UNCHANGED <<job, val, fileVars, lock, chan, supVars, torn>>

Released(h) == lock' = IF lock = h THEN None ELSE lock

\* The command finds room in the channel and the request is answered.
Send(h) ==
    /\ pc[h] = "send" /\ chan < ChannelSize
    /\ chan' = chan + 1
    /\ pc' = [pc EXCEPT ![h] = "idle"]
    /\ Released(h)
    /\ UNCHANGED <<job, val, fileVars, supVars, torn>>

\* The client goes away while the handler waits; it is dropped with its lock.
Disconnect(h) ==
    /\ pc[h] \in {"lock", "save", "send"}
    /\ torn' = IF lock = h THEN "yes" ELSE torn
    /\ pc' = [pc EXCEPT ![h] = "idle"]
    /\ val' = [val EXCEPT ![h] = IF job[h] = "none" THEN None ELSE @]
    /\ Released(h)
    /\ UNCHANGED <<job, fileVars, chan, supVars>>

----------------------------------------------------------------------------
(* save_atomic, on a blocking thread.                                       *)
\* Mutant of JobOpen: the file is written in place.
InPlaceJobOpen(h) ==
    /\ job[h] = "open"
    /\ tmp' = path
    /\ fd' = [fd EXCEPT ![h] = path]
    /\ file' = [file EXCEPT ![path] = Empty]
    /\ job' = [job EXCEPT ![h] = "write"]
    /\ UNCHANGED <<pc, val, path, lock, chan, supVars, torn>>

JobOpen(h) ==
    /\ job[h] = "open"
    /\ Save!Opens(h)
    /\ job' = [job EXCEPT ![h] = "write"]
    /\ UNCHANGED <<pc, val, lock, chan, supVars, torn>>

JobWrite(h) ==
    /\ job[h] = "write"
    /\ Save!Writes(h, val[h])
    /\ job' = [job EXCEPT ![h] = "rename"]
    /\ val' = [val EXCEPT ![h] = None]
    /\ UNCHANGED <<pc, lock, chan, supVars, torn>>
\* Mutant of JobRename: the request is answered without asking for a reload.
QuietJobRename(h) ==
    /\ job[h] = "rename"
    /\ Save!Renames(h)
    /\ job' = [job EXCEPT ![h] = "none"]
    /\ pc' = [pc EXCEPT ![h] = "idle"]
    /\ Released(h)
    /\ UNCHANGED <<val, chan, supVars, torn>>

\* The handler, if it still is there, goes on to send its command.
JobRename(h) ==
    /\ job[h] = "rename"
    /\ Save!Renames(h)
    /\ job' = [job EXCEPT ![h] = "none"]
    /\ pc' = [pc EXCEPT ![h] = IF @ = "save" THEN "send" ELSE @]
    /\ UNCHANGED <<val, lock, chan, supVars, torn>>
\* Mutant of JobFails: the lock is not given back.
LeakingJobFails(h) ==
    /\ job[h] # "none"
    /\ Save!Abandons(h)
    /\ job' = [job EXCEPT ![h] = "none"]
    /\ val' = [val EXCEPT ![h] = None]
    /\ pc' = [pc EXCEPT ![h] = "idle"]
    /\ UNCHANGED <<lock, chan, supVars, torn>>

\* The save fails, and with it the request.
JobFails(h) ==
    /\ job[h] # "none"
    /\ Save!Abandons(h) \/ (job[h] = "rename" /\ Save!RenameFails(h))
    /\ job' = [job EXCEPT ![h] = "none"]
    /\ val' = [val EXCEPT ![h] = None]
    /\ pc' = [pc EXCEPT ![h] = "idle"]
    /\ Released(h)
    /\ UNCHANGED <<chan, supVars, torn>>

----------------------------------------------------------------------------
(* The supervisor and the server.                                           *)

\* The head of the loop: the file is loaded, or a command awaited.
Load ==
    /\ sup = "load"
    /\ loaded' = Save!Stored
    /\ \/ Save!Intact /\ sup' = "status" /\ UNCHANGED running
       \/ ~Save!Intact /\ sup' = "broken" /\ running' = "no"
    /\ torn' = IF Save!Intact /\ \A h \in Handlers : job[h] = "none" THEN "no" ELSE torn
    /\ UNCHANGED <<pc, job, val, fileVars, lock, chan, server>>

\* The status says running before the server is spawned.
SetStatus ==
    /\ sup = "status"
    /\ running' = "yes"
    /\ sup' = "spawn"
    /\ UNCHANGED <<pc, job, val, fileVars, lock, chan, server, loaded, torn>>

Spawn ==
    /\ sup = "spawn"
    /\ server' = "up"
    /\ sup' = "run"
    /\ UNCHANGED <<pc, job, val, fileVars, lock, chan, loaded, running, torn>>
\* Mutant of Receive: the server that is told to shut down is not awaited.
HastyReceive ==
    /\ sup \in {"broken", "run", "ended"} /\ chan > 0
    /\ chan' = chan - 1
    /\ sup' = "load"
    /\ loaded' = None
    /\ UNCHANGED <<pc, job, val, fileVars, lock, server, running, torn>>

\* A command is received; a server that was not seen to end is told to shut down
\* and awaited.
Receive ==
    /\ sup \in {"broken", "run", "ended"} /\ chan > 0
    /\ chan' = chan - 1
    /\ sup' = IF sup = "run" THEN "stop" ELSE "load"
    /\ loaded' = None
    /\ UNCHANGED <<pc, job, val, fileVars, lock, server, running, torn>>

\* The server ends, because it was told to or by itself.
ServerEnds ==
    /\ server = "up"
    /\ server' = "ended"
    /\ UNCHANGED <<pc, job, val, fileVars, lock, chan, sup, loaded, running, torn>>

\* Its accept loop waits for a rate (the finding on Hy2Server) and does not see
\* that it is told to end, until somebody queues one.
ServerSticks ==
    /\ server = "up"
    /\ server' = "stuck"
    /\ UNCHANGED <<pc, job, val, fileVars, lock, chan, sup, loaded, running, torn>>

ServerResumes ==
    /\ server = "stuck"
    /\ server' = "up"
    /\ UNCHANGED <<pc, job, val, fileVars, lock, chan, sup, loaded, running, torn>>

\* finish_server, or the select that watches the server: its result is recorded.
RecordResult ==
    /\ server = "ended"
    /\ server' = "none"
    /\ running' = "no"
    /\ sup' = IF sup = "run" THEN "ended" ELSE "load"
    /\ UNCHANGED <<pc, job, val, fileVars, lock, chan, loaded, torn>>

\* The process dies and is started again (main refuses a file that is not valid).
Crash ==
    /\ Save!Intact
    /\ pc' = [h \in Handlers |-> "idle"]
    /\ job' = [h \in Handlers |-> "none"]
    /\ val' = [h \in Handlers |-> None]
    /\ fd' = [h \in Handlers |-> None]
    /\ lock' = None /\ chan' = 0
    /\ sup' = "load" /\ server' = "none" /\ loaded' = None
    /\ running' = "no" /\ torn' = "no"
    /\ UNCHANGED <<path, tmp>>
    /\ Save!Reclaimed

HandlerNext(h) ==
    \/ \E c \in Configs : Put(h, c)
    \/ PutLock(h) \/ Reload(h) \/ Send(h) \/ Disconnect(h)
    \/ JobOpen(h) \/ JobWrite(h) \/ JobRename(h) \/ JobFails(h)

SupervisorNext == Load \/ SetStatus \/ Spawn \/ Receive \/ RecordResult

ServerNext == ServerEnds \/ ServerSticks \/ ServerResumes

Next == (\E h \in Handlers : HandlerNext(h)) \/ SupervisorNext \/ ServerNext \/ Crash

Spec == Init /\ [][Next]_vars

\* Tasks and blocking threads that can run are scheduled.  tokio's Mutex and the
\* channel serve waiters in order of arrival, hence strong fairness.  A server that
\* was told to shut down ends unless it stays stuck: its select picks among the
\* branches that are ready at random, so the shutdown is not passed over for ever.
Fairness ==
    /\ \A h \in Handlers :
         /\ SF_vars(PutLock(h)) /\ SF_vars(Send(h))
         /\ WF_vars(JobOpen(h) \/ JobWrite(h) \/ JobRename(h) \/ JobFails(h))
    /\ WF_vars(SupervisorNext)
    /\ SF_vars(sup = "stop" /\ ServerEnds)

FairSpec == Spec /\ Fairness

----------------------------------------------------------------------------
(* Properties.                                                              *)

\* "configuration saved; proxy service is reloading": whatever order saves,
\* commands and loads come in, a file that differs from what the supervisor
\* loaded has a reload coming, unless a client cut the save off from it.
ReloadComing ==
    torn = "no" /\ loaded # None /\ loaded # Save!Stored =>
        \/ chan > 0
        \/ \E h \in Handlers : lock = h /\ pc[h] \in {"save", "send"}

\* The status page: a server that runs is never reported stopped, also when the
\* next one fails to load; it is reported running only if it is about to be spawned,
\* runs, or has ended so lately that its result is not recorded yet.
StatusTruthful ==
    /\ server \in {"up", "stuck"} => running = "yes"
    /\ running = "yes" => server # "none" \/ sup = "spawn"

\* "atomic saves": while every save has had its handler, and so write_lock, to its
\* end, whoever reads the file finds a complete configuration, whatever overlaps,
\* fails or crashes.
AttendedIntact == torn = "no" => Save!Intact

\* "atomic saves": whoever reads the file finds a complete configuration, also
\* while a save goes on whose client, and so whose write_lock, is gone.
SavesAtomic == Save!Intact

\* A full channel behind a held write_lock does not wedge the management API: no
\* request is pending for ever, but while the supervisor waits for a server that
\* is stuck.
EveryRequestAnswered ==
    \A h \in Handlers : []<>(pc[h] = "idle" \/ (sup = "stop" /\ server = "stuck"))

\* "All protocol services reload without restarting the management process": no
\* request waits for ever, whatever the server that is replaced does.
AlwaysAnswered == \A h \in Handlers : []<>(pc[h] = "idle")
=============================================================================
