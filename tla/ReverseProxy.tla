---------------------------- MODULE ReverseProxy ----------------------------
(***************************************************************************)
(* ReverseProxyController of reverse_proxy.rs: the settings file, the      *)
(* settings in memory, the tunnel task they start, and the NAT tunnels     *)
(* that task accepted when it is a relay.                                  *)
(*                                                                         *)
(* Requests are PUT handlers.  Nothing serialises them up to the task      *)
(* mutex of restart, their saves (TempFile) included, and a handler whose  *)
(* client goes away is dropped at an await (hyper does that, external).    *)
(***************************************************************************)
EXTENDS Integers, FiniteSets

CONSTANTS
    Requests,   \* PUT /api/v1/reverse-proxy handlers; reused once answered
    Relays,     \* enabled settings of role Gateway
    Egresses,   \* enabled settings of role Client
    Disabled,   \* settings that are not enabled; the first start writes one
    Tasks,      \* tunnel tasks; reused once ended
    Tunnels,    \* tunnel connections of NAT-side workers; reused once closed
    Inodes,     \* files; reused once no name and no descriptor refers to them
    Empty, Mixed,   \* contents of files that hold no value
    None

Settings == Relays \cup Egresses \cup Disabled

ASSUME ReverseProxyAssumption ==
    /\ Disabled # {} /\ Disabled \cap (Relays \cup Egresses) = {}
    /\ None \notin Requests \cup Settings \cup Tasks \cup Inodes
    /\ Empty \notin Settings /\ Mixed \notin Settings

VARIABLES
    pc,        \* where each request is in update and restart
    val,       \* the settings it carries; in restart, the ones it read
    fd,        \* the file it has open in save
    file,      \* contents of each inode
    path,      \* inode named reverse-proxy.toml
    tmp,       \* inode named reverse-proxy.tmp
    settings,  \* ControllerInner.settings
    lock,      \* holder of the mutex of ControllerInner.task
    slot,      \* ControllerInner.task
    task,      \* tunnel tasks: none; run; failing: has a result to record
    cfgOf,     \* settings each was started with
    aborted,   \* tasks that were told to stop
    running,   \* RuntimeState.running
    torn,      \* a request was dropped half way and no full restart followed
    tunnel,    \* away; auth; pooled: at the manager's select; pinging
    gateway,   \* the relay task that accepted each, as long as there is one
    tracked    \* tunnels counted by the nodes in GatewayTracker

requestVars == <<pc, val>>
fileVars    == <<fd, file, path, tmp>>
taskVars    == <<slot, task, cfgOf, aborted, running>>
tunnelVars  == <<tunnel, gateway, tracked>>
vars == <<requestVars, fileVars, settings, lock, taskVars, torn, tunnelVars>>

Save == INSTANCE TempFile WITH Writers <- Requests, Values <- Settings

TypeOK ==
    /\ pc \in [Requests -> {"idle", "open", "write", "rename", "apply",
                            "lock", "await", "read", "spawn"}]
    /\ val \in [Requests -> Settings \cup {None}]
    /\ Save!FileTypeOK
    /\ settings \in Settings
    /\ lock \in Requests \cup {None}
    /\ slot \in Tasks \cup {None}
    /\ task \in [Tasks -> {"none", "run", "failing"}]
    /\ cfgOf \in [Tasks -> Settings \cup {None}]
    /\ aborted \in SUBSET Tasks
    /\ running \in {"no", "yes"}
    /\ torn \in {"no", "yes"}
    /\ tunnel \in [Tunnels -> {"away", "auth", "pooled", "pinging"}]
    /\ gateway \in [Tunnels -> Tasks \cup {None}]
    /\ tracked \in SUBSET Tunnels

\* A first start: load_or_create has saved the default settings.
Init ==
    /\ pc = [r \in Requests |-> "idle"]
    /\ val = [r \in Requests |-> None]
    /\ settings \in Disabled
    /\ Save!FileInit(settings)
    /\ lock = None /\ slot = None
    /\ task = [t \in Tasks |-> "none"]
    /\ cfgOf = [t \in Tasks |-> None]
    /\ aborted = {}
    /\ running = "no" /\ torn = "no"
    /\ tunnel = [w \in Tunnels |-> "away"]
    /\ gateway = [w \in Tunnels |-> None]
    /\ tracked = {}

----------------------------------------------------------------------------
(* update: save, without a lock.                                            *)

\* put_reverse_proxy calls update with valid settings.
Update(r, s) ==
    /\ pc[r] = "idle"
    /\ pc' = [pc EXCEPT ![r] = "open"]
    /\ val' = [val EXCEPT ![r] = s]
    /\ UNCHANGED <<fileVars, settings, lock, taskVars, torn, tunnelVars>>

SaveOpen(r) ==
    /\ pc[r] = "open"
    /\ Save!Opens(r)
    /\ pc' = [pc EXCEPT ![r] = "write"]
    /\ UNCHANGED <<val, settings, lock, taskVars, torn, tunnelVars>>

SaveWrite(r) ==
    /\ pc[r] = "write"
    /\ Save!Writes(r, val[r])
    /\ pc' = [pc EXCEPT ![r] = "rename"]
    /\ UNCHANGED <<val, settings, lock, taskVars, torn, tunnelVars>>

\* The request is answered; nothing of it is left.
Answered(r) ==
    /\ pc' = [pc EXCEPT ![r] = "idle"]
    /\ val' = [val EXCEPT ![r] = None]

\* sync_all, close and rename.
SaveRename(r) ==
    /\ pc[r] = "rename"
    /\ \/ /\ Save!Renames(r)
          /\ pc' = [pc EXCEPT ![r] = "apply"]
          /\ UNCHANGED val
       \/ Save!RenameFails(r) /\ Answered(r)
    /\ UNCHANGED <<settings, lock, taskVars, torn, tunnelVars>>

\* A system call of save fails: the request is answered with the error.
SaveFails(r) ==
    /\ pc[r] \in {"open", "write", "rename"}
    /\ Save!Abandons(r)
    /\ Answered(r)
    /\ UNCHANGED <<settings, lock, taskVars, torn, tunnelVars>>

\* Mutant of Apply: no restart follows while another is under way.
DebouncedApply(r) ==
    /\ pc[r] = "apply"
    /\ settings' = val[r]
    /\ val' = [val EXCEPT ![r] = None]
    /\ pc' = [pc EXCEPT ![r] = IF val[r] = settings \/ lock # None THEN "idle" ELSE "lock"]
    /\ UNCHANGED <<fileVars, lock, taskVars, torn, tunnelVars>>

\* Mutant of Apply: the tracker is cleared when the settings change.
EagerApply(r) ==
    /\ pc[r] = "apply"
    /\ settings' = val[r]
    /\ val' = [val EXCEPT ![r] = None]
    /\ pc' = [pc EXCEPT ![r] = IF val[r] = settings THEN "idle" ELSE "lock"]
    /\ tracked' = IF val[r] = settings THEN tracked ELSE {}
    /\ UNCHANGED <<fileVars, lock, taskVars, torn, tunnel, gateway>>

\* The settings in memory are compared and replaced under their lock.
Apply(r) ==
    /\ pc[r] = "apply"
    /\ settings' = val[r]
    /\ val' = [val EXCEPT ![r] = None]
    /\ pc' = [pc EXCEPT ![r] = IF val[r] = settings THEN "idle" ELSE "lock"]
    /\ UNCHANGED <<fileVars, lock, taskVars, torn, tunnelVars>>

----------------------------------------------------------------------------
(* restart, under the task mutex.                                           *)
\* Mutant of RestartLock: the old task is awaited and not aborted.
GentleRestartLock(r) ==
    /\ pc[r] = "lock" /\ lock = None
    /\ lock' = r
    /\ pc' = [pc EXCEPT ![r] = "await"]
    /\ UNCHANGED <<val, fileVars, settings, taskVars, torn, tunnelVars>>

\* The mutex is taken, the old task taken out of its slot and told to stop.
RestartLock(r) ==
    /\ pc[r] = "lock" /\ lock = None
    /\ lock' = r
    /\ aborted' = IF slot = None THEN aborted ELSE aborted \cup {slot}
    /\ pc' = [pc EXCEPT ![r] = "await"]
    /\ UNCHANGED <<val, fileVars, settings, slot, task, cfgOf, running, torn, tunnelVars>>
\* Mutant of RestartAwait: the old task is aborted and not awaited.
HastyRestartAwait(r) ==
    /\ pc[r] = "await"
    /\ slot' = None
    /\ tracked' = {}
    /\ pc' = [pc EXCEPT ![r] = "read"]
    /\ UNCHANGED <<val, fileVars, settings, lock, task, cfgOf, aborted, running, torn,
                   tunnel, gateway>>

\* The old task has ended, task.await returns, the tracker is cleared.
RestartAwait(r) ==
    /\ pc[r] = "await" /\ (slot # None => task[slot] = "none")
    /\ slot' = None
    /\ tracked' = {}
    /\ pc' = [pc EXCEPT ![r] = "read"]
    /\ UNCHANGED <<val, fileVars, settings, lock, task, cfgOf, aborted, running, torn,
                   tunnel, gateway>>

RestartRead(r) ==
    /\ pc[r] = "read"
    /\ val' = [val EXCEPT ![r] = settings]
    /\ pc' = [pc EXCEPT ![r] = "spawn"]
    /\ UNCHANGED <<fileVars, settings, lock, taskVars, torn, tunnelVars>>

Alive == {t \in Tasks : task[t] # "none"}

\* The runtime state is reset and, if the settings say so, a task spawned.
RestartSpawn(r) ==
    /\ pc[r] = "spawn"
    /\ \/ /\ val[r] \in Disabled
          /\ running' = "no"
          /\ UNCHANGED <<slot, task, cfgOf, aborted>>
       \/ /\ val[r] \notin Disabled
          /\ running' = "yes"
          /\ \E t \in Tasks \ Alive :
               /\ slot' = t
               /\ task' = [task EXCEPT ![t] = "run"]
               /\ cfgOf' = [cfgOf EXCEPT ![t] = val[r]]
               /\ aborted' = aborted \ {t}
    /\ torn' = IF Alive = {} /\ val[r] = settings THEN "no" ELSE torn
    /\ lock' = None
    /\ Answered(r)
    /\ UNCHANGED <<fileVars, settings, tunnelVars>>

\* The client of the request goes away and the handler is dropped at an await:
\* the mutex is released, a handle that was taken out of its slot is detached.
Disconnect(r) ==
    /\ pc[r] \in {"apply", "lock", "await", "read", "spawn"}
    /\ torn' = "yes"
    /\ slot' = IF lock = r THEN None ELSE slot
    /\ lock' = IF lock = r THEN None ELSE lock
    /\ Answered(r)
    /\ UNCHANGED <<fileVars, settings, task, cfgOf, aborted, running, tunnelVars>>

----------------------------------------------------------------------------
(* The tunnel task.                                                         *)

\* run_gateway or run_client returns an error: listeners and workers are gone.
\* The tunnels of a relay outlive it: their managers are tasks of their own, and
\* each holds the sender of its own assignment channel.
TaskFails(t) ==
    /\ task[t] = "run"
    /\ task' = [task EXCEPT ![t] = "failing"]
    /\ UNCHANGED <<requestVars, fileVars, settings, lock, slot, cfgOf, aborted, running,
                   torn, tunnelVars>>

\* The tunnels that t accepted have lost their gateway.
Orphans(t) ==
    gateway' = [w \in Tunnels |-> IF gateway[w] = t THEN None ELSE gateway[w]]

\* It records its result and ends, possibly while it is being aborted.
TaskRecords(t) ==
    /\ task[t] = "failing"
    /\ running' = "no"
    /\ task' = [task EXCEPT ![t] = "none"]
    /\ Orphans(t)
    /\ UNCHANGED <<requestVars, fileVars, settings, lock, slot, cfgOf, aborted, torn,
                   tunnel, tracked>>

\* The abort takes effect: what the task owned is dropped, its tunnels stay.
TaskStops(t) ==
    /\ task[t] # "none" /\ t \in aborted
    /\ task' = [task EXCEPT ![t] = "none"]
    /\ Orphans(t)
    /\ UNCHANGED <<requestVars, fileVars, settings, lock, slot, cfgOf, aborted, running,
                   torn, tunnel, tracked>>

----------------------------------------------------------------------------
(* The tunnels of a relay (nat_tunnel.rs), as far as the controller goes.   *)

\* The task accepts a tunnel and spawns the task that authenticates it.
TunnelConnects(w, t) ==
    /\ tunnel[w] = "away" /\ task[t] = "run" /\ cfgOf[t] \in Relays
    /\ tunnel' = [tunnel EXCEPT ![w] = "auth"]
    /\ gateway' = [gateway EXCEPT ![w] = t]
    /\ UNCHANGED <<requestVars, fileVars, settings, lock, taskVars, torn, tracked>>

\* It is authenticated, counted by the tracker and put in the task's pool.
TunnelJoins(w) ==
    /\ tunnel[w] = "auth"
    /\ tunnel' = [tunnel EXCEPT ![w] = "pooled"]
    /\ tracked' = tracked \cup {w}
    /\ UNCHANGED <<requestVars, fileVars, settings, lock, taskVars, torn, gateway>>

\* The manager's heartbeat, which a healthy NAT-side worker answers.
Ping(w) ==
    /\ tunnel[w] = "pooled"
    /\ tunnel' = [tunnel EXCEPT ![w] = "pinging"]
    /\ UNCHANGED <<requestVars, fileVars, settings, lock, taskVars, torn, gateway, tracked>>

Pong(w) ==
    /\ tunnel[w] = "pinging"
    /\ tunnel' = [tunnel EXCEPT ![w] = "pooled"]
    /\ UNCHANGED <<requestVars, fileVars, settings, lock, taskVars, torn, gateway, tracked>>

\* It fails, is refused, or is taken by a public connection.
TunnelEnds(w) ==
    /\ tunnel[w] # "away"
    /\ tunnel' = [tunnel EXCEPT ![w] = "away"]
    /\ gateway' = [gateway EXCEPT ![w] = None]
    /\ tracked' = tracked \ {w}
    /\ UNCHANGED <<requestVars, fileVars, settings, lock, taskVars, torn>>

----------------------------------------------------------------------------
\* The process dies and starts again, if the file can be loaded: memory is what
\* load_or_create finds, and new restarts the tunnel.
Crash ==
    /\ Save!Intact
    /\ settings' = Save!Stored
    /\ pc' = [r \in Requests |-> "idle"]
    /\ val' = [r \in Requests |-> None]
    /\ fd' = [r \in Requests |-> None]
    /\ lock' = None /\ aborted' = {} /\ torn' = "no"
    /\ tunnel' = [w \in Tunnels |-> "away"]
    /\ gateway' = [w \in Tunnels |-> None]
    /\ tracked' = {}
    /\ \/ /\ Save!Stored \in Disabled
          /\ running' = "no" /\ slot' = None
          /\ task' = [t \in Tasks |-> "none"]
          /\ UNCHANGED cfgOf
       \/ /\ Save!Stored \notin Disabled
          /\ running' = "yes"
          /\ \E t \in Tasks :
               /\ slot' = t
               /\ task' = [u \in Tasks |-> IF u = t THEN "run" ELSE "none"]
               /\ cfgOf' = [cfgOf EXCEPT ![t] = Save!Stored]
    /\ UNCHANGED <<path, tmp>>
    /\ Save!Reclaimed

UpdateNext(r) ==
    \/ \E s \in Settings : Update(r, s)
    \/ SaveOpen(r) \/ SaveWrite(r) \/ SaveRename(r) \/ SaveFails(r) \/ Apply(r)
    \/ RestartLock(r) \/ RestartAwait(r) \/ RestartRead(r) \/ RestartSpawn(r)
    \/ Disconnect(r)

TaskNext(t) == TaskFails(t) \/ TaskRecords(t) \/ TaskStops(t)

TunnelNext(w) ==
    \/ \E t \in Tasks : TunnelConnects(w, t)
    \/ TunnelJoins(w) \/ Ping(w) \/ Pong(w) \/ TunnelEnds(w)

Next ==
    \/ \E r \in Requests : UpdateNext(r)
    \/ \E t \in Tasks : TaskNext(t)
    \/ \E w \in Tunnels : TunnelNext(w)
    \/ Crash

Spec == Init /\ [][Next]_vars

\* Handlers and tasks that can run are scheduled, heartbeats are sent and a
\* healthy worker answers them.
Fairness ==
    /\ \A r \in Requests :
         /\ WF_vars(SaveOpen(r) \/ SaveWrite(r) \/ SaveRename(r) \/ Apply(r))
         /\ WF_vars(RestartAwait(r) \/ RestartRead(r) \/ RestartSpawn(r))
         /\ SF_vars(RestartLock(r))
    /\ \A t \in Tasks : WF_vars(TaskRecords(t)) /\ WF_vars(TaskStops(t))
    /\ \A w \in Tunnels : WF_vars(TunnelJoins(w)) /\ WF_vars(Ping(w)) /\ WF_vars(Pong(w))

FairSpec == Spec /\ Fairness

----------------------------------------------------------------------------
(* Properties.                                                              *)

\* The slot holds a task of the settings in memory, or none if they are disabled.
Matching ==
    IF settings \in Disabled THEN slot = None
                             ELSE slot # None /\ cfgOf[slot] = settings

\* No update is under way, and the last one was not cut short.
Settled == torn = "no" /\ \A r \in Requests : pc[r] = "idle"

\* "Saving an enabled configuration starts or replaces the tunnel": however
\* updates overlap, once they are answered the task in the slot is one of the
\* settings in memory, never of settings another update has replaced.
LatestRuns == Settled => Matching

\* The status the WebUI shows: a tunnel is reported running exactly while its
\* task is, so a result recorded late never overwrites that of the next task.
StatusTruthful == Settled => (running = "yes" <=> Alive # {})

\* There is never a second tunnel task that nobody told to stop, even when the
\* request that replaces the first is dropped half way.
OneTunnel == Cardinality(Alive \ aborted) <= 1

\* Clearing the tracker never takes a node from the relay that runs: a tunnel that
\* joined the pool of a task nobody told to stop is counted, however often and by
\* whom the tracker was cleared meanwhile.
RelayNodesCounted ==
    \A w \in Tunnels :
        tunnel[w] \in {"pooled", "pinging"} /\ gateway[w] \in Alive \ aborted
          => w \in tracked

\* "Saving an enabled configuration starts or replaces the tunnel": with every
\* request over, also those whose client went away after the save, the task in the
\* slot is one of the settings in memory.
SavedSettingsRun == (\A r \in Requests : pc[r] = "idle") => Matching

\* "Disabling it closes the listeners and workers": while the settings stay
\* disabled, a tunnel that the tracker counts, accepted by the relay that was
\* disabled, is closed sooner or later.
DisablingCloses ==
    \A w \in Tunnels :
        Settled /\ settings \in Disabled /\ w \in tracked
          ~> w \notin tracked \/ settings \notin Disabled
=============================================================================
