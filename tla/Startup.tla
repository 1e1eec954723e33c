------------------------------ MODULE Startup ------------------------------
(***************************************************************************)
(* The boot service: startup.rs installs and removes the service file and  *)
(* its boot link, and the handlers of admin.rs call it under startup_lock. *)
(*                                                                         *)
(* A handler runs its job on a blocking thread.  If its client goes away   *)
(* the handler is dropped and gives the lock back, but the job runs on, so *)
(* that the next request's job may overlap it; both use the same temporary *)
(* name.  Every privileged command may fail, before or after it has had    *)
(* its effect, and the process may end between two steps and be started    *)
(* again with other arguments.                                             *)
(***************************************************************************)
EXTENDS Integers

CONSTANTS
    Handlers,
    None

ASSUME StartupAssumption == None \notin Handlers

VARIABLES
    manager,    \* openrc, systemd, or none that detect_manager knows
    file, temp, \* the service file and the temporary one: none; partial: not
                \* written to its end; current: what build_spec renders in this
                \* process; stale: what it rendered in an earlier one
    link,       \* the boot link: "on" or "off"
    lock,       \* holder of startup_lock
    pc, job,    \* of each handler; install or uninstall
    attended,   \* its client still waits for the answer
    outcome,    \* of its job: the StartupStatus it returns, or Failed
    shared,     \* another job has run while this one did
    torn        \* two jobs have overlapped at some time

disk == <<file, temp, link>>
tasks == <<lock, pc, job, attended, outcome, shared, torn>>
vars == <<manager, disk, tasks>>

\* status_for_spec.  A link to a file that is gone reads as disabled: exists
\* follows it, and is-enabled does not know the unit.
Status == [installed |-> file # "none", enabled |-> link = "on" /\ file # "none",
           current |-> file = "current"]
Failed == [error |-> "failed"]

Steps == {"build", "write", "fill", "copy", "disable", "remove", "reload", "enable",
          "status", "clean"}
Running(h) == pc[h] \in Steps

TypeOK ==
    /\ manager \in {"openrc", "systemd", "none"}
    /\ {file, temp} \subseteq {"none", "partial", "stale", "current"}
    /\ link \in {"on", "off"}
    /\ lock \in Handlers \cup {None}
    /\ pc \in [Handlers -> {"idle", "lock", "ended"} \cup Steps]
    /\ job \in [Handlers -> {"install", "uninstall"}]
    /\ attended \in [Handlers -> BOOLEAN]
    /\ outcome \in [Handlers -> [installed : BOOLEAN, enabled : BOOLEAN, current : BOOLEAN]
                                  \cup {Failed}]
    /\ shared \in [Handlers -> BOOLEAN]
    /\ torn \in BOOLEAN

Init ==
    /\ manager \in {"openrc", "systemd", "none"}
    /\ file = "none" /\ temp = "none" /\ link = "off"
    /\ lock = None
    /\ pc = [h \in Handlers |-> "idle"]
    /\ job = [h \in Handlers |-> "install"]
    /\ attended = [h \in Handlers |-> FALSE]
    /\ outcome = [h \in Handlers |-> Failed]
    /\ shared = [h \in Handlers |-> FALSE]
    /\ torn = FALSE

----------------------------------------------------------------------------
(* The handlers install_startup and uninstall_startup.                       *)

Request(h, kind) ==
    /\ pc[h] = "idle"
    /\ pc' = [pc EXCEPT ![h] = "lock"]
    /\ job' = [job EXCEPT ![h] = kind]
    /\ attended' = [attended EXCEPT ![h] = TRUE]
    /\ UNCHANGED <<manager, disk, lock, outcome, shared, torn>>

\* The lock is taken and the job spawned.
Lock(h) ==
    /\ pc[h] = "lock" /\ lock = None
    /\ lock' = h
    /\ pc' = [pc EXCEPT ![h] = "build"]
    /\ LET others == {g \in Handlers \ {h} : Running(g)} IN
         /\ shared' = [g \in Handlers |-> IF g = h THEN others # {}
                                          ELSE shared[g] \/ g \in others]
         /\ torn' = (torn \/ others # {})
    /\ UNCHANGED <<manager, disk, job, attended, outcome>>

\* The client goes away: the handler is dropped, its job is not.
Disconnect(h) ==
    /\ attended[h]
    /\ attended' = [attended EXCEPT ![h] = FALSE]
    /\ lock' = IF lock = h THEN None ELSE lock
    /\ pc' = [pc EXCEPT ![h] = IF Running(h) THEN @ ELSE "idle"]
    /\ UNCHANGED <<manager, disk, job, outcome, shared, torn>>

\* Nothing is kept of a job that has ended.
Forgotten(h) ==
    /\ pc' = [pc EXCEPT ![h] = "idle"]
    /\ attended' = [attended EXCEPT ![h] = FALSE]
    /\ outcome' = [outcome EXCEPT ![h] = Failed]
    /\ shared' = [shared EXCEPT ![h] = FALSE]
    /\ job' = [job EXCEPT ![h] = "install"]
    /\ UNCHANGED <<manager, disk, torn>>
\* Mutant of Reply: an error is returned before the guard is dropped.
LeakingReply(h) ==
    /\ pc[h] = "ended"
    /\ lock' = IF lock = h /\ outcome[h] # Failed THEN None ELSE lock
    /\ Forgotten(h)

\* The answer; without a client the result of the job is dropped.
Reply(h) ==
    /\ pc[h] = "ended"
    /\ lock' = IF lock = h THEN None ELSE lock
    /\ Forgotten(h)

----------------------------------------------------------------------------
(* The jobs.                                                                *)

Goes(h, step) ==
    /\ pc' = [pc EXCEPT ![h] = step]
    /\ UNCHANGED <<manager, lock, job, attended, shared, torn>>
Continues(h, step) == Goes(h, step) /\ UNCHANGED outcome
\* The error is returned; an install that has written its temporary file removes
\* it first.
GivesUp(h, step) ==
    /\ Goes(h, step)
    /\ outcome' = [outcome EXCEPT ![h] = Failed]

\* run_privileged, directly or through doas and sudo: the command does what it
\* should, or fails, which may not undo what it did.
run_privileged(h, effect, next, otherwise) ==
    \/ effect /\ Continues(h, next)
    \/ (effect \/ UNCHANGED disk) /\ GivesUp(h, otherwise)

\* Mutant of FirstStep: the file is removed before its link.
HastyFirstStep(kind, status) ==
    IF kind = "install" THEN "write"
    ELSE IF status.installed THEN "remove" ELSE IF status.enabled THEN "disable"
    ELSE IF manager = "systemd" THEN "reload" ELSE "status"

\* What a job begins with; an uninstall decides it by the status.  What is
\* enabled is also installed and will be removed next.
FirstStep(kind, status) ==
    IF kind = "install" THEN "write"
    ELSE IF status.enabled THEN "disable" ELSE IF status.installed THEN "remove"
    ELSE IF manager = "systemd" THEN "reload" ELSE "status"

\* detect_manager and build_spec.
Build(h) ==
    /\ pc[h] = "build"
    /\ \/ manager # "none" /\ Continues(h, FirstStep(job[h], Status))
       \/ GivesUp(h, "ended")
    /\ UNCHANGED disk

(* install *)
\* fs::write of the temporary file: it is truncated, then written.  An error
\* returns at once and leaves what there is.
WriteTemp(h) ==
    /\ \/ pc[h] = "write" /\ temp' = "partial" /\ Continues(h, "fill")
       \/ pc[h] = "fill" /\ temp' = "current" /\ Continues(h, "copy")
       \/ pc[h] \in {"write", "fill"} /\ temp' = temp /\ GivesUp(h, "ended")
    /\ UNCHANGED <<file, link>>

\* install -m: copies what the temporary file holds now; if it fails the service
\* file may be left incomplete (install is taken never to leave it missing).
Copy(h) ==
    /\ pc[h] = "copy"
    /\ \/ /\ temp # "none" /\ file' = temp
          /\ Continues(h, IF manager = "systemd" THEN "reload" ELSE "enable")
       \/ file' \in {file, "partial"} /\ GivesUp(h, "clean")
    /\ UNCHANGED <<temp, link>>
\* Mutant of Enable: the result of the command is not looked at.
HopefulEnable(h) ==
    /\ pc[h] = "enable"
    /\ link' \in {link, "on"} /\ UNCHANGED <<file, temp>>
    /\ Continues(h, "status")

\* rc-update add or systemctl enable, which want the service file.
Enable(h) ==
    /\ pc[h] = "enable"
    /\ \/ file # "none" /\ run_privileged(h, link' = "on" /\ UNCHANGED <<file, temp>>, "status", "clean")
       \/ file = "none" /\ GivesUp(h, "clean") /\ UNCHANGED disk

\* The temporary file is removed, whatever happened after it was written.
Clean(h) ==
    /\ pc[h] = "clean"
    /\ temp' = "none"
    /\ Continues(h, "ended")
    /\ UNCHANGED <<file, link>>

(* uninstall *)
Disable(h) ==
    /\ pc[h] = "disable"
    /\ run_privileged(h, link' = "off" /\ UNCHANGED <<file, temp>>, "remove", "ended")
Remove(h) ==
    /\ pc[h] = "remove"
    /\ run_privileged(h, file' = "none" /\ UNCHANGED <<temp, link>>,
         IF manager = "systemd" THEN "reload" ELSE "status", "ended")

(* both *)
\* systemctl daemon-reload.
Reload(h) ==
    /\ pc[h] = "reload"
    /\ run_privileged(h, UNCHANGED disk,
         IF job[h] = "install" THEN "enable" ELSE "status",
         IF job[h] = "install" THEN "clean" ELSE "ended")

\* The final status is the answer.
ReadStatus(h) ==
    /\ pc[h] = "status"
    /\ Goes(h, IF job[h] = "install" THEN "clean" ELSE "ended")
    /\ outcome' = [outcome EXCEPT ![h] = Status]
    /\ UNCHANGED disk

JobNext(h) ==
    \/ Build(h) \/ WriteTemp(h) \/ Copy(h) \/ Enable(h) \/ Clean(h)
    \/ Disable(h) \/ Remove(h) \/ Reload(h) \/ ReadStatus(h)

\* The process ends and is started again, perhaps with other arguments; its
\* temporary name is another one.
Restart ==
    /\ file' \in IF file \in {"stale", "current"} THEN {"stale", "current"} ELSE {file}
    /\ temp' = "none" /\ lock' = None
    /\ pc' = [h \in Handlers |-> "idle"]
    /\ job' = [h \in Handlers |-> "install"]
    /\ attended' = [h \in Handlers |-> FALSE]
    /\ outcome' = [h \in Handlers |-> Failed]
    /\ shared' = [h \in Handlers |-> FALSE]
    /\ UNCHANGED <<manager, link, torn>>

----------------------------------------------------------------------------
Next ==
    \/ \E h \in Handlers :
         \/ \E kind \in {"install", "uninstall"} : Request(h, kind)
         \/ Lock(h) \/ Disconnect(h) \/ Reply(h) \/ JobNext(h)
    \/ Restart

Spec == Init /\ [][Next]_vars

\* Blocking threads run, commands end, and tokio's mutex serves its waiters in
\* turn.
Fairness == \A h \in Handlers : SF_vars(Lock(h)) /\ WF_vars(JobNext(h)) /\ WF_vars(Reply(h))
FairSpec == Spec /\ Fairness

----------------------------------------------------------------------------
(* Properties.                                                              *)

\* The boot link never points to a service file that is not there, wherever an
\* installation or a removal failed or the process ended, as long as no two jobs
\* have overlapped.
LinkHasFile == ~torn /\ link = "on" => file # "none"

\* An installation that was alone and is reported as successful has left the
\* service file of this process, enabled, whatever earlier attempts had left; a
\* removal that is reported as successful has left neither file nor link; and
\* the reported status is the actual one.
OutcomeTrue ==
    \A h \in Handlers : pc[h] = "ended" /\ attended[h] /\ outcome[h] # Failed /\ ~shared[h] =>
        /\ outcome[h] = Status
        /\ job[h] = "install" => file = "current" /\ link = "on"
        /\ job[h] = "uninstall" => file = "none" /\ (torn \/ link = "off")

\* Every request is answered unless its client leaves: no failure of a job, and
\* no job that outlives its handler, keeps the lock.
RequestsAnswered == \A h \in Handlers : pc[h] = "lock" ~> pc[h] = "idle"
=============================================================================
