--------------------------- MODULE StartupProofs ---------------------------
(***************************************************************************)
(* Proofs about Startup for any number of requests, failures and restarts. *)
(* The argument: a job that has not been joined by another one owns the    *)
(* service file, its link and the temporary file, so that what each of its *)
(* steps has established still holds at the next one.                      *)
(***************************************************************************)
EXTENDS Startup, TLAPS

\* Initially every variable has its type.
LEMMA InitType == Init => TypeOK
  BY DEF Init, TypeOK

\* Every step keeps the types.
LEMMA NextType == TypeOK /\ [Next]_vars => TypeOK'
  <1> SUFFICES ASSUME TypeOK, [Next]_vars PROVE TypeOK'
    OBVIOUS
  <1> USE DEF TypeOK, Steps, Running, disk
  <1>1. ASSUME NEW h \in Handlers, NEW kind \in {"install", "uninstall"}, Request(h, kind)
        PROVE  TypeOK'
    BY <1>1 DEF Request
  <1>2. ASSUME NEW h \in Handlers, Lock(h) PROVE TypeOK'
    BY <1>2 DEF Lock
  <1>3. ASSUME NEW h \in Handlers, Disconnect(h) PROVE TypeOK'
    BY <1>3 DEF Disconnect
  <1>4. ASSUME NEW h \in Handlers, Reply(h) PROVE TypeOK'
    BY <1>4 DEF Reply, Forgotten
  <1>5. ASSUME NEW h \in Handlers, JobNext(h) PROVE TypeOK'
    <2> USE DEF Goes, Continues, GivesUp, run_privileged
    <2>1. CASE Build(h)
      BY <2>1 DEF Build, FirstStep
    <2>2. CASE WriteTemp(h)
      BY <2>2 DEF WriteTemp
    <2>3. CASE Copy(h)
      BY <2>3 DEF Copy
    <2>4. CASE Enable(h)
      BY <2>4 DEF Enable
    <2>5. CASE Clean(h)
      BY <2>5 DEF Clean
    <2>6. CASE Disable(h)
      BY <2>6 DEF Disable
    <2>7. CASE Remove(h)
      BY <2>7 DEF Remove
    <2>8. CASE Reload(h)
      BY <2>8 DEF Reload
    <2>9. CASE ReadStatus(h)
      BY <2>9 DEF ReadStatus, Status
    <2> QED BY <1>5, <2>1, <2>2, <2>3, <2>4, <2>5, <2>6, <2>7, <2>8, <2>9 DEF JobNext
  <1>6. CASE Restart
    BY <1>6 DEF Restart
  <1>7. CASE UNCHANGED vars
    BY <1>7 DEF vars, tasks
  <1> QED BY <1>1, <1>2, <1>3, <1>4, <1>5, <1>6, <1>7 DEF Next

\* In every reachable state the disk and the handlers have their types.
THEOREM TypeCorrect == Spec => []TypeOK
  BY InitType, NextType, PTL DEF Spec

----------------------------------------------------------------------------
\* A handler whose job runs, or whose result still has a client to go to.
Busy(h) == Running(h) \/ (pc[h] = "ended" /\ attended[h])

\* A handler that still has its client holds the lock from Lock to Reply.
LockHeld == \A h \in Handlers : Busy(h) /\ attended[h] => lock = h

\* A job that ran beside another one is marked, and so is the history.
Marked ==
    /\ \A h, g \in Handlers : h # g /\ Busy(h) /\ Running(g) => shared[h]
    /\ \A h \in Handlers : shared[h] => torn

\* What the steps of a job have established by the time it stands at pc[h].
InstallSteps(h) ==
    /\ pc[h] \notin {"disable", "remove"}
    /\ pc[h] = "copy" => temp = "current"
    /\ pc[h] \in {"reload", "enable"} => file = "current"
    /\ pc[h] = "status" => file = "current" /\ link = "on"
    /\ pc[h] \in {"clean", "ended"} /\ outcome[h] # Failed =>
         outcome[h] = Status /\ file = "current" /\ link = "on"
UninstallSteps(h) ==
    /\ pc[h] \notin {"write", "fill", "copy", "enable", "clean"}
    /\ pc[h] = "remove" => link = "off"
    /\ pc[h] \in {"reload", "status"} => file = "none" /\ (torn \/ link = "off")
    /\ pc[h] = "ended" /\ outcome[h] # Failed =>
         outcome[h] = Status /\ file = "none" /\ (torn \/ link = "off")
StepsDone ==
    \A h \in Handlers : Busy(h) /\ ~shared[h] =>
        /\ job[h] = "install" => InstallSteps(h)
        /\ job[h] = "uninstall" => UninstallSteps(h)

\* The inductive invariant.
JobsOwnDisk == LockHeld /\ Marked /\ StepsDone /\ LinkHasFile

\* No job has begun yet.
LEMMA InitOwned == Init => JobsOwnDisk
  BY DEF Init, JobsOwnDisk, LockHeld, Marked, StepsDone, LinkHasFile, Busy, Running, Steps

\* A request, the lock, a client that goes away and the answer leave the disk
\* alone; Lock marks the jobs that it brings together.
LEMMA HandlerOwned ==
    ASSUME NEW h \in Handlers, TypeOK, JobsOwnDisk,
           (\E kind \in {"install", "uninstall"} : Request(h, kind)) \/ Lock(h) \/ Disconnect(h)
             \/ Reply(h)
    PROVE  JobsOwnDisk'
  <1> USE StartupAssumption
      DEF TypeOK, JobsOwnDisk, LockHeld, Marked, LinkHasFile, Busy, Running, Steps, disk
  <1>1. CASE \E kind \in {"install", "uninstall"} : Request(h, kind)
    <2>1. LockHeld' /\ Marked' /\ LinkHasFile'
      BY <1>1 DEF Request
    <2>2. StepsDone'
      BY <1>1 DEF Request, StepsDone, InstallSteps, UninstallSteps, Status
    <2> QED BY <2>1, <2>2
  <1>2. CASE Lock(h)
    <2>1. LockHeld' /\ LinkHasFile'
      BY <1>2 DEF Lock
    <2>2. Marked'
      <3> DEFINE others == {g \in Handlers \ {h} : Running(g)}
      <3>1. /\ shared'[h] <=> others # {}
            /\ \A g \in Handlers \ {h} : shared'[g] <=> shared[g] \/ g \in others
            /\ torn' <=> torn \/ others # {}
        BY <1>2, Zenon DEF Lock
      <3>2. /\ \A g \in Handlers \ {h} : Busy(g)' <=> Running(g)
            /\ \A g \in Handlers \ {h} : Running(g)' <=> Running(g)
        BY <1>2 DEF Lock
      <3>3. ASSUME NEW g \in Handlers, NEW k \in Handlers, g # k, Busy(g)', Running(k)'
            PROVE  shared'[g]
        <4>1. CASE g = h
          BY <3>1, <3>2, <3>3, <4>1
        <4>2. CASE g # h
          BY <3>1, <3>2, <3>3, <4>2
        <4> QED BY <4>1, <4>2
      <3>4. ASSUME NEW g \in Handlers, shared'[g] PROVE torn'
        BY <3>1, <3>4, Zenon
      <3> QED BY <3>3, <3>4
    <2>3. StepsDone'
      BY <1>2 DEF Lock, StepsDone, InstallSteps, UninstallSteps, Status
    <2> QED BY <2>1, <2>2, <2>3
  <1>3. CASE Disconnect(h)
    <2>1. LockHeld' /\ Marked' /\ LinkHasFile'
      BY <1>3 DEF Disconnect
    <2>2. StepsDone'
      BY <1>3 DEF Disconnect, StepsDone, InstallSteps, UninstallSteps, Status
    <2> QED BY <2>1, <2>2
  <1>4. CASE Reply(h)
    <2>1. LockHeld' /\ Marked' /\ LinkHasFile'
      BY <1>4 DEF Reply, Forgotten
    <2>2. StepsDone'
      BY <1>4 DEF Reply, Forgotten, StepsDone, InstallSteps, UninstallSteps, Status
    <2> QED BY <2>1, <2>2
  <1> QED BY <1>1, <1>2, <1>3, <1>4

\* A step of a job keeps who runs, who holds the lock and which jobs are marked.
LEMMA JobKeepsMarks ==
    ASSUME NEW h \in Handlers, TypeOK, JobsOwnDisk, JobNext(h)
    PROVE  /\ LockHeld' /\ Marked'
           /\ Running(h) /\ lock' = lock /\ UNCHANGED <<manager, job, attended, shared, torn>>
           /\ \E step \in Steps \cup {"ended"} : pc' = [pc EXCEPT ![h] = step]
           /\ \A g \in Handlers \ {h} : outcome'[g] = outcome[g] /\ pc'[g] = pc[g]
  <1> USE DEF TypeOK, Goes, Continues, GivesUp, run_privileged, Steps, Running
  <1>1. /\ Running(h) /\ UNCHANGED <<manager, lock, job, attended, shared, torn>>
        /\ \E step \in Steps \cup {"ended"} : pc' = [pc EXCEPT ![h] = step]
        /\ \A g \in Handlers \ {h} : outcome'[g] = outcome[g]
    <2>1. CASE Build(h)
      BY <2>1 DEF Build, FirstStep
    <2>2. CASE WriteTemp(h)
      BY <2>2 DEF WriteTemp
    <2>3. CASE Copy(h)
      BY <2>3 DEF Copy
    <2>4. CASE Enable(h)
      BY <2>4 DEF Enable
    <2>5. CASE Clean(h)
      BY <2>5 DEF Clean
    <2>6. CASE Disable(h)
      BY <2>6 DEF Disable
    <2>7. CASE Remove(h)
      BY <2>7 DEF Remove
    <2>8. CASE Reload(h)
      BY <2>8 DEF Reload
    <2>9. CASE ReadStatus(h)
      BY <2>9 DEF ReadStatus
    <2> QED BY <2>1, <2>2, <2>3, <2>4, <2>5, <2>6, <2>7, <2>8, <2>9 DEF JobNext
  <1>2. LockHeld' /\ Marked'
    BY <1>1 DEF JobsOwnDisk, LockHeld, Marked, Busy
  <1> QED BY <1>1, <1>2

\* What a step of a job establishes for its next one, and that the link keeps its
\* file.
LEMMA JobOwned ==
    ASSUME NEW h \in Handlers, TypeOK, JobsOwnDisk, JobNext(h)
    PROVE  JobsOwnDisk'
  <1>1. /\ Running(h) /\ UNCHANGED <<manager, job, attended, shared, torn>>
        /\ \E step \in Steps \cup {"ended"} : pc' = [pc EXCEPT ![h] = step]
        /\ \A g \in Handlers \ {h} : outcome'[g] = outcome[g] /\ pc'[g] = pc[g]
    BY JobKeepsMarks
  <1>2. ASSUME NEW g \in Handlers \ {h}, Busy(g)', ~shared'[g] PROVE FALSE
    BY <1>1, <1>2 DEF JobsOwnDisk, Marked, Busy, Running, TypeOK
  <1>3. /\ ~shared[h] /\ job[h] = "install" => InstallSteps(h)
        /\ ~shared[h] /\ job[h] = "uninstall" => UninstallSteps(h)
        /\ ~torn => ~shared[h]
        /\ torn \in BOOLEAN
        /\ shared[h] \in BOOLEAN
    BY <1>1 DEF JobsOwnDisk, StepsDone, Marked, Busy, TypeOK
  <1> DEFINE Done == /\ ~shared'[h] /\ job'[h] = "install" => InstallSteps(h)'
                     /\ ~shared'[h] /\ job'[h] = "uninstall" => UninstallSteps(h)'
  <1>4. Done /\ LinkHasFile'
    <2> USE <1>1, <1>3
        DEF JobsOwnDisk, LinkHasFile, TypeOK, Goes, Continues, GivesUp, run_privileged, disk,
            Done, InstallSteps, UninstallSteps, Status, Failed
    <2>1. CASE Build(h)
      BY <2>1 DEF Build, FirstStep
    <2>2. CASE WriteTemp(h)
      BY <2>2 DEF WriteTemp
    <2>3. CASE Copy(h)
      BY <2>3 DEF Copy
    <2>4. CASE Enable(h)
      BY <2>4 DEF Enable
    <2>5. CASE Clean(h)
      BY <2>5 DEF Clean
    <2>6. CASE Disable(h)
      BY <2>6 DEF Disable
    <2>7. CASE Remove(h)
      BY <2>7 DEF Remove
    <2>8. CASE Reload(h)
      BY <2>8 DEF Reload
    <2>9. CASE ReadStatus(h)
      BY <2>9 DEF ReadStatus
    <2> QED BY <2>1, <2>2, <2>3, <2>4, <2>5, <2>6, <2>7, <2>8, <2>9 DEF JobNext
  <1>5. StepsDone'
    BY <1>2, <1>4 DEF StepsDone
  <1> QED BY <1>4, <1>5, JobKeepsMarks DEF JobsOwnDisk

\* Every step keeps the disk in the hands of the job that is alone.
LEMMA NextOwned == TypeOK /\ JobsOwnDisk /\ [Next]_vars => JobsOwnDisk'
  <1> SUFFICES ASSUME TypeOK, JobsOwnDisk, [Next]_vars PROVE JobsOwnDisk'
    OBVIOUS
  <1>1. ASSUME NEW h \in Handlers,
               (\E kind \in {"install", "uninstall"} : Request(h, kind)) \/ Lock(h)
                 \/ Disconnect(h) \/ Reply(h)
        PROVE  JobsOwnDisk'
    BY <1>1, HandlerOwned
  <1>2. ASSUME NEW h \in Handlers, JobNext(h) PROVE JobsOwnDisk'
    BY <1>2, JobOwned
  <1>3. CASE Restart
    BY <1>3 DEF Restart, JobsOwnDisk, LockHeld, Marked, StepsDone, LinkHasFile, Busy, Running,
         Steps, TypeOK
  <1>4. CASE UNCHANGED vars
    BY <1>4 DEF vars, tasks, disk, JobsOwnDisk, LockHeld, Marked, StepsDone, LinkHasFile, Busy,
         Running, InstallSteps, UninstallSteps, Status
  <1> QED BY <1>1, <1>2, <1>3, <1>4 DEF Next

\* A job that no other one has joined finds at each of its steps what its earlier
\* steps have established, whoever leaves or fails around it.
THEOREM JobsAlone == Spec => []JobsOwnDisk
  BY InitType, NextType, InitOwned, NextOwned, PTL DEF Spec

\* The boot link never points to a missing service file while no two jobs have
\* overlapped, for any failures and restarts.
THEOREM NoDanglingLink == Spec => []LinkHasFile
  <1>1. JobsOwnDisk => LinkHasFile
    BY DEF JobsOwnDisk
  <1> QED BY <1>1, JobsAlone, PTL

\* A reported success is true: the status is the actual one, an installation has
\* left the file of this process and its link, and a removal neither.
THEOREM SuccessTrue == Spec => []OutcomeTrue
  <1>1. JobsOwnDisk /\ TypeOK => OutcomeTrue
    BY DEF JobsOwnDisk, StepsDone, Busy, InstallSteps, UninstallSteps, OutcomeTrue, TypeOK
  <1> QED BY <1>1, JobsAlone, TypeCorrect, PTL
=============================================================================
